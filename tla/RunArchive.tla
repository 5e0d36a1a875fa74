----------------------------- MODULE RunArchive -----------------------------
(***************************************************************************)
(* The archive of the finished Runs of one project: runs/archiver.ts, the  *)
(* Run store it records its progress in (runs/store.ts) and the Git and    *)
(* GitHub operations it publishes with (repository/git-repository.ts,      *)
(* service.ts, github.ts).                                                 *)
(*                                                                         *)
(* An archive publishes the Run's scenario patch (to the scenario branch,  *)
(* or as a pull request), its report and its Issues, then decides whether  *)
(* the Run becomes the tested baseline.  Each call may fail, or take       *)
(* effect and lose its answer, and the process may stop between any two    *)
(* steps; the archive is then done again until the queue has recorded it   *)
(* as completed.                                                           *)
(*                                                                         *)
(* A commit is the set of what it contains: the reports and patches of     *)
(* Runs, and what other writers of the branch have pushed.  The branch     *)
(* only moves forward, so one commit descends from another exactly when it *)
(* contains it.                                                            *)
(***************************************************************************)
EXTENDS Naturals, FiniteSets

CONSTANTS
    NumRuns,         \* Runs of the project, numbered in the order they finished
    Bugs,            \* keys of confirmed bugs
    Linked,          \* the bugs a report links to an Issue that exists already
    Histories,       \* what the Runs may have found, one after the other
    CloneUsers,      \* how many archives may use the project's clone at once
    ReviewersWait,   \* whether reviewers leave a pull request alone until it is recorded
    MaxFailures,     \* bound: calls that fail or lose their answer
    MaxForeign,      \* bound: pushes of others to the scenario branch
    MaxCrashes       \* bound: crashes of the process

Result == {"passed", "failed", "blocked"}
Patch == {"none", "direct", "review"}

\* assertArchivableReport and isSpecialScenarioReviewRun
LegalFacts ==
    {f \in [result: Result, special: BOOLEAN, patch: Patch, bugs: SUBSET Bugs] :
        /\ f.result = "failed" => f.bugs # {}
        /\ f.result = "passed" => f.bugs = {}
        /\ f.special => f.result = "blocked" /\ f.patch = "review"}

ASSUME ArchiveAssumption ==
    /\ NumRuns \in Nat /\ CloneUsers \in Nat
    /\ Linked \subseteq Bugs /\ IsFiniteSet(Bugs)
    /\ Bugs \cap {"none", "scenario", "report"} = {}
    /\ Histories \subseteq [1..NumRuns -> LegalFacts]
    /\ ReviewersWait \in BOOLEAN
    /\ MaxFailures \in Nat /\ MaxForeign \in Nat /\ MaxCrashes \in Nat

Runs == 1..NumRuns
Items == ({"scenario", "report"} \X Runs) \cup ({"other"} \X (1..MaxForeign))

VARIABLES
    facts,     \* the artifacts of each Run
    outcome,   \* what the queue knows of the archive of each Run
    row,       \* run_store_runs
    filed,     \* the bugs whose Issue the store has recorded (run_store_issues)
    progress,  \* run_store_progress: the Run that moved it last, 0 for none
    branch,    \* head of the scenario branch on GitHub
    proposed,  \* Runs whose branch luowang/scenario/<run> exists on GitHub
    pulls,     \* their pull requests: how many were created, whether one is open
    issues,    \* how many Issues carry the markers of a Run and a bug
    clone,     \* HEAD of the project's clone
    staged,    \* its index, relative to HEAD
    at,        \* where the archive of each Run is: what it publishes, at which step,
               \* its originalHead, the bugs its loop has dealt with
    failures, foreign, crashes  \* bounded by MaxFailures, MaxForeign, MaxCrashes

storeVars == <<row, filed, progress>>
remoteVars == <<branch, proposed, pulls, issues>>
cloneVars == <<clone, staged>>
boundVars == <<failures, foreign, crashes>>
vars == <<facts, outcome, storeVars, remoteVars, cloneVars, at, boundVars>>

Step == {"idle", "validate", "fetch", "checkout", "look", "commit", "recheck", "push",
         "confirm", "find", "create", "issues", "attempt", "post", "complete", "settle"}

Record == [known: BOOLEAN, patch: Patch, progressed: BOOLEAN,
           report: {"pending", "not_applicable", "published", "failed"},
           scenario: {"pending", "not_applicable", "published", "pull_request", "failed"},
           archive: {"pending", "completed", "partial", "failed"}]

Place == [step: Step, job: {"none", "scenario", "report"} \cup Bugs,
          head: SUBSET Items, tried: SUBSET Bugs]

ArchiveTypeOK ==
    /\ facts \in Histories
    /\ outcome \in [Runs -> {"none", "waiting", "completed", "partial", "failed"}]
    /\ row \in [Runs -> Record]
    /\ filed \in [Runs -> SUBSET Bugs]
    /\ progress \in 0..NumRuns
    /\ branch \subseteq Items /\ clone \subseteq Items /\ staged \subseteq Items
    /\ proposed \subseteq Runs
    /\ pulls \in [Runs -> [created: Nat, open: BOOLEAN]]
    /\ issues \in [Runs -> [Bugs -> Nat]]
    /\ at \in [Runs -> Place]
    /\ failures \in 0..MaxFailures /\ foreign \in 0..MaxForeign /\ crashes \in 0..MaxCrashes
-----------------------------------------------------------------------------
NoRow == [known |-> FALSE, patch |-> "none", progressed |-> FALSE, report |-> "pending",
          scenario |-> "pending", archive |-> "pending"]

At(step, job) == [step |-> step, job |-> job, head |-> {}, tried |-> {}]
Idle == At("idle", "none")
Item(r) == <<at[r].job, r>>
Goto(r, step) == at' = [at EXCEPT ![r].step = step]

\* The archive of r stands at a step of the given job.
Doing(r, job, step) == at[r].step = step /\ at[r].job = job
Publishing(r, step) == at[r].step = step /\ at[r].job \in {"scenario", "report"}

\* scenarioPublicationMode: the patch of r goes into a pull request.
Reviewed(r) == at[r].job = "scenario" /\ row[r].patch = "review"

Init ==
    /\ facts \in Histories
    /\ outcome = [r \in Runs |-> "none"]
    /\ row = [r \in Runs |-> NoRow]
    /\ filed = [r \in Runs |-> {}]
    /\ progress = 0
    /\ branch = {} /\ clone = {} /\ staged = {}
    /\ proposed = {}
    /\ pulls = [r \in Runs |-> [created |-> 0, open |-> FALSE]]
    /\ issues = [r \in Runs |-> [b \in Bugs |-> 0]]
    /\ at = [r \in Runs |-> Idle]
    /\ failures = 0 /\ foreign = 0 /\ crashes = 0
-----------------------------------------------------------------------------
(***************************************************************************)
(* importCompleted, by the orchestrator when the Run ends (which knows the *)
(* scenario mode of its configuration) or by the archiver (which does not, *)
(* and so asks for a review).                                              *)
(***************************************************************************)
NewRow(r, patch) ==
    [known |-> TRUE, patch |-> patch, progressed |-> FALSE,
     report |-> IF facts[r].special THEN "not_applicable" ELSE "pending",
     scenario |-> IF facts[r].special \/ patch = "none" THEN "not_applicable" ELSE "pending",
     archive |-> "pending"]

Imported(r) ==
    IF row[r].known THEN row[r]
    ELSE NewRow(r, IF facts[r].patch = "none" THEN "none" ELSE "review")

\* A Run ends while no archive of its project is pending; preloading its
\* record may fail.
EndRun(r) ==
    /\ outcome[r] = "none"
    /\ \A s \in Runs : s < r => outcome[s] \notin {"none", "waiting"}
    /\ outcome' = [outcome EXCEPT ![r] = "waiting"]
    /\ \/ row' = [row EXCEPT ![r] = NewRow(r, facts[r].patch)]
       \/ UNCHANGED row
    /\ UNCHANGED <<facts, filed, progress, remoteVars, cloneVars, at, boundVars>>

\* Where an archive goes on after it dealt with the scenario patch.
AfterScenario(record) ==
    IF record.report \in {"pending", "failed"}
    THEN At("fetch", "report")
    ELSE At("issues", "none")

ScenarioOpen(record) ==
    record.patch # "none" /\ record.scenario \notin {"published", "pull_request"}

AfterImport(record) ==
    IF record.archive = "completed" THEN At("settle", "none")
    ELSE IF ScenarioOpen(record) THEN At("validate", "scenario")
    ELSE AfterScenario(record)

\* Mutant: an archive that ended partial is not retried.
UnsettledButPartial == {"waiting", "failed"}

Unsettled == {"waiting", "partial", "failed"}

\* archive and retry, called for a pending archive and for one that ended
\* failed or partial: archiveInternal up to the first publication.
StartArchive(r) ==
    /\ at[r] = Idle
    /\ outcome[r] \in Unsettled
    /\ Cardinality({s \in Runs : at[s] # Idle}) < CloneUsers
    /\ \/ /\ row' = [row EXCEPT ![r] = Imported(r)]
          /\ at' = [at EXCEPT ![r] = AfterImport(Imported(r))]
          /\ UNCHANGED failures
       \* The artifacts cannot be read, or contradict the stored record.
       \/ /\ failures < MaxFailures
          /\ failures' = failures + 1
          /\ row' = IF row[r].known THEN [row EXCEPT ![r].archive = "failed"] ELSE row
          /\ at' = [at EXCEPT ![r] = At("settle", "none")]
    /\ UNCHANGED <<facts, outcome, filed, progress, remoteVars, cloneVars, foreign, crashes>>
-----------------------------------------------------------------------------
(***************************************************************************)
(* markScenario and markReport, with the way the archive goes on.          *)
(***************************************************************************)
WithScenario(record, status) ==
    IF status = "failed" THEN [record EXCEPT !.scenario = status, !.archive = "failed"]
    ELSE [record EXCEPT !.scenario = status]

WithReport(record, status) ==
    IF status = "failed" THEN [record EXCEPT !.report = status, !.archive = "failed"]
    ELSE [record EXCEPT !.report = status]

\* Only a blocked Run goes on to its Issues without a report.
AfterReport(r, status) ==
    IF status = "failed" /\ facts[r].result # "blocked"
    THEN At("settle", "none")
    ELSE At("issues", "none")

Mark(r, status) ==
    IF at[r].job = "scenario"
    THEN LET marked == WithScenario(row[r], status)
         IN  /\ row' = [row EXCEPT ![r] = marked]
             /\ at' = [at EXCEPT ![r] = AfterScenario(marked)]
    ELSE /\ row' = [row EXCEPT ![r] = WithReport(row[r], status)]
         /\ at' = [at EXCEPT ![r] = AfterReport(r, status)]

\* A step that only reads, and one of the clone.
Unpublished == UNCHANGED <<facts, outcome, filed, progress, remoteVars, foreign, crashes>>

\* cleanWorkspace, in the finally block of the publication.
Cleaned == staged' = {} /\ UNCHANGED clone

\* A call of the publication fails.
InClone == {"validate", "checkout", "look", "commit", "recheck", "push", "confirm"}

PublicationFails(r) ==
    /\ \E step \in InClone \cup {"fetch", "find", "create"} : Publishing(r, step)
    /\ failures < MaxFailures
    /\ failures' = failures + 1
    /\ Mark(r, "failed")
    /\ IF at[r].step \in InClone THEN Cleaned ELSE UNCHANGED cloneVars
    /\ Unpublished
-----------------------------------------------------------------------------
(***************************************************************************)
(* validateScenarioPatch, publishScenarioPatch and publishRunReports.      *)
(***************************************************************************)

\* The target of the Run is checked out; it contains nothing of the archives.
Validate(r) ==
    /\ Publishing(r, "validate")
    /\ clone' = {} /\ staged' = {}
    /\ Goto(r, "fetch")
    /\ Unpublished /\ UNCHANGED <<row, failures>>

\* A patch under review whose branch exists needs only its pull request.
Fetch(r) ==
    /\ Publishing(r, "fetch")
    /\ at' = [at EXCEPT ![r].head = branch,
                        ![r].step = IF Reviewed(r) /\ r \in proposed THEN "find" ELSE "checkout"]
    /\ Unpublished /\ UNCHANGED <<row, cloneVars, failures>>

Checkout(r) ==
    /\ Publishing(r, "checkout")
    /\ clone' = at[r].head /\ staged' = {}
    /\ Goto(r, "look")
    /\ Unpublished /\ UNCHANGED <<row, failures>>

\* What the archive sees as published: the report in the commit it read, the
\* patch in the worktree (canApplyPatch in reverse).
Seen(r) == IF at[r].job = "report" THEN at[r].head ELSE clone

AlreadyPublished(r) ==
    /\ Publishing(r, "look") /\ ~Reviewed(r)
    /\ Item(r) \in Seen(r)
    /\ Mark(r, "published") /\ Cleaned
    /\ Unpublished /\ UNCHANGED failures

\* materializeScenarioPatch: a patch that is applied already does not apply.
PatchDoesNotApply(r) ==
    /\ Publishing(r, "look") /\ Reviewed(r)
    /\ Item(r) \in clone
    /\ Mark(r, "failed") /\ Cleaned
    /\ Unpublished /\ UNCHANGED failures

Stage(r) ==
    /\ Publishing(r, "look")
    /\ Item(r) \notin Seen(r)
    /\ staged' = staged \cup {Item(r)}
    /\ Goto(r, "commit")
    /\ Unpublished /\ UNCHANGED <<row, clone, failures>>

\* The index must hold the files of this Run and no other.
Commit(r) ==
    /\ Publishing(r, "commit")
    /\ \/ /\ staged = {Item(r)}
          /\ clone' = clone \cup staged /\ staged' = {}
          /\ Goto(r, "recheck")
          /\ UNCHANGED row
       \/ /\ staged # {Item(r)}
          /\ Mark(r, "failed") /\ Cleaned
    /\ Unpublished /\ UNCHANGED failures

\* The branch must not have moved, unless a branch of its own is pushed.
Recheck(r) ==
    /\ Publishing(r, "recheck")
    /\ IF Reviewed(r) \/ branch = at[r].head
       THEN Goto(r, "push") /\ UNCHANGED <<row, cloneVars>>
       ELSE Mark(r, "failed") /\ Cleaned
    /\ Unpublished /\ UNCHANGED failures

\* git push origin HEAD:<branch> is refused unless HEAD descends from the
\* branch, and does nothing when they are equal.
PushTaken(r) ==
    IF Reviewed(r)
    THEN proposed' = proposed \cup {r} /\ UNCHANGED branch
    ELSE branch \subseteq clone /\ branch' = clone /\ UNCHANGED proposed

Push(r) ==
    /\ Publishing(r, "push")
    /\ PushTaken(r)
    /\ \/ /\ Goto(r, IF Reviewed(r) THEN "find" ELSE "confirm")
          /\ UNCHANGED <<row, staged, failures>>
       \* The push is done and its answer lost.
       \/ /\ failures < MaxFailures
          /\ failures' = failures + 1
          /\ Mark(r, "failed") /\ staged' = {}
    /\ UNCHANGED <<facts, outcome, filed, progress, pulls, issues, clone,
                   foreign, crashes>>

\* Mutant: a refused push goes unnoticed.
PushRefusalIgnored(r) ==
    /\ Publishing(r, "push") /\ ~Reviewed(r)
    /\ ~(branch \subseteq clone)
    /\ Goto(r, "confirm")
    /\ Unpublished /\ UNCHANGED <<row, cloneVars, failures>>

PushRefused(r) ==
    /\ Publishing(r, "push") /\ ~Reviewed(r)
    /\ ~(branch \subseteq clone)
    /\ Mark(r, "failed") /\ Cleaned
    /\ Unpublished /\ UNCHANGED failures

\* The head of the branch and the commit are read once more.
Confirm(r) ==
    /\ Publishing(r, "confirm")
    /\ Mark(r, "published") /\ Cleaned
    /\ Unpublished /\ UNCHANGED failures
-----------------------------------------------------------------------------
(***************************************************************************)
(* publishScenarioChanges: the pull request.  Only open ones are searched. *)
(***************************************************************************)
\* Mutant: the pull request created before is not searched.
FindPullUnsearched(r) ==
    /\ Publishing(r, "find")
    /\ Goto(r, "create")
    /\ Unpublished /\ UNCHANGED <<row, cloneVars, failures>>

FindPull(r) ==
    /\ Publishing(r, "find")
    /\ IF pulls[r].open THEN Mark(r, "pull_request")
       ELSE Goto(r, "create") /\ UNCHANGED row
    /\ Unpublished /\ UNCHANGED <<cloneVars, failures>>

\* GitHub refuses a pull request whose branch is gone or brings nothing new.
Mergeable(r) == r \in proposed /\ <<"scenario", r>> \notin branch

CreatePull(r) ==
    /\ Publishing(r, "create")
    /\ Mergeable(r)
    /\ pulls' = [pulls EXCEPT ![r] = [created |-> @.created + 1, open |-> TRUE]]
    /\ \/ Mark(r, "pull_request") /\ UNCHANGED failures
       \/ /\ failures < MaxFailures
          /\ failures' = failures + 1
          /\ Mark(r, "failed")
    /\ UNCHANGED <<facts, outcome, filed, progress, branch, proposed, issues, cloneVars,
                   foreign, crashes>>

PullRefused(r) ==
    /\ Publishing(r, "create")
    /\ ~Mergeable(r)
    /\ Mark(r, "failed")
    /\ Unpublished /\ UNCHANGED <<cloneVars, failures>>
-----------------------------------------------------------------------------
(***************************************************************************)
(* The loop over the bugs, and processIssue.                               *)
(***************************************************************************)
IssuesLeft(r) == (facts[r].bugs \ filed[r]) \ at[r].tried

IssueStep == UNCHANGED <<facts, outcome, progress, branch, proposed, pulls, cloneVars,
                         foreign, crashes>>

\* markIssueAttempt, and on to the next bug.
MarkIssue(r, b, succeeded) ==
    /\ filed' = IF succeeded THEN [filed EXCEPT ![r] = @ \cup {b}] ELSE filed
    /\ row' = IF succeeded THEN row ELSE [row EXCEPT ![r].archive = "partial"]
    /\ at' = [at EXCEPT ![r] = [At("issues", "none") EXCEPT !.tried = at[r].tried \cup {b}]]

NextIssue(r) ==
    /\ Doing(r, "none", "issues")
    /\ \E b \in IssuesLeft(r) : at' = [at EXCEPT ![r].step = "attempt", ![r].job = b]
    /\ IssueStep /\ UNCHANGED <<row, filed, issues, failures>>

\* Mutant: the search for an Issue filed before is left out.
CreateUnsearched(r, b) ==
    /\ Doing(r, b, "attempt")
    /\ IF b \in Linked
       THEN MarkIssue(r, b, TRUE)
       ELSE Goto(r, "post") /\ UNCHANGED <<row, filed>>
    /\ IssueStep /\ UNCHANGED <<issues, failures>>

\* A linked Issue is read; another is searched by its markers.
FindIssue(r, b) ==
    /\ Doing(r, b, "attempt")
    /\ IF b \in Linked \/ issues[r][b] > 0
       THEN MarkIssue(r, b, TRUE)
       ELSE Goto(r, "post") /\ UNCHANGED <<row, filed>>
    /\ IssueStep /\ UNCHANGED <<issues, failures>>

CreateIssue(r, b) ==
    /\ Doing(r, b, "post")
    /\ issues' = [issues EXCEPT ![r][b] = @ + 1]
    /\ \/ MarkIssue(r, b, TRUE) /\ UNCHANGED failures
       \* The Issue is created and the answer lost.
       \/ /\ failures < MaxFailures
          /\ failures' = failures + 1
          /\ MarkIssue(r, b, FALSE)
    /\ IssueStep

IssueFails(r, b) ==
    /\ Doing(r, b, "attempt") \/ Doing(r, b, "post")
    /\ failures < MaxFailures
    /\ failures' = failures + 1
    /\ MarkIssue(r, b, FALSE)
    /\ IssueStep /\ UNCHANGED issues

IssuesDone(r) ==
    /\ Doing(r, "none", "issues")
    /\ IssuesLeft(r) = {}
    /\ at' = [at EXCEPT ![r] = At("complete", "none")]
    /\ IssueStep /\ UNCHANGED <<row, filed, issues, failures>>
-----------------------------------------------------------------------------
(***************************************************************************)
(* completeArchive, and what the caller records in the queue.              *)
(***************************************************************************)
ScenarioReady(r) == row[r].scenario \in {"published", "pull_request", "not_applicable"}
ReportReady(r) == row[r].report \in {"published", "not_applicable"}
AllIssuesSucceeded(r) == facts[r].bugs \subseteq filed[r]

\* Mutants: only passed Runs move the baseline; Runs without their Issues do.
PassedProgress(r) ==
    /\ row[r].report = "published"
    /\ ScenarioReady(r)
    /\ facts[r].result = "passed"

ProgressWithoutIssues(r) ==
    /\ row[r].report = "published"
    /\ ScenarioReady(r)
    /\ facts[r].result \in {"passed", "failed"}

CanProgress(r) ==
    /\ row[r].report = "published"
    /\ ScenarioReady(r)
    /\ AllIssuesSucceeded(r)
    /\ facts[r].result \in {"passed", "failed"}

\* Mutant: the Run that moved the baseline last is not compared.
MovesUncompared(r) == CanProgress(r) /\ ~row[r].progressed

\* currentIsNewer
Moves(r) == CanProgress(r) /\ ~row[r].progressed /\ progress <= r

CompleteArchive(r) ==
    /\ Doing(r, "none", "complete")
    /\ progress' = IF Moves(r) THEN r ELSE progress
    /\ row' = [row EXCEPT
           ![r].progressed = @ \/ Moves(r),
           ![r].archive = IF ReportReady(r) /\ ScenarioReady(r) /\ AllIssuesSucceeded(r)
                          THEN "completed" ELSE "partial"]
    /\ Goto(r, "settle")
    /\ UNCHANGED <<facts, outcome, filed, remoteVars, cloneVars, boundVars>>

\* Mutant: what the store says is recorded, also when it has no record.
SettleUnchecked(r) ==
    /\ Doing(r, "none", "settle")
    /\ outcome' = [outcome EXCEPT ![r] = row[r].archive]
    /\ at' = [at EXCEPT ![r] = Idle]
    /\ UNCHANGED <<facts, storeVars, remoteVars, cloneVars, boundVars>>

\* complete, recordArchiveRetry: an archive without a record has failed.
Settle(r) ==
    /\ Doing(r, "none", "settle")
    /\ outcome' = [outcome EXCEPT ![r] = IF row[r].known THEN row[r].archive ELSE "failed"]
    /\ at' = [at EXCEPT ![r] = Idle]
    /\ UNCHANGED <<facts, storeVars, remoteVars, cloneVars, boundVars>>
-----------------------------------------------------------------------------
(***************************************************************************)
(* The others: reviewers, writers of the branch, the Run that executes in  *)
(* the same clone, and the end of the process.                             *)
(***************************************************************************)
Reviewable(r) ==
    pulls[r].open /\ (ReviewersWait => row[r].scenario = "pull_request")

MergePull(r) ==
    /\ Reviewable(r)
    /\ branch' = branch \cup {<<"scenario", r>>}
    /\ pulls' = [pulls EXCEPT ![r].open = FALSE]
    /\ proposed' \in {proposed, proposed \ {r}}
    /\ UNCHANGED <<facts, outcome, storeVars, issues, cloneVars, at, boundVars>>

ClosePull(r) ==
    /\ Reviewable(r)
    /\ pulls' = [pulls EXCEPT ![r].open = FALSE]
    /\ UNCHANGED <<facts, outcome, storeVars, branch, proposed, issues, cloneVars, at,
                   boundVars>>

\* A merge request of the project, or a push by hand.
OthersPush ==
    /\ foreign < MaxForeign
    /\ foreign' = foreign + 1
    /\ branch' = branch \cup {<<"other", foreign'>>}
    /\ UNCHANGED <<facts, outcome, storeVars, proposed, pulls, issues, cloneVars, at,
                   failures, crashes>>

\* prepareTarget of the next Run of the project, while older archives are retried.
RunChecksOut ==
    /\ CloneUsers > 1
    /\ \E r \in Runs : outcome[r] = "none"
    /\ \A r \in Runs : outcome[r] # "waiting"
    /\ clone' \in {{}, branch} /\ staged' = {}
    /\ UNCHANGED <<facts, outcome, storeVars, remoteVars, at, boundVars>>

Crash ==
    /\ crashes < MaxCrashes
    /\ crashes' = crashes + 1
    /\ at' = [r \in Runs |-> Idle]
    /\ UNCHANGED <<facts, outcome, storeVars, remoteVars, cloneVars, failures, foreign>>
-----------------------------------------------------------------------------
PublicationStep(r) ==
    \/ Validate(r) \/ Fetch(r) \/ Checkout(r)
    \/ AlreadyPublished(r) \/ PatchDoesNotApply(r) \/ Stage(r) \/ Commit(r)
    \/ Recheck(r) \/ Push(r) \/ PushRefused(r) \/ Confirm(r)
    \/ FindPull(r) \/ CreatePull(r) \/ PullRefused(r)
    \/ PublicationFails(r)

IssuesStep(r) ==
    \/ NextIssue(r) \/ IssuesDone(r)
    \/ \E b \in Bugs : FindIssue(r, b) \/ CreateIssue(r, b) \/ IssueFails(r, b)

ArchiveStep(r) == PublicationStep(r) \/ IssuesStep(r) \/ CompleteArchive(r) \/ Settle(r)

Next ==
    \/ \E r \in Runs : EndRun(r) \/ StartArchive(r) \/ ArchiveStep(r)
                       \/ MergePull(r) \/ ClosePull(r)
    \/ OthersPush \/ RunChecksOut \/ Crash

Spec == Init /\ [][Next]_vars

\* Every call of an archive settles; the scheduler's retries reach every Run.
Fairness ==
    \A r \in Runs : WF_vars(ArchiveStep(r)) /\ SF_vars(StartArchive(r))

FairSpec == Spec /\ Fairness
-----------------------------------------------------------------------------
\* spec.md, 1097-1104 and 1304: what is published, when the baseline moves
\* and when an archive is closed.
Contract == INSTANCE ArchiveContract WITH
    reports <- {r \in Runs : <<"report", r>> \in branch},
    scenarios <- {r \in Runs : <<"scenario", r>> \in branch \/ pulls[r].created > 0},
    baseline <- progress,
    closed <- {r \in Runs : outcome[r] = "completed"}

\* The archives keep the contract, whatever fails, gets lost or crashes.
KeepsContract == Contract!ContractSpec

\* A report the store calls published is on the scenario branch, although the
\* push, its answer and the record are three steps that may each be the last.
MarkedReportPublished ==
    \A r \in Runs : row[r].report = "published" => <<"report", r>> \in branch

\* Every finished Run is archived in the end.
ArchiveConverges == \A r \in Runs : outcome[r] = "waiting" ~> outcome[r] = "completed"

\* However archives overlap, fail, lose answers or crash, no bug gets a second
\* Issue, and none is recorded that was not created.
IssueFiledOnce ==
    \A r \in Runs : \A b \in Bugs :
        /\ issues[r][b] <= 1
        /\ b \in filed[r] \ Linked => issues[r][b] = 1

\* The baseline is never an older Run than before, whatever the order in which
\* the archives of the Runs end.
BaselineForward == [][progress' >= progress]_vars

\* Nor does it stay behind a conclusive Run whose archive is closed: the next
\* Run would test its commits again.
BaselineCovers ==
    \A r \in Runs :
        outcome[r] = "completed" /\ facts[r].result # "blocked" => progress >= r

\* spec.md, 1213: the baseline moves to a Run after its report was published.
BaselinePublished == progress # 0 => <<"report", progress>> \in branch

\* spec.md, 1304: the archive of a Run does not create its pull request twice,
\* as long as reviewers leave it open until it is recorded.
OnePullRequest == \A r \in Runs : pulls[r].created <= 1
=============================================================================
