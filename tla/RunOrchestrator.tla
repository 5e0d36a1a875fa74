--------------------------- MODULE RunOrchestrator ---------------------------
(***************************************************************************)
(* One project's Run orchestrator (runs/orchestrator.ts), with the Run     *)
(* directory it works in (runs/workspace.ts) and the table of interrupted  *)
(* Runs (automation/recovery.ts).                                          *)
(*                                                                         *)
(* A Run is a pipeline of isolated Agent Sessions: Main plans, the Runner  *)
(* executes, the Reviewer audits, Main reports.  The model keeps the whole *)
(* pipeline with every error path, the artifacts in the directory, the     *)
(* checked-out tree the Runner works on, and the blocking reasons.  What a *)
(* Session writes is its own choice: the code must be right whatever the   *)
(* Agents do.                                                              *)
(***************************************************************************)
EXTENDS Naturals, FiniteSets

CONSTANTS Runs,      \* Run identifiers
          Initializations, \* the Runs whose input says initialization
          MaxPatch,  \* bound: versions of the scenario patch one Run may write
          MaxCrash   \* bound: process exits

\* Patches and process exits are counted.
ASSUME OrchestratorAssumption == MaxPatch \in Nat /\ MaxCrash \in Nat

None == "none"

VARIABLES
  starting,  \* startInProgress: the Runs whose directory is being created
  active,    \* activeRun
  stage,     \* where execute() stands
  status,    \* this.runs: the status kept in memory, None for a Run not in the map
  context,   \* RunContext of the active Run
  tree,      \* the work tree: the patch applied on the target commit (0: none)
  place,     \* on disk: None, "running" or "completed"
  files,     \* on disk: the artifacts of each Run
  interrupted, \* interrupted_run_records
  stored,    \* Runs imported into the Run store
  answered,  \* what wait() has told the caller: the final status of each Run
  cleanups,  \* how often the test data of each Run was cleaned
  tested,    \* the patch the formal Runner of each Run worked with
  doubts,    \* Runs that had a blocking reason which was never withdrawn
  crashes

memory == <<starting, active, stage, status, context>>
disk == <<place, files, interrupted, stored>>
facts == <<answered, cleanups, tested, doubts>>
vars == <<memory, tree, disk, facts, crashes>>

Patches == 0 .. MaxPatch            \* 0: no scenario-changes.patch
Untested == MaxPatch + 1            \* no formal Runner has started
Reasons == {"browser", "other"}     \* kinds of blocking reasons

NoContext == [init |-> FALSE, reviewMode |-> FALSE, reasons |-> {},
              frozen |-> FALSE, attempts |-> 0, before |-> 0, special |-> FALSE,
              prompting |-> FALSE]
NoFiles == [plan |-> FALSE, patch |-> 0, execution |-> None,
            review |-> FALSE, report |-> None, missed |-> FALSE]

\* The result report.md states is passed or it is not: one that failed is taken for blocked.
Results == {"passed", "blocked"}

Stages == {"idle", "prepare", "preflight", "planning", "browser", "recon", "candidate",
           "rebrowser", "patch", "runner", "finishing", "checking", "reviewer", "retained",
           "final", "force", "closing", "report", "finalize", "persist",
           "review_close", "review_clean", "review_report", "failed", "leaving"}

RunOrchestratorTypeOK ==
  /\ starting \subseteq Runs
  /\ active \in Runs \cup {None}
  /\ stage \in Stages
  /\ status \in [Runs -> {None, "queued", "running", "completed", "failed", "interrupted"}]
  /\ context.reasons \subseteq Reasons
  /\ context.attempts \in 0 .. 2
  /\ tree \in Patches
  /\ place \in [Runs -> {None, "running", "completed"}]
  /\ \A r \in Runs : /\ files[r].patch \in Patches
                     /\ files[r].report \in Results \cup {None}
                     /\ files[r].execution \in {None, "recon", "formal"}
  /\ interrupted \subseteq Runs /\ stored \subseteq Runs
  /\ answered \in [Runs -> {None, "completed", "failed"}]
  /\ tested \in [Runs -> Patches \cup {Untested}]
  /\ doubts \subseteq Runs
  /\ crashes \in 0 .. MaxCrash

RunOrchestratorInit ==
  /\ starting = {} /\ active = None /\ stage = "idle"
  /\ status = [r \in Runs |-> None]
  /\ context = NoContext
  /\ tree = 0
  /\ place = [r \in Runs |-> None]
  /\ files = [r \in Runs |-> NoFiles]
  /\ interrupted = {} /\ stored = {}
  /\ answered = [r \in Runs |-> None]
  /\ cleanups = [r \in Runs |-> 0]
  /\ tested = [r \in Runs |-> Untested]
  /\ doubts = {}
  /\ crashes = 0

----------------------------------------------------------------------------
\* start(): the two flags, and the directory in between.

\* Mutant: only the executing Run is looked at, not the one being created.
StartRequestedAnyway(r) ==
  /\ active = None
  /\ status[r] = None
  /\ starting' = starting \cup {r}
  /\ UNCHANGED <<active, stage, status, context, tree, disk, facts, crashes>>

\* A second start while one is being created or executed is refused.
StartRequested(r) ==
  /\ active = None /\ starting = {}
  /\ status[r] = None
  /\ starting' = starting \cup {r}
  /\ UNCHANGED <<active, stage, status, context, tree, disk, facts, crashes>>

\* workspace.create refuses a Run that has a directory in either place.
StartCreated(r) ==
  /\ r \in starting /\ place[r] = None
  /\ \E reviewMode \in BOOLEAN :
       context' = [NoContext EXCEPT !.init = r \in Initializations, !.reviewMode = reviewMode]
  /\ place' = [place EXCEPT ![r] = "running"]
  /\ status' = [status EXCEPT ![r] = "queued"]
  /\ active' = r /\ starting' = starting \ {r} /\ stage' = "prepare"
  /\ UNCHANGED <<tree, files, interrupted, stored, facts, crashes>>

\* The directory exists, or making it fails (perhaps halfway).
StartFails(r) ==
  /\ r \in starting
  /\ starting' = starting \ {r}
  /\ \/ place[r] = None /\ place' = [place EXCEPT ![r] = "running"]
     \/ UNCHANGED place
  /\ UNCHANGED <<active, stage, status, context, tree, files, interrupted, stored,
                 facts, crashes>>

----------------------------------------------------------------------------
\* execute(): helpers.

\* The active Run's step from one stage to another.
At(s) == active # None /\ stage = s
GoTo(s) == stage' = s

\* addBlockingReason for the reasons found; the set is what decides.
Blocked(found) == context.reasons \cup found

Doubting(found) == doubts' = IF found \ {"browser"} = {} THEN doubts ELSE doubts \cup {active}

KeepsRest == UNCHANGED <<starting, active, place, interrupted, stored, answered, crashes>>

----------------------------------------------------------------------------
\* The Sessions.

SessionStages == {"planning", "recon", "candidate", "runner", "reviewer", "final"}

\* invoke(): the Session is given its instructions, or its next correction, and the harness
\* awaits it.  Nothing limits how long that takes: only an answer or an error ends it.
Prompt ==
  /\ active # None /\ stage \in SessionStages /\ ~context.prompting
  /\ context' = [context EXCEPT !.prompting = TRUE]
  /\ UNCHANGED <<stage, status, tree, files, cleanups, tested, doubts>> /\ KeepsRest

\* The Session of a stage has been prompted, and has ended.
Answered(s) == At(s) /\ context.prompting

----------------------------------------------------------------------------
\* Preparation and planning.

\* The range is fixed and the target checked out.
PrepareRun ==
  /\ At("prepare")
  /\ status' = [status EXCEPT ![active] = "running"]
  /\ tree' = 0
  /\ GoTo(IF context.init THEN "preflight" ELSE "planning")
  /\ UNCHANGED <<context, files, cleanups, tested, doubts>> /\ KeepsRest

AssessInitializationPreflight ==
  /\ At("preflight")
  /\ \E found \in SUBSET {"other"} :
       /\ context' = [context EXCEPT !.reasons = Blocked(found)]
       /\ Doubting(found)
  /\ GoTo("planning")
  /\ UNCHANGED <<status, tree, files, cleanups, tested>> /\ KeepsRest

\* validatePlanningOutput: the patch is applied, the plan compared with the scenarios
\* that result, and the tree cleaned whatever the outcome.
TreeAfterValidation(mayPatch) == tree' = IF mayPatch THEN 0 ELSE tree

\* Mutant: corrections without a limit.
PlanningAttemptForever(s, next, mayPatch) ==
  /\ Answered(s)
  /\ \E patch \in (IF mayPatch THEN Patches ELSE {files[active].patch}),
        valid \in (IF mayPatch THEN BOOLEAN ELSE {TRUE}) :
       /\ patch >= files[active].patch
       /\ files' = [files EXCEPT ![active].plan = TRUE, ![active].patch = patch]
       /\ \/ /\ valid
             /\ GoTo(next)
             /\ context' = [context EXCEPT !.attempts = 0, !.prompting = FALSE]
             /\ UNCHANGED status
          \/ /\ ~valid
             /\ context' = [context EXCEPT !.attempts = (@ + 1) % 3, !.prompting = FALSE]
             /\ UNCHANGED <<stage, status>>
  /\ TreeAfterValidation(mayPatch)
  /\ UNCHANGED <<cleanups, tested, doubts>> /\ KeepsRest

\* Main A.  Outside initialization a patch may come with the plan, and the two are
\* validated together on the applied tree, at most three times in one Session;
\* every validation leaves the tree clean.
PlanningAttempt(s, next, mayPatch) ==
  /\ Answered(s)
  /\ \E patch \in (IF mayPatch THEN Patches ELSE {files[active].patch}),
        valid \in (IF mayPatch THEN BOOLEAN ELSE {TRUE}) :
       /\ patch >= files[active].patch
       /\ files' = [files EXCEPT ![active].plan = TRUE, ![active].patch = patch]
       /\ \/ /\ valid
             /\ GoTo(next)
             /\ context' = [context EXCEPT !.attempts = 0, !.prompting = FALSE]
             /\ UNCHANGED status
          \/ /\ ~valid /\ context.attempts < 2
             /\ context' = [context EXCEPT !.attempts = @ + 1, !.prompting = FALSE]
             /\ UNCHANGED <<stage, status>>
          \/ /\ ~valid /\ context.attempts = 2
             /\ GoTo("failed")
             /\ status' = [status EXCEPT ![active] = "failed"]
             /\ context' = [context EXCEPT !.prompting = FALSE]
  /\ TreeAfterValidation(mayPatch)
  /\ UNCHANGED <<cleanups, tested, doubts>> /\ KeepsRest

RunMainA == PlanningAttempt("planning", "browser", ~context.init)
RunInitializationCandidateMain == PlanningAttempt("candidate", "rebrowser", TRUE)

\* The browser the plan asks for; the second time the reasons of the first are dropped.
AssessBrowserRequirements(s, next, reset) ==
  /\ At(s)
  /\ \E found \in SUBSET {"browser"} :
       context' = [context EXCEPT !.reasons =
                     (IF reset THEN context.reasons \ {"browser"} ELSE context.reasons) \cup found]
  /\ GoTo(next)
  /\ UNCHANGED <<status, tree, files, cleanups, tested, doubts>> /\ KeepsRest

BrowserForPlan ==
  AssessBrowserRequirements("browser", IF context.init THEN "recon" ELSE "patch", FALSE)
BrowserForCandidate == AssessBrowserRequirements("rebrowser", "patch", TRUE)

\* What the Runner's tools may find on the way: evidence that could not be kept, a
\* command without redaction values, a browser record that failed.
RunnerFindings == SUBSET {"other"}

\* The reconnaissance Runner of an initialization: no scenarios yet, but the same
\* execution.md and the same evidence.
RunReconnaissance ==
  /\ Answered("recon")
  /\ files' = [files EXCEPT ![active].execution = "recon"]
  /\ \E found \in RunnerFindings :
       /\ context' = [context EXCEPT !.reasons = Blocked(found), !.prompting = FALSE]
       /\ Doubting(found)
  /\ GoTo("candidate")
  /\ UNCHANGED <<status, tree, cleanups, tested>> /\ KeepsRest

\* none, applied or review: a patch that does not validate, or one the scenario mode
\* reserves for a person, ends in review; otherwise it is applied to the tree.
PrepareScenarioPatch ==
  /\ At("patch")
  /\ LET patch == files[active].patch IN
     \/ /\ patch = 0
        /\ \E found \in SUBSET (IF context.init THEN {"other"} ELSE {}) :
             /\ context' = [context EXCEPT !.reasons = Blocked(found)]
             /\ Doubting(found)
        /\ GoTo("runner")
        /\ UNCHANGED tree
     \/ /\ patch # 0 /\ ~context.reviewMode
        /\ tree' = patch
        /\ GoTo("runner")
        /\ UNCHANGED <<context, doubts>>
     \/ /\ patch # 0
        /\ tree' \in {tree, 0}
        /\ context' = [context EXCEPT !.reasons = Blocked({"other"}), !.special = TRUE]
        /\ Doubting({"other"})
        /\ GoTo("review_close")
  /\ UNCHANGED <<status, files, cleanups, tested>> /\ KeepsRest

----------------------------------------------------------------------------
\* The formal Runner and the end of its work.

\* The selected scenarios are read from the tree and frozen for the Reviewer.
FreezeReasons(frozen) == IF frozen THEN {} ELSE {"other"}

\* The Session runs on that tree, and only then the progress and execution.md are
\* checked; whichever way it ends, finishRunner follows.
RunRunner ==
  /\ Answered("runner")
  /\ tested' = [tested EXCEPT ![active] = tree]
  /\ \E frozen \in BOOLEAN, wrote \in BOOLEAN, found \in RunnerFindings, failed \in BOOLEAN :
       /\ files' = [files EXCEPT ![active].execution = IF wrote THEN "formal" ELSE @]
       /\ failed \/ files'[active].execution # None
       /\ context' = [context EXCEPT !.frozen = frozen, !.prompting = FALSE,
                                     !.reasons = Blocked(found \cup FreezeReasons(frozen))]
       /\ Doubting(found \cup FreezeReasons(frozen))
       /\ status' = IF failed THEN [status EXCEPT ![active] = "failed"] ELSE status
  /\ GoTo("finishing")
  /\ UNCHANGED <<tree, cleanups>> /\ KeepsRest

\* The evidence is uploaded; whatever is missing or fails is a blocking reason.
FinishRunner ==
  /\ At("finishing")
  /\ \E found \in SUBSET {"other"} :
       /\ context' = [context EXCEPT !.reasons = Blocked(found)]
       /\ Doubting(found)
  /\ GoTo(IF status[active] = "failed" THEN "failed" ELSE "checking")
  /\ UNCHANGED <<status, tree, files, cleanups, tested>> /\ KeepsRest

\* The patch is validated again, which cleans the tree.
ValidateScenarioPatchForReview ==
  /\ At("checking")
  /\ IF files[active].patch = 0
     THEN UNCHANGED <<context, doubts, tree>>
     ELSE /\ tree' = 0
          /\ \E found \in SUBSET {"other"} :
               /\ context' = [context EXCEPT !.reasons = Blocked(found)]
               /\ Doubting(found)
  /\ GoTo("reviewer")
  /\ UNCHANGED <<status, files, cleanups, tested>> /\ KeepsRest

\* The Reviewer: without the frozen scenarios, or with evidence it could not read,
\* the Run is blocked.
RunReviewer ==
  /\ Answered("reviewer")
  /\ files' = [files EXCEPT ![active].review = TRUE]
  /\ \E found \in SUBSET {"other"} :
       LET all == found \cup (IF context.frozen THEN {} ELSE {"other"}) IN
       /\ context' = [context EXCEPT !.reasons = Blocked(all), !.prompting = FALSE]
       /\ Doubting(all)
  /\ GoTo("retained")
  /\ UNCHANGED <<status, tree, cleanups, tested>> /\ KeepsRest

\* Local evidence may be removed now; a failure to do so blocks too.
CleanupRetainedEvidence ==
  /\ At("retained")
  /\ \E found \in SUBSET {"other"} :
       /\ context' = [context EXCEPT !.reasons = Blocked(found), !.before = files[active].patch]
       /\ Doubting(found)
  /\ GoTo("final")
  /\ UNCHANGED <<status, tree, files, cleanups, tested>> /\ KeepsRest

----------------------------------------------------------------------------
\* The report.

\* Main B writes the report with any result, and in an initialization it may write the patch
\* once more.
RunMainB ==
  /\ Answered("final")
  /\ \E result \in Results,
        patch \in (IF context.init THEN Patches ELSE {files[active].patch}) :
       /\ patch >= files[active].patch
       /\ files' = [files EXCEPT ![active].report = result, ![active].patch = patch]
       /\ context' = [context EXCEPT !.prompting = FALSE]
  /\ GoTo("force")
  /\ UNCHANGED <<status, tree, cleanups, tested, doubts>> /\ KeepsRest

\* Mutant: the final patch is only checked for validity.
NoFinalPatchReasons == IF context.init /\ files[active].patch = 0 THEN {"other"} ELSE {}

\* validateInitializationFinalPatch: a patch Main B changed was not executed.
FinalPatchReasons ==
  IF context.init /\ files[active].patch # context.before THEN {"other"} ELSE {}

\* forceInfrastructureBlockedReport: with any reason the first line of the form
\* "result: passed", whatever the result, is made blocked, wherever in the report it stands.
\* YAML takes other forms too, a comment after the result or a space within the quotes: that
\* line may be the frontmatter's own, one of the text below it, so that the result is missed,
\* or there is none, which fails the Run.
ForceBlocked ==
  /\ At("force")
  /\ LET reasons == Blocked(FinalPatchReasons) IN
     /\ context' = [context EXCEPT !.reasons = reasons]
     /\ Doubting(FinalPatchReasons)
     /\ \/ /\ reasons = {}
           /\ GoTo("closing") /\ UNCHANGED <<status, files>>
        \/ /\ reasons # {}
           /\ files' = [files EXCEPT ![active].report = "blocked"]
           /\ GoTo("closing") /\ UNCHANGED status
        \/ /\ reasons # {}
           /\ files' = [files EXCEPT ![active].missed = (files[active].report = "passed")]
           /\ GoTo("closing") /\ UNCHANGED status
        \/ /\ reasons # {}
           /\ status' = [status EXCEPT ![active] = "failed"]
           /\ GoTo("failed") /\ UNCHANGED files
  /\ tree' = IF FinalPatchReasons = {} THEN tree ELSE 0
  /\ UNCHANGED <<cleanups, tested>> /\ KeepsRest

\* Mutant: without the cleanupDone flag.
FinishCleanupAgain(s, next) ==
  /\ At(s)
  /\ cleanups' = [cleanups EXCEPT ![active] = @ + 1]
  /\ GoTo(next)
  /\ UNCHANGED <<status, context, tree, files, tested, doubts>> /\ KeepsRest

\* finishCleanup: once, whoever comes first; it never throws.
FinishCleanup(s, next) ==
  /\ At(s)
  /\ cleanups' = [cleanups EXCEPT ![active] = IF @ = 0 THEN 1 ELSE @]
  /\ GoTo(next)
  /\ UNCHANGED <<status, context, tree, files, tested, doubts>> /\ KeepsRest

CleanupBeforeReport == FinishCleanup("closing", "report")
CleanupInReview == FinishCleanup("review_clean", "review_report")
CleanupAtEnd == FinishCleanup("failed", "leaving")

\* validateFinalReport: the result must be the aggregate of the scenario results, or
\* blocked; a report that fails the check fails the Run (ExecutionFails).
ValidateFinalReport ==
  /\ At("report")
  /\ GoTo("finalize")
  /\ UNCHANGED <<status, context, tree, files, cleanups, tested, doubts>> /\ KeepsRest

\* finalize: the directory is renamed, and what was decided is kept in memory.
Finalize ==
  /\ At("finalize")
  /\ files[active].report # None
  /\ \/ context.special /\ files[active].patch # 0
     \/ /\ ~context.special
        /\ files[active].plan /\ files[active].execution # None /\ files[active].review
  /\ place' = [place EXCEPT ![active] = "completed"]
  /\ files' = [files EXCEPT ![active] =
                 IF context.special
                 THEN [@ EXCEPT !.plan = FALSE, !.execution = None, !.review = FALSE] ELSE @]
  /\ status' = [status EXCEPT ![active] = "completed"]
  /\ GoTo("persist")
  /\ UNCHANGED <<starting, active, context, tree, interrupted, stored, facts, crashes>>

\* persistCompletedRun may fail, which is only logged; then the interruption record goes.
PersistCompletedRun ==
  /\ At("persist")
  /\ stored' \in {stored, stored \cup {active}}
  /\ interrupted' = interrupted \ {active}
  /\ GoTo("failed")        \* through the finally block, with status completed
  /\ UNCHANGED <<starting, active, status, context, tree, place, files, facts, crashes>>

----------------------------------------------------------------------------
\* A patch a person must review: no formal Runner, a report written by the harness.

FinishScenarioReviewRunner ==
  /\ At("review_close")
  /\ GoTo("review_clean")
  /\ UNCHANGED <<status, context, tree, files, cleanups, tested, doubts>> /\ KeepsRest

FinishScenarioReviewRun ==
  /\ At("review_report")
  /\ files' = [files EXCEPT ![active].report = "blocked"]
  /\ GoTo("finalize")
  /\ UNCHANGED <<status, context, tree, cleanups, tested, doubts>> /\ KeepsRest

----------------------------------------------------------------------------
\* Failure, the finally block, the process.

\* Mutant: whatever the Run's status is.
MarkedAlways == [status EXCEPT ![active] = "failed"]

\* markExecutionFailure leaves a Run that is completed alone.
Marked == IF status[active] = "completed" THEN status ELSE [status EXCEPT ![active] = "failed"]

\* Any awaited call of the pipeline may throw, after a Session has perhaps written
\* its artifact: Git, the provider, a Session, a check of an artifact, the rename.
ExecutionFails ==
  /\ active # None
  /\ stage \notin {"idle", "failed", "leaving", "finishing"}
  /\ status' = Marked
  /\ context' = [context EXCEPT !.prompting = FALSE]
  /\ GoTo(IF stage = "runner" THEN "finishing" ELSE "failed")
  /\ UNCHANGED <<tree, files, cleanups, tested, doubts>> /\ KeepsRest

\* The tree is cleaned, the slot is free, and wait() answers.
Leave ==
  /\ At("leaving")
  /\ tree' \in {tree, 0}
  /\ active' = None
  /\ stage' = "idle"
  /\ context' = NoContext
  /\ answered' = [answered EXCEPT ![active] = status[active]]
  /\ UNCHANGED <<starting, status, disk, cleanups, tested, doubts, crashes>>

Crash ==
  /\ crashes < MaxCrash
  /\ crashes' = crashes + 1
  /\ starting' = {} /\ active' = None /\ stage' = "idle"
  /\ status' = [r \in Runs |-> None]
  /\ context' = NoContext
  /\ UNCHANGED <<tree, disk, facts>>

\* recover(): every directory in running that this process does not know.  It runs
\* in the start of the process, before any Run of it, for a project with a request
\* that is still in flight, but for all its directories.
Recovered == {r \in Runs : place[r] = "running" /\ status[r] = None}

Recover ==
  /\ crashes > 0 /\ active = None /\ starting = {}
  /\ Recovered # {}
  /\ \E r \in Runs : answered[r] = None
  /\ \A r \in Runs : status[r] \in {None, "interrupted"}
  /\ status' = [r \in Runs |-> IF r \in Recovered THEN "interrupted" ELSE status[r]]
  /\ interrupted' = interrupted \cup Recovered
  /\ UNCHANGED <<starting, active, stage, context, tree, place, files, stored, facts, crashes>>

----------------------------------------------------------------------------

PipelineStep ==
  \/ Prompt \/ PrepareRun \/ AssessInitializationPreflight \/ RunMainA \/ BrowserForPlan
  \/ RunReconnaissance \/ RunInitializationCandidateMain \/ BrowserForCandidate
  \/ PrepareScenarioPatch \/ RunRunner \/ FinishRunner \/ ValidateScenarioPatchForReview
  \/ RunReviewer \/ CleanupRetainedEvidence \/ RunMainB \/ ForceBlocked
  \/ CleanupBeforeReport \/ ValidateFinalReport \/ Finalize \/ PersistCompletedRun
  \/ FinishScenarioReviewRunner \/ CleanupInReview \/ FinishScenarioReviewRun
  \/ CleanupAtEnd \/ Leave

RunOrchestratorNext ==
  \/ \E r \in Runs : StartRequested(r) \/ StartCreated(r) \/ StartFails(r)
  \/ PipelineStep \/ ExecutionFails
  \/ Crash \/ Recover

\* The Node process goes on with its own work, and the commands and requests the pipeline
\* awaits end.  Nothing is assumed of a Session: a prompt may never be answered.
OrchestratorFairness == WF_vars(~context.prompting /\ (PipelineStep \/ ExecutionFails))

RunOrchestratorSpec == RunOrchestratorInit /\ [][RunOrchestratorNext]_vars /\ OrchestratorFairness

----------------------------------------------------------------------------

\* A Run that is completed as passed was executed by the formal Runner with exactly the patch
\* its directory holds, and no blocking reason was left behind: however often a patch was
\* written, and unless the downgrade missed the report's result.  A Run that is no
\* initialization was executed with its patch whatever the report looks like.
PassedAsExecuted ==
  \A r \in Runs : place[r] = "completed" /\ files[r].report = "passed" =>
    /\ ~files[r].missed => tested[r] = files[r].patch /\ r \notin doubts
    /\ r \notin Initializations => tested[r] = files[r].patch

\* docs/PROJECT.md: what was not verified is never passed off as passed.  Not so when the
\* line the downgrade finds is not the frontmatter's own.
DoubtedIsNotPassed ==
  \A r \in Runs : place[r] = "completed" /\ files[r].report = "passed" => r \notin doubts

\* The test data of a Run is cleaned up exactly once before its result is told or its
\* directory moves to completed, on every path a process that survives can take.
CleanedBeforeTold ==
  \A r \in Runs : /\ cleanups[r] <= 1
                  /\ place[r] = "completed" \/ answered[r] # None => cleanups[r] = 1

\* What is completed stays: an error after the rename neither turns the status into
\* failed nor tells the caller so.
CompletedStays ==
  \A r \in Runs : /\ place[r] = "completed" => status[r] \in {None, "completed"}
                  /\ answered[r] = "completed" <=> place[r] = "completed" /\ answered[r] # None

\* A Run's start is never overtaken: a directory is created for one Run at a time, and
\* what is being executed keeps its slot until it leaves it or the process ends.
SlotKept ==
  [][active # None /\ crashes' = crashes => active' = active \/ (stage = "leaving" /\ active' = None)]_vars

\* A Run that was told to have failed is not turned into an interrupted one: the two
\* are told apart everywhere else.
FailedIsNotInterrupted == \A r \in Runs : answered[r] = "failed" => r \notin interrupted

\* The execution record the Reviewer audits is of the Runner that executed the scenarios.
ReviewedExecutionIsFormal ==
  \A r \in Runs : files[r].review => files[r].execution = "formal"

\* A Run that never leaves the slot hangs in one prompt that is never answered: corrections,
\* retries and errors always come to an end, by completing, failing or with the process.
SlotFreeUnlessHung ==
  \A r \in Runs : <>[](active = r) => <>[](active = r /\ context.prompting)

\* runs/orchestrator.ts: a passed Run with a result the downgrade can rewrite was executed with
\* the patch it holds, without a doubt; every Run was cleaned up once before anybody was told,
\* and a completed Run stays so.
CompletedAsTold == PassedAsExecuted /\ CleanedBeforeTold /\ CompletedStays
=============================================================================
