--------------------------- MODULE ScenarioRules ---------------------------
(***************************************************************************)
(* What one Run executes, reviews and reports of its scenarios: the list   *)
(* in plan.md (runs/execution-plan.ts), the Runner's progress through it   *)
(* (runs/scenario-progress.ts), the order in which the Reviewer reads      *)
(* (runs/review-order.ts) and the check of the final report.               *)
(*                                                                         *)
(* The working tree gives each scenario a status.  The Reviewer's tools    *)
(* are asynchronous: a call is checked when it begins and counts when it   *)
(* is answered, and calls may overlap.                                     *)
(***************************************************************************)
EXTENDS Naturals, Sequences, FiniteSets

CONSTANTS Scenarios,  \* the identifiers of scenarios
          Images,     \* the names of captured images
          MaxPlan     \* bound on the entries of a plan, a declaration, a report

VARIABLES
  rulesTree,     \* status of each scenario in the working tree, or "absent"
  changed,       \* the scenarios an initialization's patch changes
  plan,          \* the list in plan.md
  rulesStage,
  declared,      \* the Runner has declared its order
  rulesActive,   \* the scenario in execution
  completed,     \* the scenarios completed
  ran,           \* everything the Runner started and finished
  images,        \* the images of this Run's evidence
  patch,         \* there is a scenario-changes.patch
  calls,         \* the Reviewer's calls under way
  read,          \* the artifacts the Reviewer has read
  attempted,     \* the images whose reading was answered, one way or the other
  rulesSeen,     \* the images that were shown
  rulesBlocked,  \* there is a blocking reason
  report         \* the accepted final report

ruleVars == <<rulesTree, changed, plan, rulesStage, declared, rulesActive, completed, ran, images,
              patch, calls, read, attempted, rulesSeen, rulesBlocked, report>>
runnerVars == <<declared, rulesActive, completed, ran>>
reviewVars == <<calls, read, attempted, rulesSeen, rulesBlocked>>
givenVars  == <<rulesTree, changed, images, patch>>

Nothing        == "none"

\* Scenarios and images have names of their own.
ASSUME RulesAssumption ==
  /\ MaxPlan \in Nat /\ Nothing \notin Scenarios
  /\ Images \cap {"plan", "execution", "patch"} = {}

Lists    == UNION {[1 .. n -> Scenarios] : n \in 0 .. MaxPlan}
Statuses == {"approved", "draft", "absent"}
RuleStages   == {"planning", "running", "reviewing", "reporting", "reported", "failed"}
NoReport == [result |-> Nothing, results |-> <<>>, line |-> Nothing]

\* The first line of the report of the form the downgrade looks for: that of the frontmatter
\* itself, one of the text below it, or none.
ReportLines == {"own", "body", "none"}

Artifacts == {"plan", "execution"} \cup IF patch THEN {"patch"} ELSE {}

\* Type invariant: the Runner's state stays within the list, the Reviewer's within the evidence.
RulesTypeOK ==
  /\ rulesTree \in [Scenarios -> Statuses] /\ changed \subseteq Scenarios
  /\ plan \in Lists /\ rulesStage \in RuleStages /\ declared \in BOOLEAN
  /\ rulesActive \in Scenarios \cup {Nothing} /\ completed \subseteq Scenarios
  /\ images \subseteq Images /\ patch \in BOOLEAN /\ rulesBlocked \in BOOLEAN
  /\ calls \subseteq Artifacts \cup images /\ read \subseteq Artifacts
  /\ rulesSeen \subseteq attempted /\ attempted \subseteq images
  /\ report.result \in {Nothing, "passed", "failed", "blocked"} /\ Len(report.results) <= MaxPlan
  /\ report.line \in ReportLines \cup {Nothing}

RulesInit ==
  /\ rulesTree \in [Scenarios -> Statuses]
  /\ changed \in SUBSET {s \in Scenarios : rulesTree[s] /= "absent"}
  /\ images \in SUBSET Images /\ patch \in BOOLEAN
  /\ changed /= {} => patch
  /\ plan = <<>> /\ rulesStage = "planning" /\ declared = FALSE /\ rulesActive = Nothing
  /\ completed = {} /\ ran = <<>> /\ calls = {} /\ read = {} /\ attempted = {} /\ rulesSeen = {}
  /\ rulesBlocked = FALSE /\ report = NoReport

---------------------------------------------------------------------------
\* The list in plan.md.

InList(l) == {l[i] : i \in 1 .. Len(l)}

\* parseExecutionScenarioPlan: no repetition; an empty list needs a reason.
Parsed(l, reason) == Cardinality(InList(l)) = Len(l) /\ (l /= <<>> \/ reason)

\* validateExecutionScenarioPlan and progressScenarios: the scenarios exist and are approved,
\* and every approved one the patch changes is in the list.
Validated(l) ==
  /\ \A s \in InList(l) : rulesTree[s] = "approved"
  /\ \A s \in changed : rulesTree[s] = "approved" => s \in InList(l)

\* The Runner starts on a valid list; any other ends the Run.  A definition that cannot be given
\* to the Reviewer in full is a blocking reason.
RunnerStarts(l, reason, safe) ==
  /\ rulesStage = "planning" /\ plan' = l
  /\ rulesStage' = IF Parsed(l, reason) /\ Validated(l) THEN "running" ELSE "failed"
  /\ rulesBlocked' = ~safe
  /\ UNCHANGED <<givenVars, runnerVars, calls, read, attempted, rulesSeen, report>>

---------------------------------------------------------------------------
\* The Runner's progress: the tools answer an error and change nothing when a guard fails.

Begin(l) ==
  /\ rulesStage = "running" /\ ~declared
  /\ l = plan
  /\ declared' = TRUE
  /\ UNCHANGED <<givenVars, plan, rulesStage, rulesActive, completed, ran, reviewVars, report>>

\* Mutant: a scenario may be started while another one is active.
StartAnyway(s) ==
  /\ rulesStage = "running" /\ declared /\ s \in InList(plan) \ completed
  /\ s = plan[Cardinality(completed) + 1] /\ Len(ran) < 2 * MaxPlan
  /\ rulesActive' = s /\ ran' = Append(ran, <<"start", s>>)
  /\ UNCHANGED <<givenVars, plan, rulesStage, declared, completed, reviewVars, report>>

Start(s) ==
  /\ rulesStage = "running" /\ declared
  /\ s \in InList(plan) \ completed /\ rulesActive = Nothing
  /\ s = plan[Cardinality(completed) + 1]
  /\ rulesActive' = s /\ ran' = Append(ran, <<"start", s>>)
  /\ UNCHANGED <<givenVars, plan, rulesStage, declared, completed, reviewVars, report>>

Finish(s) ==
  /\ rulesStage = "running" /\ declared /\ rulesActive = s /\ s \notin completed
  /\ completed' = completed \cup {s} /\ rulesActive' = Nothing
  /\ ran' = Append(ran, <<"finish", s>>)
  /\ UNCHANGED <<givenVars, plan, rulesStage, declared, reviewVars, report>>

\* completionError: an end that is not a complete execution fails the Run.
RunnerEnds ==
  /\ rulesStage = "running"
  /\ rulesStage' = IF declared /\ rulesActive = Nothing /\ Cardinality(completed) = Len(plan)
                THEN "reviewing" ELSE "failed"
  /\ UNCHANGED <<givenVars, plan, runnerVars, reviewVars, report>>

---------------------------------------------------------------------------
\* The Reviewer's reading.

PlanAndPatchRead == "plan" \in read /\ (patch => "patch" \in read)
Ready            == PlanAndPatchRead /\ images \subseteq attempted

\* Mutant: the raw images may be read after the Runner's account of them.
ReadArtifactEarly(name) ==
  /\ rulesStage = "reviewing" /\ name \in Artifacts \ calls
  /\ name = "execution" => PlanAndPatchRead
  /\ calls' = calls \cup {name}
  /\ UNCHANGED <<givenVars, plan, rulesStage, runnerVars, read, attempted, rulesSeen, rulesBlocked,
                 report>>

\* read_run_artifact begins: execution.md only once everything else was read or attempted.
ReadArtifact(name) ==
  /\ rulesStage = "reviewing" /\ name \in Artifacts \ calls
  /\ name = "execution" => Ready
  /\ calls' = calls \cup {name}
  /\ UNCHANGED <<givenVars, plan, rulesStage, runnerVars, read, attempted, rulesSeen, rulesBlocked,
                 report>>

\* A failed read counts for nothing.
ArtifactAnswered(name, ok) ==
  /\ name \in calls \cap Artifacts /\ calls' = calls \ {name}
  /\ read' = IF ok THEN read \cup {name} ELSE read
  /\ UNCHANGED <<givenVars, plan, rulesStage, runnerVars, attempted, rulesSeen, rulesBlocked,
                 report>>

\* The wrapped evidence tool: nothing before plan and patch.
ReadImage(i) ==
  /\ rulesStage = "reviewing" /\ i \in images \ calls /\ PlanAndPatchRead
  /\ calls' = calls \cup {i}
  /\ UNCHANGED <<givenVars, plan, rulesStage, runnerVars, read, attempted, rulesSeen, rulesBlocked,
                 report>>

\* An invalid request is no attempt; an error, or an answer with no image, is one that blocks.
ImageAnswered(i, answer) ==
  /\ i \in calls \cap images /\ calls' = calls \ {i}
  /\ attempted' = IF answer = "invalid" THEN attempted ELSE attempted \cup {i}
  /\ rulesSeen' = IF answer = "image" THEN rulesSeen \cup {i} ELSE rulesSeen
  /\ rulesBlocked' = (rulesBlocked \/ answer = "error")
  /\ UNCHANGED <<givenVars, plan, rulesStage, runnerVars, read, report>>

\* write_review; a Session that ends without it fails the Run.
WriteReview ==
  /\ rulesStage = "reviewing" /\ Ready /\ "execution" \in read
  /\ rulesStage' = "reporting"
  /\ UNCHANGED <<givenVars, plan, runnerVars, reviewVars, report>>

ReviewerGivesUp ==
  /\ rulesStage = "reviewing" /\ ~(Ready /\ "execution" \in read)
  /\ rulesStage' = "failed"
  /\ UNCHANGED <<givenVars, plan, runnerVars, reviewVars, report>>

---------------------------------------------------------------------------
\* The final report: a sequence of <<scenario, result>> and the result of the Run.

Aggregate(results, bug) ==
  LET kinds == {results[i][2] : i \in 1 .. Len(results)} IN
  IF "blocked" \in kinds THEN "blocked"
  ELSE IF "failed" \in kinds \/ bug THEN "failed" ELSE "passed"

\* assertScenarioResultsMatchPlan: entry by entry, in the order of the list.
MatchesPlan(results) ==
  Len(results) = Len(plan) /\ \A i \in 1 .. Len(plan) : results[i][1] = plan[i]

\* forceInfrastructureBlockedReport: with a blocking reason, the first line of the form is made
\* blocked, which is the report's result only if it is the frontmatter's own line.
Downgraded(result, line) == IF rulesBlocked /\ line = "own" THEN "blocked" ELSE result

\* The downgrade, which needs a line to rewrite, and validateFinalReport on what it leaves.
ReportWritten(results, result, line, bug) ==
  LET told     == Downgraded(result, line)
      expected == Aggregate(results, bug)
      valid    == /\ rulesBlocked => line /= "none"
                  /\ MatchesPlan(results)
                  /\ \/ told = expected
                     \/ told = "blocked" /\ (expected /= "passed" \/ rulesBlocked)
                  /\ told = "failed" => bug IN
  /\ rulesStage = "reporting"
  /\ rulesStage' = IF valid THEN "reported" ELSE "failed"
  /\ report' = IF valid THEN [result |-> told, results |-> results, line |-> line] ELSE report
  /\ UNCHANGED <<givenVars, plan, runnerVars, reviewVars>>

---------------------------------------------------------------------------
RulesNext ==
  \/ \E l \in Lists, reason, safe \in BOOLEAN : RunnerStarts(l, reason, safe)
  \/ \E l \in Lists : Begin(l)
  \/ \E s \in Scenarios : Start(s) \/ Finish(s)
  \/ RunnerEnds
  \/ \E n \in Artifacts : ReadArtifact(n) \/ \E ok \in BOOLEAN : ArtifactAnswered(n, ok)
  \/ \E i \in images :
       ReadImage(i) \/ \E answer \in {"image", "error", "invalid"} : ImageAnswered(i, answer)
  \/ WriteReview \/ ReviewerGivesUp
  \/ \E kinds \in [1 .. Len(plan) -> {"passed", "failed", "blocked"}], bug, cut \in BOOLEAN,
        result \in {"passed", "failed", "blocked"}, line \in ReportLines :
       LET results == [i \in 1 .. Len(plan) -
                         (IF cut /\ plan /= <<>> THEN 1 ELSE 0) |-> <<plan[i], kinds[i]>>]
       IN ReportWritten(results, result, line, bug)

RulesSpec == RulesInit /\ [][RulesNext]_ruleVars

---------------------------------------------------------------------------
\* A Run whose report says passed executed every scenario it reports, each once, to its end, in
\* the order of the plan and approved, and an approved scenario the Run itself changed is among
\* them.
PassedWasExecuted ==
  report.result = "passed" =>
    /\ ran = [k \in 1 .. 2 * Len(plan) |->
                IF k % 2 = 1 THEN <<"start", plan[(k + 1) \div 2]>>
                             ELSE <<"finish", plan[k \div 2]>>]
    /\ \A i \in 1 .. Len(plan) : report.results[i] = <<plan[i], "passed">>
    /\ \A s \in Scenarios : rulesTree[s] = "approved" /\ s \in changed => s \in completed
    /\ \A s \in completed : rulesTree[s] = "approved"

\* When the Runner's account is read, or about to be, plan, patch and every raw image were read
\* or attempted before; and a Run whose images were not all shown is not reported as passed,
\* unless the downgrade found another line than the result's own.
OriginalsComeFirst ==
  /\ "execution" \in calls \cup read => PlanAndPatchRead /\ images \subseteq attempted
  /\ report.result = "passed" /\ report.line /= "body" => rulesSeen = images

\* runs/scenario-progress.ts, runs/review-order.ts: passed means executed, and the Reviewer sees
\* the originals first.
PassedAsReviewed == PassedWasExecuted /\ OriginalsComeFirst
=============================================================================
