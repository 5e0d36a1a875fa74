--------------------------- MODULE ArchiveContract ---------------------------
(***************************************************************************)
(* What the archiving of finished Runs promises to those who read the      *)
(* scenario branch, the Issues and the tested baseline, whatever fails in  *)
(* between: everything is published at most once, a Run becomes the        *)
(* baseline only when all it found is published, the baseline never goes   *)
(* back to an older Run, and an archive is closed only when nothing is     *)
(* left to publish.  (docs/changes/luowang-harness-mvp/spec.md, 1097-1104  *)
(* and 1304.)                                                              *)
(***************************************************************************)
EXTENDS Naturals

CONSTANTS
    NumRuns,  \* Runs of the project, numbered in the order they finished
    Bugs,     \* keys of confirmed bugs
    Linked    \* the bugs a report links to an Issue that exists already

Runs == 1..NumRuns

VARIABLES
    facts,      \* what each Run found: result, special, patch, bugs
    reports,    \* Runs whose report is on the scenario branch
    scenarios,  \* Runs whose scenario patch is on that branch or in a pull request
    issues,     \* for each Run and bug, the Issues created for it
    baseline,   \* the Run whose target is the last completed one, 0 for none
    closed      \* Runs whose archive is recorded as completed

contractVars == <<facts, reports, scenarios, issues, baseline, closed>>

NewIssues(r) == facts[r].bugs \ Linked

Published(r) ==
    /\ facts[r].special \/ r \in reports
    /\ facts[r].patch = "none" \/ r \in scenarios
    /\ \A b \in NewIssues(r) : issues[r][b] = 1

ContractInit ==
    /\ reports = {}
    /\ scenarios = {}
    /\ issues = [r \in Runs |-> [b \in Bugs |-> 0]]
    /\ baseline = 0
    /\ closed = {}

PublishReport(r) ==
    /\ r \notin reports /\ ~facts[r].special
    /\ reports' = reports \cup {r}
    /\ UNCHANGED <<facts, scenarios, issues, baseline, closed>>

PublishScenario(r) ==
    /\ r \notin scenarios /\ facts[r].patch # "none"
    /\ scenarios' = scenarios \cup {r}
    /\ UNCHANGED <<facts, reports, issues, baseline, closed>>

FileIssue(r, b) ==
    /\ b \in NewIssues(r) /\ issues[r][b] = 0
    /\ issues' = [issues EXCEPT ![r][b] = 1]
    /\ UNCHANGED <<facts, reports, scenarios, baseline, closed>>

Advance(r) ==
    /\ r > baseline
    /\ facts[r].result \in {"passed", "failed"}
    /\ Published(r)
    /\ baseline' = r
    /\ UNCHANGED <<facts, reports, scenarios, issues, closed>>

Close(r) ==
    /\ r \notin closed /\ Published(r)
    /\ facts[r].result \in {"passed", "failed"} => baseline >= r
    /\ closed' = closed \cup {r}
    /\ UNCHANGED <<facts, reports, scenarios, issues, baseline>>

ContractNext ==
    \E r \in Runs :
        \/ PublishReport(r) \/ PublishScenario(r)
        \/ \E b \in Bugs : FileIssue(r, b)
        \/ Advance(r) \/ Close(r)

ContractSpec == ContractInit /\ [][ContractNext]_contractVars
=============================================================================
