-------------------------- MODULE RunArchiveProofs --------------------------
(***************************************************************************)
(* Proofs about RunArchive: the types, that a bug gets one Issue, that the *)
(* baseline covers every closed conclusive Run, and, when one archive at a *)
(* time uses the clone, that a report marked published is on the branch    *)
(* and that the archives implement ArchiveContract.                        *)
(***************************************************************************)
EXTENDS RunArchive, FiniteSetTheorems, TLAPS

Conclusive(r) == facts[r].result \in {"passed", "failed"}

ScenarioPublished(r) ==
    facts[r].patch = "none" \/ row[r].scenario \in {"published", "pull_request"}

\* What the record of a Run has of its artifacts.
RecordInv(r) ==
    /\ ~row[r].known => row[r] = NoRow
    /\ row[r].known =>
        /\ facts[r].special <=> row[r].report = "not_applicable"
        /\ facts[r].patch = "none" <=> row[r].patch = "none"
        /\ row[r].scenario = "not_applicable" => facts[r].special \/ facts[r].patch = "none"

\* Where an archive stands fits the record, the Run and the queue.
PlaceInv(r) ==
    /\ at[r] # Idle => outcome[r] \in Unsettled
    /\ at[r].step \notin {"idle", "settle"} => row[r].known
    /\ at[r].step = "settle" => ~row[r].known \/ row[r].archive # "pending"
    /\ at[r].step \in {"find", "create"} => at[r].job = "scenario"
    /\ at[r].job = "report" => ~facts[r].special
    /\ at[r].job = "scenario" => facts[r].patch # "none"
    /\ at[r].step \in {"issues", "attempt", "post", "complete"} \/ at[r].job = "report" =>
           (row[r].scenario = "not_applicable" => facts[r].patch = "none")

IssueInv(r, b) ==
    /\ issues[r][b] <= 1
    /\ b \in filed[r] \ Linked => issues[r][b] = 1
    /\ at[r].job = b => b \in facts[r].bugs
    /\ Doing(r, b, "post") => b \notin Linked /\ issues[r][b] = 0

\* What a completed archive has done, and a Run that moved the baseline.
CompletedInv(r) ==
    /\ row[r].archive = "completed" =>
        /\ ReportReady(r) /\ ScenarioPublished(r) /\ AllIssuesSucceeded(r)
        /\ Conclusive(r) => progress >= r
    /\ row[r].progressed => progress >= r
    /\ outcome[r] = "completed" /\ Conclusive(r) => progress >= r

RunInv(r) ==
    /\ RecordInv(r) /\ PlaceInv(r) /\ CompletedInv(r)
    /\ \A b \in Bugs : IssueInv(r, b)

ArchiveInv == ArchiveTypeOK /\ \A r \in Runs : RunInv(r)

\* One archive at a time uses the clone.
Exclusive == \A r, s \in Runs : at[r] # Idle /\ at[s] # Idle => r = s

\* The clone between the steps of a publication.
CloneInv(r) ==
    /\ at[r].step \in {"checkout", "look", "commit", "recheck", "push"} =>
           at[r].head \subseteq branch
    /\ at[r].step \in {"look", "commit"} => clone = at[r].head
    /\ at[r].step \in {"recheck", "push"} => clone = at[r].head \cup {Item(r)}
    /\ at[r].step = "confirm" => Item(r) \in branch

\* What is marked published is.
PublishedInv(r) ==
    /\ row[r].report = "published" => <<"report", r>> \in branch
    /\ row[r].scenario = "published" => <<"scenario", r>> \in branch
    /\ row[r].scenario = "pull_request" \/ pulls[r].open => pulls[r].created > 0

ExclusiveInv == ArchiveInv /\ Exclusive /\ \A r \in Runs : CloneInv(r) /\ PublishedInv(r)
-----------------------------------------------------------------------------
(***************************************************************************)
(* Types.                                                                  *)
(***************************************************************************)
LEMMA PlaceAt ==
  ASSUME NEW step \in Step, NEW job \in {"none", "scenario", "report"} \cup Bugs
  PROVE  At(step, job) \in Place
  BY DEF At, Place

LEMMA IdlePlace == Idle \in Place /\ Idle.step = "idle" /\ Idle.job = "none"
  BY PlaceAt DEF Idle, At, Step

LEMMA GotoPlace ==
  ASSUME ArchiveTypeOK, NEW r \in Runs, NEW step \in Step, Goto(r, step)
  PROVE  /\ at' \in [Runs -> Place]
         /\ \A s \in Runs \ {r} : at'[s] = at[s]
         /\ at'[r].step = step /\ at'[r].job = at[r].job
         /\ at'[r].head = at[r].head /\ at'[r].tried = at[r].tried
  BY DEF ArchiveTypeOK, Goto, Place

LEMMA ItemInItems ==
  ASSUME NEW r \in Runs, at[r].job \in {"scenario", "report"}
  PROVE  Item(r) \in Items
  BY DEF Item, Items

\* What markScenario and markReport leave of a record, and where they lead.
LEMMA MarkEffect ==
  ASSUME ArchiveTypeOK, NEW r \in Runs, NEW status, Mark(r, status),
         \/ at[r].job = "scenario" /\ status \in {"published", "pull_request", "failed"}
         \/ at[r].job = "report" /\ status \in {"published", "failed"}
  PROVE  /\ row' \in [Runs -> Record] /\ at' \in [Runs -> Place]
         /\ \A s \in Runs \ {r} : row'[s] = row[s] /\ at'[s] = at[s]
         /\ row'[r].known = row[r].known /\ row'[r].patch = row[r].patch
         /\ row'[r].progressed = row[r].progressed
         /\ row'[r].archive = IF status = "failed" THEN "failed" ELSE row[r].archive
         /\ at[r].job = "scenario" =>
              row'[r].scenario = status /\ row'[r].report = row[r].report
         /\ at[r].job = "report" =>
              row'[r].report = status /\ row'[r].scenario = row[r].scenario
         /\ \/ at'[r] = At("fetch", "report") /\ row'[r].report # "not_applicable"
            \/ at'[r] = At("issues", "none")
            \/ at'[r] = At("settle", "none") /\ status = "failed"
<1>1. CASE at[r].job = "scenario"
  <2>1. row' = [row EXCEPT ![r] = WithScenario(row[r], status)]
    BY <1>1 DEF Mark
  <2>2. /\ WithScenario(row[r], status) \in Record
        /\ WithScenario(row[r], status).known = row[r].known
        /\ WithScenario(row[r], status).patch = row[r].patch
        /\ WithScenario(row[r], status).progressed = row[r].progressed
        /\ WithScenario(row[r], status).report = row[r].report
        /\ WithScenario(row[r], status).scenario = status
        /\ WithScenario(row[r], status).archive =
             IF status = "failed" THEN "failed" ELSE row[r].archive
    <3>0. row[r] \in Record
      BY DEF ArchiveTypeOK
    <3> DEFINE one == [row[r] EXCEPT !.scenario = status]
    <3>1. /\ one \in Record /\ one.known = row[r].known /\ one.patch = row[r].patch
          /\ one.progressed = row[r].progressed /\ one.archive = row[r].archive
          /\ one.scenario = status /\ one.report = row[r].report
      BY <1>1, <3>0 DEF Record
    <3>2. CASE status = "failed"
      <4>1. WithScenario(row[r], status) = [one EXCEPT !.archive = "failed"]
        BY <3>2 DEF WithScenario
      <4> HIDE DEF one
      <4> QED BY <3>1, <3>2, <4>1 DEF Record
    <3>3. CASE status # "failed"
      BY <3>1, <3>3 DEF WithScenario
    <3> QED BY <3>2, <3>3
  <2>3. at' = [at EXCEPT ![r] = AfterScenario(WithScenario(row[r], status))]
    BY <1>1 DEF Mark
  <2>4. AfterScenario(WithScenario(row[r], status)) \in {At("fetch", "report"), At("issues", "none")}
    BY DEF AfterScenario
  <2>5. AfterScenario(WithScenario(row[r], status)) = At("fetch", "report")
          => row[r].report # "not_applicable"
    BY <2>2 DEF AfterScenario, At
  <2>6. At("fetch", "report") \in Place /\ At("issues", "none") \in Place
    BY PlaceAt DEF Step
  <2>7. row \in [Runs -> Record] /\ at \in [Runs -> Place]
    BY DEF ArchiveTypeOK
  <2> QED BY <1>1, <2>1, <2>2, <2>3, <2>4, <2>5, <2>6, <2>7
<1>2. CASE at[r].job = "report"
  <2>1. row' = [row EXCEPT ![r] = WithReport(row[r], status)]
    BY <1>2 DEF Mark
  <2>2. /\ WithReport(row[r], status) \in Record
        /\ WithReport(row[r], status).known = row[r].known
        /\ WithReport(row[r], status).patch = row[r].patch
        /\ WithReport(row[r], status).progressed = row[r].progressed
        /\ WithReport(row[r], status).scenario = row[r].scenario
        /\ WithReport(row[r], status).report = status
        /\ WithReport(row[r], status).archive =
             IF status = "failed" THEN "failed" ELSE row[r].archive
    <3>0. row[r] \in Record
      BY DEF ArchiveTypeOK
    <3> DEFINE one == [row[r] EXCEPT !.report = status]
    <3>1. /\ one \in Record /\ one.known = row[r].known /\ one.patch = row[r].patch
          /\ one.progressed = row[r].progressed /\ one.archive = row[r].archive
          /\ one.report = status /\ one.scenario = row[r].scenario
      BY <1>2, <3>0 DEF Record
    <3>2. CASE status = "failed"
      <4>1. WithReport(row[r], status) = [one EXCEPT !.archive = "failed"]
        BY <3>2 DEF WithReport
      <4> HIDE DEF one
      <4> QED BY <3>1, <3>2, <4>1 DEF Record
    <3>3. CASE status # "failed"
      BY <3>1, <3>3 DEF WithReport
    <3> QED BY <3>2, <3>3
  <2>3. at' = [at EXCEPT ![r] = AfterReport(r, status)]
    BY <1>2 DEF Mark
  <2>4. \/ AfterReport(r, status) = At("settle", "none") /\ status = "failed"
        \/ AfterReport(r, status) = At("issues", "none")
    BY DEF AfterReport
  <2>6. At("settle", "none") \in Place /\ At("issues", "none") \in Place
    BY PlaceAt DEF Step
  <2>7. row \in [Runs -> Record] /\ at \in [Runs -> Place]
    BY DEF ArchiveTypeOK
  <2> QED BY <1>2, <2>1, <2>2, <2>3, <2>4, <2>6, <2>7
<1> QED BY <1>1, <1>2
-----------------------------------------------------------------------------
\* A step of the archive of r leaves the other Runs alone.
Frame(r) ==
    \A s \in Runs \ {r} :
        /\ row'[s] = row[s] /\ at'[s] = at[s] /\ outcome'[s] = outcome[s]
        /\ filed'[s] = filed[s] /\ issues'[s] = issues[s] /\ pulls'[s] = pulls[s]

\* The artifacts stay, the branch and the baseline only move forward.
Grows == facts' = facts /\ branch \subseteq branch' /\ progress <= progress'

LEMMA PublicationTypes ==
  ASSUME ArchiveTypeOK, NEW r \in Runs, PlaceInv(r), PublicationStep(r)
  PROVE  ArchiveTypeOK' /\ Frame(r) /\ Grows
<1>0. /\ MaxFailures \in Nat /\ failures \in 0..MaxFailures /\ progress \in Nat
      /\ clone \subseteq Items /\ staged \subseteq Items
      /\ at[r] \in Place /\ pulls[r] \in [created: Nat, open: BOOLEAN]
  BY ArchiveAssumption DEF ArchiveTypeOK
<1>1. ASSUME NEW status, Mark(r, status), Unpublished, Cleaned \/ UNCHANGED cloneVars,
             failures' \in 0..MaxFailures,
             \/ at[r].job = "scenario" /\ status \in {"published", "pull_request", "failed"}
             \/ at[r].job = "report" /\ status \in {"published", "failed"}
      PROVE  ArchiveTypeOK' /\ Frame(r) /\ Grows
  BY <1>0, <1>1, MarkEffect DEF ArchiveTypeOK, Frame, Grows, Unpublished, Cleaned, cloneVars,
     remoteVars
<1>2. ASSUME NEW step \in Step, Goto(r, step), Unpublished, UNCHANGED row,
             clone' \subseteq Items, staged' \subseteq Items, failures' = failures
      PROVE  ArchiveTypeOK' /\ Frame(r) /\ Grows
  BY <1>0, <1>2, GotoPlace DEF ArchiveTypeOK, Frame, Grows, Unpublished, remoteVars
<1>3. CASE Validate(r)
  BY <1>3, <1>2 DEF Validate, Step
<1>4. CASE Fetch(r)
  <2> DEFINE read == [at EXCEPT ![r].head = branch]
             next == IF Reviewed(r) /\ r \in proposed THEN "find" ELSE "checkout"
  <2>1. at' = [read EXCEPT ![r].step = next]
    BY <1>4 DEF Fetch
  <2>2. /\ read \in [Runs -> Place] /\ next \in Step
        /\ \A s \in Runs \ {r} : read[s] = at[s]
    BY DEF ArchiveTypeOK, Place, Step
  <2> HIDE DEF read, next
  <2>3. /\ at' \in [Runs -> Place]
        /\ \A s \in Runs \ {r} : at'[s] = at[s]
    BY <2>1, <2>2 DEF Place
  <2> QED BY <1>0, <1>4, <2>3 DEF Fetch, ArchiveTypeOK, Frame, Grows, Unpublished, cloneVars,
          remoteVars
<1>5. CASE Checkout(r)
  <2>1. at[r].head \subseteq Items
    BY <1>0 DEF Place
  <2> QED BY <1>5, <2>1, <1>2 DEF Checkout, Step
<1>6. CASE AlreadyPublished(r)
  BY <1>0, <1>6, <1>1 DEF AlreadyPublished, Publishing
<1>7. CASE PatchDoesNotApply(r)
  BY <1>0, <1>7, <1>1 DEF PatchDoesNotApply, Publishing
<1>8. CASE Stage(r)
  <2>1. Item(r) \in Items
    BY <1>8, ItemInItems DEF Stage, Publishing
  <2> QED BY <1>0, <1>8, <2>1, <1>2 DEF Stage, Step
<1>9. CASE Commit(r)
  BY <1>0, <1>9, <1>1, <1>2 DEF Commit, Publishing, Step
<1>10. CASE Recheck(r)
  BY <1>0, <1>10, <1>1, <1>2 DEF Recheck, Publishing, Step, cloneVars
<1>11. CASE Push(r)
  <2>1. branch \subseteq branch' /\ branch' \subseteq Items /\ proposed' \subseteq Runs
    BY <1>0, <1>11 DEF Push, PushTaken, ArchiveTypeOK
  <2>2. /\ row' \in [Runs -> Record] /\ at' \in [Runs -> Place]
        /\ \A s \in Runs \ {r} : row'[s] = row[s] /\ at'[s] = at[s]
        /\ staged' \subseteq Items /\ failures' \in 0..MaxFailures
    <3>1. CASE Goto(r, IF Reviewed(r) THEN "find" ELSE "confirm") /\ UNCHANGED <<row, staged, failures>>
      <4>1. (IF Reviewed(r) THEN "find" ELSE "confirm") \in Step
        BY DEF Step
      <4> QED BY <1>0, <3>1, <4>1, GotoPlace DEF ArchiveTypeOK
    <3>2. CASE /\ failures < MaxFailures /\ failures' = failures + 1
               /\ Mark(r, "failed") /\ staged' = {}
      BY <1>0, <1>11, <3>2, MarkEffect DEF Push, Publishing
    <3> QED BY <1>11, <3>1, <3>2 DEF Push
  <2> QED BY <1>0, <1>11, <2>1, <2>2 DEF Push, ArchiveTypeOK, Frame, Grows
<1>12. CASE PushRefused(r)
  BY <1>0, <1>12, <1>1 DEF PushRefused, Publishing
<1>13. CASE Confirm(r)
  BY <1>0, <1>13, <1>1 DEF Confirm, Publishing
<1>14. CASE FindPull(r)
  <2>1. at[r].job = "scenario"
    BY <1>14 DEF FindPull, Publishing, PlaceInv
  <2> QED BY <1>0, <1>14, <2>1, <1>1, <1>2 DEF FindPull, Step, cloneVars
<1>15. CASE CreatePull(r)
  <2>1. at[r].job = "scenario"
    BY <1>15 DEF CreatePull, Publishing, PlaceInv
  <2>2. pulls' \in [Runs -> [created: Nat, open: BOOLEAN]]
        /\ \A s \in Runs \ {r} : pulls'[s] = pulls[s]
    BY <1>0, <1>15 DEF CreatePull, ArchiveTypeOK
  <2>3. /\ row' \in [Runs -> Record] /\ at' \in [Runs -> Place]
        /\ \A s \in Runs \ {r} : row'[s] = row[s] /\ at'[s] = at[s]
        /\ failures' \in 0..MaxFailures
    BY <1>0, <1>15, <2>1, MarkEffect DEF CreatePull
  <2> QED BY <1>0, <1>15, <2>2, <2>3 DEF CreatePull, ArchiveTypeOK, Frame, Grows, cloneVars
<1>16. CASE PullRefused(r)
  <2>1. at[r].job = "scenario"
    BY <1>16 DEF PullRefused, Publishing, PlaceInv
  <2> QED BY <1>0, <1>16, <2>1, <1>1 DEF PullRefused
<1>17. CASE PublicationFails(r)
  BY <1>0, <1>17, <1>1 DEF PublicationFails, Publishing
<1> QED BY <1>3, <1>4, <1>5, <1>6, <1>7, <1>8, <1>9, <1>10, <1>11, <1>12, <1>13, <1>14,
        <1>15, <1>16, <1>17 DEF PublicationStep

\* markIssueAttempt changes the Run's own record and place.
LEMMA MarkIssueEffect ==
  ASSUME ArchiveTypeOK, NEW r \in Runs, NEW b \in Bugs, NEW succeeded \in BOOLEAN,
         MarkIssue(r, b, succeeded)
  PROVE  /\ row' \in [Runs -> Record] /\ at' \in [Runs -> Place]
         /\ filed' \in [Runs -> SUBSET Bugs]
         /\ \A s \in Runs \ {r} : row'[s] = row[s] /\ at'[s] = at[s] /\ filed'[s] = filed[s]
         /\ filed'[r] = IF succeeded THEN filed[r] \cup {b} ELSE filed[r]
         /\ row'[r].known = row[r].known /\ row'[r].patch = row[r].patch
         /\ row'[r].progressed = row[r].progressed /\ row'[r].report = row[r].report
         /\ row'[r].scenario = row[r].scenario
         /\ row'[r].archive \in {row[r].archive, "partial"}
         /\ at'[r].step = "issues" /\ at'[r].job = "none"
<1> DEFINE first == At("issues", "none")
           next == [first EXCEPT !.tried = at[r].tried \cup {b}]
<1>1. at' = [at EXCEPT ![r] = next]
  BY DEF MarkIssue
<1>2. at[r] \in Place /\ row[r] \in Record
  BY DEF ArchiveTypeOK
<1>3. first \in Place /\ first.step = "issues" /\ first.job = "none"
  BY PlaceAt DEF At, Step
<1> HIDE DEF first
<1>6. next \in Place /\ next.step = "issues" /\ next.job = "none"
  BY <1>2, <1>3 DEF Place
<1> HIDE DEF next
<1>7. /\ at' \in [Runs -> Place] /\ at'[r].step = "issues" /\ at'[r].job = "none"
      /\ \A s \in Runs \ {r} : at'[s] = at[s]
  BY <1>1, <1>6 DEF ArchiveTypeOK
<1>8. /\ row' \in [Runs -> Record]
      /\ \A s \in Runs \ {r} : row'[s] = row[s]
      /\ row'[r].known = row[r].known /\ row'[r].patch = row[r].patch
      /\ row'[r].progressed = row[r].progressed /\ row'[r].report = row[r].report
      /\ row'[r].scenario = row[r].scenario
      /\ row'[r].archive \in {row[r].archive, "partial"}
  BY <1>2 DEF MarkIssue, ArchiveTypeOK, Record
<1>9. /\ filed' \in [Runs -> SUBSET Bugs]
      /\ \A s \in Runs \ {r} : filed'[s] = filed[s]
      /\ filed'[r] = IF succeeded THEN filed[r] \cup {b} ELSE filed[r]
  BY DEF MarkIssue, ArchiveTypeOK
<1> QED BY <1>7, <1>8, <1>9

LEMMA IssueTypes ==
  ASSUME ArchiveTypeOK, NEW r \in Runs, IssuesStep(r)
  PROVE  ArchiveTypeOK' /\ Frame(r) /\ Grows
<1>0. MaxFailures \in Nat /\ failures \in 0..MaxFailures /\ progress \in Nat /\ at[r] \in Place
  BY ArchiveAssumption DEF ArchiveTypeOK
<1>1. ASSUME NEW b \in Bugs, NEW succeeded \in BOOLEAN, MarkIssue(r, b, succeeded), IssueStep,
             issues' \in [Runs -> [Bugs -> Nat]],
             \A s \in Runs \ {r} : issues'[s] = issues[s],
             failures' \in 0..MaxFailures
      PROVE  ArchiveTypeOK' /\ Frame(r) /\ Grows
  <2>1. /\ row' \in [Runs -> Record] /\ at' \in [Runs -> Place]
        /\ filed' \in [Runs -> SUBSET Bugs]
        /\ \A s \in Runs \ {r} : row'[s] = row[s] /\ at'[s] = at[s] /\ filed'[s] = filed[s]
    BY <1>1, MarkIssueEffect
  <2> QED BY <1>0, <1>1, <2>1 DEF IssueStep, cloneVars, ArchiveTypeOK, Frame, Grows
<1>2. ASSUME at' \in [Runs -> Place], \A s \in Runs \ {r} : at'[s] = at[s],
             IssueStep, UNCHANGED <<row, filed, issues, failures>>
      PROVE  ArchiveTypeOK' /\ Frame(r) /\ Grows
  BY <1>0, <1>2 DEF IssueStep, cloneVars, ArchiveTypeOK, Frame, Grows
<1>3. CASE NextIssue(r)
  <2>1. PICK b \in IssuesLeft(r) : at' = [at EXCEPT ![r].step = "attempt", ![r].job = b]
    BY <1>3 DEF NextIssue
  <2>2. b \in Bugs
    BY ArchiveAssumption DEF ArchiveTypeOK, IssuesLeft, LegalFacts, Runs
  <2> DEFINE one == [at EXCEPT ![r].step = "attempt"]
  <2>3. one \in [Runs -> Place] /\ \A s \in Runs \ {r} : one[s] = at[s]
    BY DEF ArchiveTypeOK, Place, Step
  <2>4. at' = [one EXCEPT ![r].job = b]
    BY <2>1
  <2> HIDE DEF one
  <2>5. at' \in [Runs -> Place] /\ \A s \in Runs \ {r} : at'[s] = at[s]
    BY <2>2, <2>3, <2>4 DEF Place
  <2> QED BY <1>2, <1>3, <2>5 DEF NextIssue
<1>4. CASE IssuesDone(r)
  <2>1. At("complete", "none") \in Place
    BY PlaceAt DEF Step
  <2>2. at' \in [Runs -> Place] /\ \A s \in Runs \ {r} : at'[s] = at[s]
    BY <1>4, <2>1 DEF IssuesDone, ArchiveTypeOK
  <2> QED BY <1>2, <1>4, <2>2 DEF IssuesDone
<1>5. ASSUME NEW b \in Bugs, FindIssue(r, b)
      PROVE  ArchiveTypeOK' /\ Frame(r) /\ Grows
  <2>1. CASE MarkIssue(r, b, TRUE)
    BY <1>0, <1>5, <1>1, <2>1 DEF FindIssue, ArchiveTypeOK
  <2>2. CASE Goto(r, "post") /\ UNCHANGED <<row, filed>>
    <3>1. at' \in [Runs -> Place] /\ \A s \in Runs \ {r} : at'[s] = at[s]
      BY <2>2, GotoPlace DEF Step
    <3> QED BY <1>5, <2>2, <3>1, <1>2 DEF FindIssue
  <2> QED BY <1>5, <2>1, <2>2 DEF FindIssue
<1>6. ASSUME NEW b \in Bugs, CreateIssue(r, b)
      PROVE  ArchiveTypeOK' /\ Frame(r) /\ Grows
  <2>1. /\ issues' \in [Runs -> [Bugs -> Nat]]
        /\ \A s \in Runs \ {r} : issues'[s] = issues[s]
    BY <1>6 DEF CreateIssue, ArchiveTypeOK
  <2>0. IssueStep
    BY <1>6, Zenon DEF CreateIssue
  <2>2. failures' \in 0..MaxFailures
    <3>1. CASE UNCHANGED failures
      BY <1>0, <3>1
    <3>2. CASE failures < MaxFailures /\ failures' = failures + 1
      BY <1>0, <3>2
    <3> QED BY <1>6, <3>1, <3>2, Zenon DEF CreateIssue
  <2>3. PICK succeeded \in BOOLEAN : MarkIssue(r, b, succeeded)
    BY <1>6 DEF CreateIssue
  <2> QED BY <1>1, <2>0, <2>1, <2>2, <2>3
<1>7. ASSUME NEW b \in Bugs, IssueFails(r, b)
      PROVE  ArchiveTypeOK' /\ Frame(r) /\ Grows
  <2>1. /\ IssueStep /\ issues' = issues /\ MarkIssue(r, b, FALSE)
        /\ failures < MaxFailures /\ failures' = failures + 1
    BY <1>7, Zenon DEF IssueFails
  <2>2. issues' \in [Runs -> [Bugs -> Nat]] /\ failures' \in 0..MaxFailures
    BY <1>0, <2>1 DEF ArchiveTypeOK
  <2>3. \E succeeded \in BOOLEAN : succeeded = FALSE /\ MarkIssue(r, b, succeeded)
    BY <2>1, Zenon
  <2> QED BY <1>1, <2>1, <2>2, <2>3
<1> QED BY <1>3, <1>4, <1>5, <1>6, <1>7 DEF IssuesStep

\* completeArchive
LEMMA CompleteEffect ==
  ASSUME ArchiveTypeOK, NEW r \in Runs, CompleteArchive(r)
  PROVE  /\ row' \in [Runs -> Record]
         /\ \A s \in Runs \ {r} : row'[s] = row[s]
         /\ row'[r].known = row[r].known /\ row'[r].patch = row[r].patch
         /\ row'[r].report = row[r].report /\ row'[r].scenario = row[r].scenario
         /\ row'[r].progressed = (row[r].progressed \/ Moves(r))
         /\ row'[r].archive = IF ReportReady(r) /\ ScenarioReady(r) /\ AllIssuesSucceeded(r)
                              THEN "completed" ELSE "partial"
<1> DEFINE moved == row[r].progressed \/ Moves(r)
           status == IF ReportReady(r) /\ ScenarioReady(r) /\ AllIssuesSucceeded(r)
                     THEN "completed" ELSE "partial"
           one == [row EXCEPT ![r].progressed = moved]
<1>1. row[r] \in Record /\ moved \in BOOLEAN /\ status \in {"completed", "partial"}
  BY DEF ArchiveTypeOK, Record
<1>2. row' = [one EXCEPT ![r].archive = status]
  BY DEF CompleteArchive
<1> HIDE DEF moved, status
<1>3. /\ one \in [Runs -> Record]
      /\ \A s \in Runs \ {r} : one[s] = row[s]
      /\ one[r].known = row[r].known /\ one[r].patch = row[r].patch
      /\ one[r].report = row[r].report /\ one[r].scenario = row[r].scenario
      /\ one[r].progressed = moved
  BY <1>1 DEF ArchiveTypeOK, Record
<1> HIDE DEF one
<1>4. /\ row' \in [Runs -> Record]
      /\ \A s \in Runs \ {r} : row'[s] = row[s]
      /\ row'[r].known = row[r].known /\ row'[r].patch = row[r].patch
      /\ row'[r].report = row[r].report /\ row'[r].scenario = row[r].scenario
      /\ row'[r].progressed = moved /\ row'[r].archive = status
  BY <1>1, <1>2, <1>3 DEF Record
<1> QED BY <1>4 DEF moved, status

LEMMA LegalRun ==
  ASSUME ArchiveTypeOK, NEW r \in Runs
  PROVE  facts[r] \in LegalFacts
  BY ArchiveAssumption DEF ArchiveTypeOK, Runs

LEMMA NewRowRecord ==
  ASSUME ArchiveTypeOK, NEW r \in Runs, NEW patch \in Patch
  PROVE  NewRow(r, patch) \in Record
  BY LegalRun DEF NewRow, Record, LegalFacts

LEMMA ImportedRecord ==
  ASSUME ArchiveTypeOK, NEW r \in Runs
  PROVE  Imported(r) \in Record
<1>1. (IF facts[r].patch = "none" THEN "none" ELSE "review") \in Patch
  BY DEF Patch
<1>2. row[r] \in Record
  BY DEF ArchiveTypeOK
<1> QED BY <1>1, <1>2, NewRowRecord DEF Imported

\* Where archiveInternal may go after the import.
LEMMA AfterImportPlace ==
  ASSUME NEW record
  PROVE  \/ AfterImport(record) = At("settle", "none") /\ record.archive = "completed"
         \/ AfterImport(record) = At("validate", "scenario") /\ ScenarioOpen(record)
         \/ AfterImport(record) = At("fetch", "report") /\ ~ScenarioOpen(record)
              /\ record.report # "not_applicable"
         \/ AfterImport(record) = At("issues", "none") /\ ~ScenarioOpen(record)
  BY DEF AfterImport, AfterScenario

LEMMA StartTypes ==
  ASSUME ArchiveTypeOK, NEW r \in Runs, StartArchive(r)
  PROVE  ArchiveTypeOK' /\ Frame(r) /\ Grows
<1>0. MaxFailures \in Nat /\ failures \in 0..MaxFailures /\ progress \in Nat
  BY ArchiveAssumption DEF ArchiveTypeOK
<1>1. /\ At("settle", "none") \in Place /\ At("validate", "scenario") \in Place
      /\ At("fetch", "report") \in Place /\ At("issues", "none") \in Place
  BY PlaceAt DEF Step
<1>2. AfterImport(Imported(r)) \in Place
  BY <1>1, AfterImportPlace
<1>3. /\ row' \in [Runs -> Record] /\ at' \in [Runs -> Place]
      /\ \A s \in Runs \ {r} : row'[s] = row[s] /\ at'[s] = at[s]
      /\ failures' \in 0..MaxFailures
  <2>1. CASE /\ row' = [row EXCEPT ![r] = Imported(r)]
             /\ at' = [at EXCEPT ![r] = AfterImport(Imported(r))]
             /\ UNCHANGED failures
    BY <1>0, <1>2, <2>1, ImportedRecord DEF ArchiveTypeOK
  <2>2. CASE /\ failures < MaxFailures /\ failures' = failures + 1
             /\ row' = IF row[r].known THEN [row EXCEPT ![r].archive = "failed"] ELSE row
             /\ at' = [at EXCEPT ![r] = At("settle", "none")]
    <3>1. /\ row' \in [Runs -> Record]
          /\ \A s \in Runs \ {r} : row'[s] = row[s]
      <4>1. row \in [Runs -> Record]
        BY DEF ArchiveTypeOK
      <4>2. CASE row[r].known
        BY <2>2, <4>1, <4>2 DEF Record
      <4> QED BY <2>2, <4>1, <4>2
    <3>2. /\ at' \in [Runs -> Place]
          /\ \A s \in Runs \ {r} : at'[s] = at[s]
      BY <1>1, <2>2 DEF ArchiveTypeOK
    <3> QED BY <1>0, <2>2, <3>1, <3>2
  <2> QED BY <2>1, <2>2 DEF StartArchive
<1> QED BY <1>0, <1>3 DEF StartArchive, ArchiveTypeOK, Frame, Grows, remoteVars, cloneVars

LEMMA EndRunTypes ==
  ASSUME ArchiveTypeOK, NEW r \in Runs, EndRun(r)
  PROVE  ArchiveTypeOK' /\ Frame(r) /\ Grows
<1>1. progress \in Nat /\ facts[r].patch \in Patch
  BY ArchiveAssumption, LegalRun DEF ArchiveTypeOK, LegalFacts
<1>2. /\ row' \in [Runs -> Record]
      /\ \A s \in Runs \ {r} : row'[s] = row[s]
  BY <1>1, NewRowRecord DEF EndRun, ArchiveTypeOK
<1>3. /\ outcome' \in [Runs -> {"none", "waiting", "completed", "partial", "failed"}]
      /\ \A s \in Runs \ {r} : outcome'[s] = outcome[s]
  BY DEF EndRun, ArchiveTypeOK
<1> QED BY <1>1, <1>2, <1>3
        DEF EndRun, ArchiveTypeOK, Frame, Grows, remoteVars, cloneVars, boundVars

LEMMA CompleteTypes ==
  ASSUME ArchiveTypeOK, NEW r \in Runs, CompleteArchive(r)
  PROVE  ArchiveTypeOK' /\ Frame(r) /\ Grows
<1>1. /\ row' \in [Runs -> Record]
      /\ \A s \in Runs \ {r} : row'[s] = row[s]
  BY CompleteEffect
<1>2. /\ at' \in [Runs -> Place]
      /\ \A s \in Runs \ {r} : at'[s] = at[s]
  BY GotoPlace DEF CompleteArchive, Step
<1>3. progress' \in 0..NumRuns /\ progress <= progress'
  BY ArchiveAssumption DEF CompleteArchive, Moves, ArchiveTypeOK, Runs
<1> QED BY <1>1, <1>2, <1>3
        DEF CompleteArchive, ArchiveTypeOK, Frame, Grows, remoteVars, cloneVars, boundVars

LEMMA SettleTypes ==
  ASSUME ArchiveTypeOK, NEW r \in Runs, Settle(r), row[r].archive # "pending" \/ ~row[r].known
  PROVE  ArchiveTypeOK' /\ Frame(r) /\ Grows
<1>1. /\ at' \in [Runs -> Place]
      /\ \A s \in Runs \ {r} : at'[s] = at[s]
  BY IdlePlace DEF Settle, ArchiveTypeOK
<1>2. row[r] \in Record /\ progress \in Nat
  BY ArchiveAssumption DEF ArchiveTypeOK
<1>3. (IF row[r].known THEN row[r].archive ELSE "failed") \in {"completed", "partial", "failed"}
  BY <1>2 DEF Record
<1>4. /\ outcome' \in [Runs -> {"none", "waiting", "completed", "partial", "failed"}]
      /\ \A s \in Runs \ {r} : outcome'[s] = outcome[s]
  BY <1>3 DEF Settle, ArchiveTypeOK
<1> QED BY <1>1, <1>2, <1>4
        DEF Settle, ArchiveTypeOK, Frame, Grows, storeVars, remoteVars, cloneVars, boundVars

LEMMA EnvironmentTypes ==
  ASSUME ArchiveTypeOK,
         (\E r \in Runs : MergePull(r) \/ ClosePull(r)) \/ OthersPush \/ RunChecksOut \/ Crash
  PROVE  /\ ArchiveTypeOK' /\ Grows
         /\ \A s \in Runs :
               /\ row'[s] = row[s] /\ outcome'[s] = outcome[s] /\ filed'[s] = filed[s]
               /\ issues'[s] = issues[s] /\ at'[s] \in {at[s], Idle}
               /\ pulls'[s].created = pulls[s].created
               /\ pulls'[s].open => pulls[s].open
<1>0. /\ progress \in Nat /\ MaxCrashes \in Nat /\ MaxForeign \in Nat
      /\ pulls \in [Runs -> [created: Nat, open: BOOLEAN]]
  BY ArchiveAssumption DEF ArchiveTypeOK
<1>1. ASSUME NEW r \in Runs, pulls' = [pulls EXCEPT ![r].open = FALSE]
      PROVE  /\ pulls' \in [Runs -> [created: Nat, open: BOOLEAN]]
             /\ \A s \in Runs : pulls'[s].created = pulls[s].created
                                /\ (pulls'[s].open => pulls[s].open)
  BY <1>0, <1>1
<1>2. ASSUME NEW r \in Runs, MergePull(r)
      PROVE  /\ ArchiveTypeOK' /\ Grows
             /\ UNCHANGED <<row, outcome, filed, issues, at>>
  <2>1. pulls' \in [Runs -> [created: Nat, open: BOOLEAN]]
    BY <1>1, <1>2 DEF MergePull
  <2>2. <<"scenario", r>> \in Items
    BY DEF Items
  <2>3. branch' \subseteq Items /\ branch \subseteq branch' /\ proposed' \subseteq Runs
    BY <1>2, <2>2 DEF MergePull, ArchiveTypeOK
  <2> QED BY <1>0, <1>2, <2>1, <2>3 DEF MergePull, ArchiveTypeOK, Grows, storeVars, cloneVars,
          boundVars
<1>3. ASSUME NEW r \in Runs, ClosePull(r)
      PROVE  /\ ArchiveTypeOK' /\ Grows
             /\ UNCHANGED <<row, outcome, filed, issues, at>>
  <2>1. pulls' \in [Runs -> [created: Nat, open: BOOLEAN]]
    BY <1>1, <1>3 DEF ClosePull
  <2> QED BY <1>0, <1>3, <2>1 DEF ClosePull, ArchiveTypeOK, Grows, storeVars, cloneVars,
          boundVars
<1>4. CASE OthersPush
  <2>1. foreign' \in 1..MaxForeign
    BY <1>0, <1>4 DEF OthersPush, ArchiveTypeOK
  <2>2. <<"other", foreign'>> \in Items
    BY <2>1 DEF Items
  <2> DEFINE pushed == <<"other", foreign'>>
  <2>4. branch' = branch \cup {pushed} /\ branch \subseteq Items
    BY <1>4 DEF OthersPush, ArchiveTypeOK
  <2> HIDE DEF pushed
  <2>3. branch' \subseteq Items /\ branch \subseteq branch' /\ foreign' \in 0..MaxForeign
    BY <1>0, <2>1, <2>2, <2>4 DEF pushed
  <2> QED BY <1>0, <1>4, <2>3 DEF OthersPush, ArchiveTypeOK, Grows, storeVars, cloneVars
<1>5. CASE RunChecksOut
  BY <1>0, <1>5 DEF RunChecksOut, ArchiveTypeOK, Grows, storeVars, remoteVars, boundVars
<1>6. CASE Crash
  BY <1>0, <1>6, IdlePlace DEF Crash, ArchiveTypeOK, Grows, storeVars, remoteVars, cloneVars
<1>7. CASE \E r \in Runs : MergePull(r) \/ ClosePull(r)
  BY <1>1, <1>2, <1>3, <1>7 DEF MergePull, ClosePull
<1> QED BY <1>4, <1>5, <1>6, <1>7
-----------------------------------------------------------------------------
(***************************************************************************)
(* What an archive keeps of its own Run, and of the others.                *)
(***************************************************************************)
\* What is known of a Run stays true while others work and the branch grows.
LEMMA OthersKeep ==
  ASSUME ArchiveTypeOK, ArchiveTypeOK', NEW s \in Runs, RunInv(s), Grows,
         row'[s] = row[s], outcome'[s] = outcome[s], filed'[s] = filed[s],
         issues'[s] = issues[s], at'[s] \in {at[s], Idle}
  PROVE  RunInv(s)'
<1>0. /\ progress \in Nat /\ progress' \in Nat /\ s \in Nat
      /\ progress <= progress' /\ facts' = facts
      /\ Bugs \cap {"none", "scenario", "report"} = {}
  BY ArchiveAssumption DEF ArchiveTypeOK, Runs, Grows
<1>1. RecordInv(s)'
  BY <1>0 DEF RunInv, RecordInv
<1>2. PlaceInv(s)'
  BY <1>0, IdlePlace DEF RunInv, PlaceInv
<1>3. CompletedInv(s)'
  BY <1>0 DEF RunInv, CompletedInv, Conclusive, ReportReady, ScenarioPublished,
     AllIssuesSucceeded
<1>4. ASSUME NEW b \in Bugs
      PROVE  IssueInv(s, b)'
  BY <1>0, IdlePlace DEF RunInv, IssueInv, Doing
<1> QED BY <1>1, <1>2, <1>3, <1>4 DEF RunInv

\* What a place made by At says.
LEMMA AtFields ==
  ASSUME NEW step, NEW job
  PROVE  /\ At(step, job).step = step /\ At(step, job).job = job
         /\ At(step, job).head = {} /\ At(step, job).tried = {}
  BY DEF At

LEMMA NamesNotBugs == "none" \notin Bugs /\ "scenario" \notin Bugs /\ "report" \notin Bugs
  BY ArchiveAssumption

LEMMA MarkKeeps ==
  ASSUME ArchiveTypeOK, ArchiveTypeOK', NEW r \in Runs, RunInv(r), NEW status, Mark(r, status),
         \/ at[r].job = "scenario" /\ status \in {"published", "pull_request", "failed"}
         \/ at[r].job = "report" /\ status \in {"published", "failed"},
         at[r].step \notin {"idle", "settle"},
         UNCHANGED <<facts, outcome, filed, progress, issues>>
  PROVE  RunInv(r)'
<1>0. /\ row'[r].known = row[r].known /\ row'[r].patch = row[r].patch
      /\ row'[r].progressed = row[r].progressed
      /\ row'[r].archive = IF status = "failed" THEN "failed" ELSE row[r].archive
      /\ at[r].job = "scenario" => row'[r].scenario = status /\ row'[r].report = row[r].report
      /\ at[r].job = "report" => row'[r].report = status /\ row'[r].scenario = row[r].scenario
      /\ \/ at'[r] = At("fetch", "report") /\ row'[r].report # "not_applicable"
         \/ at'[r] = At("issues", "none")
         \/ at'[r] = At("settle", "none") /\ status = "failed"
  BY MarkEffect
<1>1. row[r].known /\ outcome[r] \in Unsettled
  BY IdlePlace DEF RunInv, PlaceInv
<1>2. RecordInv(r)'
  BY <1>0, <1>1 DEF RunInv, RecordInv, PlaceInv
<1>3. PlaceInv(r)'
  BY <1>0, <1>1, <1>2, AtFields DEF RunInv, RecordInv, PlaceInv
<1>4. CompletedInv(r)'
  BY <1>0 DEF RunInv, CompletedInv, Conclusive, ReportReady, ScenarioPublished,
     AllIssuesSucceeded
<1>5. ASSUME NEW b \in Bugs
      PROVE  IssueInv(r, b)'
  BY <1>0, AtFields, NamesNotBugs DEF RunInv, IssueInv, Doing
<1> QED BY <1>2, <1>3, <1>4, <1>5 DEF RunInv

\* A step that leaves the record alone and the archive in the same job.
LEMMA GotoKeeps ==
  ASSUME ArchiveTypeOK, NEW r \in Runs, RunInv(r), NEW step \in Step,
         at'[r].step = step, at'[r].job = at[r].job,
         at[r].step \notin {"idle", "settle"}, at[r].job \in {"scenario", "report"},
         step \notin {"idle", "settle", "issues", "attempt", "post", "complete"},
         step \in {"find", "create"} => at[r].job = "scenario",
         row'[r] = row[r], UNCHANGED <<facts, outcome, filed, progress, issues>>
  PROVE  RunInv(r)'
<1>1. RecordInv(r)' /\ CompletedInv(r)'
  BY DEF RunInv, RecordInv, CompletedInv, Conclusive, ReportReady, ScenarioPublished,
     AllIssuesSucceeded
<1>2. PlaceInv(r)'
  BY IdlePlace DEF RunInv, PlaceInv
<1>3. ASSUME NEW b \in Bugs
      PROVE  IssueInv(r, b)'
  BY NamesNotBugs DEF RunInv, IssueInv, Doing
<1> QED BY <1>1, <1>2, <1>3 DEF RunInv

LEMMA PublicationKeeps ==
  ASSUME ArchiveTypeOK, ArchiveTypeOK', NEW r \in Runs, RunInv(r), PublicationStep(r)
  PROVE  RunInv(r)'
<1>0. at[r] \in Place
  BY DEF ArchiveTypeOK
<1>1. ASSUME NEW status, Mark(r, status), Unpublished, at[r].step \notin {"idle", "settle"},
             \/ at[r].job = "scenario" /\ status \in {"published", "pull_request", "failed"}
             \/ at[r].job = "report" /\ status \in {"published", "failed"}
      PROVE  RunInv(r)'
  BY <1>1, MarkKeeps DEF Unpublished, remoteVars
<1>2. ASSUME NEW step \in Step, NEW from, Publishing(r, from), from \notin {"idle", "settle"},
             Goto(r, step), UNCHANGED row, Unpublished,
             step \notin {"idle", "settle", "issues", "attempt", "post", "complete"},
             step \in {"find", "create"} => at[r].job = "scenario"
      PROVE  RunInv(r)'
  <2>1. at'[r].step = step /\ at'[r].job = at[r].job
    BY <1>2, GotoPlace
  <2> QED BY <1>2, <2>1, GotoKeeps DEF Unpublished, remoteVars, Publishing
<1>3. CASE Validate(r)
  BY <1>3, <1>2 DEF Validate, Step
<1>4. CASE Fetch(r)
  <2> DEFINE read == [at EXCEPT ![r].head = branch]
             next == IF Reviewed(r) /\ r \in proposed THEN "find" ELSE "checkout"
  <2>1. at' = [read EXCEPT ![r].step = next]
    BY <1>4 DEF Fetch
  <2>2. /\ read \in [Runs -> Place] /\ read[r].job = at[r].job
    <3>1. at \in [Runs -> Place] /\ branch \in SUBSET Items
      BY DEF ArchiveTypeOK
    <3>2. read[r] = [at[r] EXCEPT !.head = branch]
      BY <3>1
    <3>3. [at[r] EXCEPT !.head = branch].job = at[r].job /\ [at[r] EXCEPT !.head = branch] \in Place
      BY <1>0, <3>1 DEF Place
    <3> QED BY <3>1, <3>2, <3>3
  <2>4. /\ next \in Step /\ next \in {"find", "checkout"}
        /\ next = "find" => at[r].job = "scenario"
    BY DEF Step, Reviewed
  <2> HIDE DEF read, next
  <2>3. at'[r].step = next /\ at'[r].job = at[r].job
    BY <2>1, <2>2, <2>4 DEF Place
  <2> QED BY <1>4, <2>4, <2>3, GotoKeeps DEF Fetch, Unpublished, remoteVars, Publishing
<1>5. CASE Checkout(r)
  BY <1>5, <1>2 DEF Checkout, Step
<1>6. CASE AlreadyPublished(r)
  BY <1>6, <1>1 DEF AlreadyPublished, Publishing
<1>7. CASE PatchDoesNotApply(r)
  BY <1>7, <1>1 DEF PatchDoesNotApply, Publishing
<1>8. CASE Stage(r)
  BY <1>8, <1>2 DEF Stage, Step
<1>9. CASE Commit(r)
  BY <1>9, <1>1, <1>2 DEF Commit, Publishing, Step
<1>10. CASE Recheck(r)
  BY <1>10, <1>1, <1>2 DEF Recheck, Publishing, Step
<1>11. CASE Push(r)
  <2>1. UNCHANGED <<facts, outcome, filed, progress, issues>> /\ Publishing(r, "push")
    BY <1>11 DEF Push
  <2>2. CASE Goto(r, IF Reviewed(r) THEN "find" ELSE "confirm") /\ UNCHANGED <<row, staged, failures>>
    <3> DEFINE next == IF Reviewed(r) THEN "find" ELSE "confirm"
    <3>1. next \in Step /\ next \in {"find", "confirm"} /\ (next = "find" => at[r].job = "scenario")
      BY DEF Step, Reviewed
    <3>2. Goto(r, next)
      BY <2>2
    <3> HIDE DEF next
    <3>3. at'[r].step = next /\ at'[r].job = at[r].job
      BY <3>1, <3>2, GotoPlace
    <3> QED BY <2>1, <2>2, <3>1, <3>3, GotoKeeps DEF Publishing
  <2>3. CASE Mark(r, "failed")
    BY <2>1, <2>3, MarkKeeps DEF Publishing
  <2> QED BY <1>11, <2>2, <2>3 DEF Push
<1>12. CASE PushRefused(r)
  BY <1>12, <1>1 DEF PushRefused, Publishing
<1>13. CASE Confirm(r)
  BY <1>13, <1>1 DEF Confirm, Publishing
<1>14. CASE FindPull(r)
  <2>1. at[r].job = "scenario" /\ at[r].step = "find"
    BY <1>14 DEF FindPull, Publishing, RunInv, PlaceInv
  <2> QED BY <1>14, <2>1, <1>1, <1>2 DEF FindPull, Step
<1>15. CASE CreatePull(r)
  <2>1. at[r].job = "scenario" /\ at[r].step = "create"
    BY <1>15 DEF CreatePull, Publishing, RunInv, PlaceInv
  <2>2. UNCHANGED <<facts, outcome, filed, progress, issues>>
    BY <1>15 DEF CreatePull
  <2>3. CASE Mark(r, "pull_request")
    BY <2>1, <2>2, <2>3, MarkKeeps
  <2>4. CASE Mark(r, "failed")
    BY <2>1, <2>2, <2>4, MarkKeeps
  <2> QED BY <1>15, <2>3, <2>4 DEF CreatePull
<1>16. CASE PullRefused(r)
  <2>1. at[r].job = "scenario" /\ at[r].step = "create"
    BY <1>16 DEF PullRefused, Publishing, RunInv, PlaceInv
  <2> QED BY <1>16, <2>1, <1>1 DEF PullRefused
<1>17. CASE PublicationFails(r)
  BY <1>17, <1>1 DEF PublicationFails, InClone, Publishing
<1> QED BY <1>3, <1>4, <1>5, <1>6, <1>7, <1>8, <1>9, <1>10, <1>11, <1>12, <1>13, <1>14,
        <1>15, <1>16, <1>17 DEF PublicationStep

LEMMA IssueKeeps ==
  ASSUME ArchiveTypeOK, ArchiveTypeOK', NEW r \in Runs, RunInv(r), IssuesStep(r)
  PROVE  RunInv(r)'
<1>0. /\ at[r] \in Place /\ filed[r] \subseteq Bugs /\ issues \in [Runs -> [Bugs -> Nat]]
      /\ issues' \in [Runs -> [Bugs -> Nat]] /\ row[r] \in Record
  BY DEF ArchiveTypeOK
\* The next place, seen from the record.
<1>1. ASSUME NEW b \in Bugs, NEW succeeded \in BOOLEAN, MarkIssue(r, b, succeeded), IssueStep,
             at[r].job = b, at[r].step \in {"attempt", "post"},
             issues[r][b] <= issues'[r][b], issues'[r][b] <= 1,
             \A c \in Bugs \ {b} : issues'[r][c] = issues[r][c],
             succeeded => b \in Linked \/ issues'[r][b] = 1
      PROVE  RunInv(r)'
  <2>1. /\ filed'[r] = IF succeeded THEN filed[r] \cup {b} ELSE filed[r]
        /\ row'[r].known = row[r].known /\ row'[r].patch = row[r].patch
        /\ row'[r].progressed = row[r].progressed /\ row'[r].report = row[r].report
        /\ row'[r].scenario = row[r].scenario
        /\ row'[r].archive \in {row[r].archive, "partial"}
        /\ at'[r].step = "issues" /\ at'[r].job = "none"
    <3>1. MarkIssue(r, b, succeeded)
      BY <1>1
    <3> QED BY <3>1, MarkIssueEffect, Zenon
  <2>2. UNCHANGED <<facts, outcome, progress>>
    BY <1>1 DEF IssueStep
  <2>3. row[r].known /\ outcome[r] \in Unsettled
    BY <1>1, IdlePlace DEF RunInv, PlaceInv
  <2>4. RecordInv(r)'
    BY <2>1, <2>2, <2>3 DEF RunInv, RecordInv
  <2>5. PlaceInv(r)'
    BY <1>1, <2>1, <2>2, <2>3 DEF RunInv, PlaceInv
  <2>6. CompletedInv(r)'
    BY <2>1, <2>2 DEF RunInv, CompletedInv, Conclusive, ReportReady, ScenarioPublished,
       AllIssuesSucceeded
  <2>7. ASSUME NEW c \in Bugs
        PROVE  IssueInv(r, c)'
    <3>1. issues[r][c] \in Nat /\ issues'[r][c] \in Nat
      BY <1>0
    <3>2. CASE c = b
      BY <1>1, <2>1, <2>2, <3>1, <3>2, NamesNotBugs DEF RunInv, IssueInv, Doing
    <3>3. CASE c # b
      BY <1>1, <2>1, <2>2, <3>1, <3>3, NamesNotBugs DEF RunInv, IssueInv, Doing
    <3> QED BY <3>2, <3>3
  <2> QED BY <2>4, <2>5, <2>6, <2>7 DEF RunInv
<1>2. ASSUME NEW step \in {"attempt", "post", "complete"}, at'[r].step = step,
             at[r].step \in {"issues", "attempt"},
             at'[r].job \in {"none"} \cup facts[r].bugs,
             step = "post" => at'[r].job \notin Linked /\ issues[r][at'[r].job] = 0,
             UNCHANGED <<facts, outcome, progress, row, filed, issues>>
      PROVE  RunInv(r)'
  <2>0. facts[r].bugs \subseteq Bugs
    BY LegalRun DEF LegalFacts
  <2>1. RecordInv(r)' /\ CompletedInv(r)'
    BY <1>2 DEF RunInv, RecordInv, CompletedInv, Conclusive, ReportReady, ScenarioPublished,
       AllIssuesSucceeded
  <2>2. PlaceInv(r)'
    BY <1>2, <2>0, IdlePlace, NamesNotBugs DEF RunInv, PlaceInv
  <2>3. ASSUME NEW b \in Bugs
        PROVE  IssueInv(r, b)'
    BY <1>2, NamesNotBugs DEF RunInv, IssueInv, Doing
  <2> QED BY <2>1, <2>2, <2>3 DEF RunInv
<1>3. CASE NextIssue(r)
  <2>1. PICK b \in IssuesLeft(r) : at' = [at EXCEPT ![r].step = "attempt", ![r].job = b]
    BY <1>3 DEF NextIssue
  <2>2. b \in Bugs /\ b \in facts[r].bugs
    BY LegalRun DEF IssuesLeft, LegalFacts
  <2> DEFINE one == [at EXCEPT ![r].step = "attempt"]
  <2>3. one \in [Runs -> Place] /\ one[r].step = "attempt"
    <3>1. at \in [Runs -> Place] /\ "attempt" \in Step
      BY DEF ArchiveTypeOK, Step
    <3>2. one[r] = [at[r] EXCEPT !.step = "attempt"] /\ one \in [Runs -> Place]
      BY <3>1 DEF Place
    <3> QED BY <1>0, <3>1, <3>2 DEF Place
  <2>4. at' = [one EXCEPT ![r].job = b]
    BY <2>1
  <2> HIDE DEF one
  <2>5. at'[r].step = "attempt" /\ at'[r].job = b
    BY <2>2, <2>3, <2>4 DEF Place
  <2>6. UNCHANGED <<facts, outcome, progress, row, filed, issues>> /\ at[r].step = "issues"
    BY <1>3 DEF NextIssue, IssueStep, Doing
  <2> QED BY <1>2, <2>2, <2>5, <2>6
<1>4. CASE IssuesDone(r)
  <2>1. at'[r] = At("complete", "none")
    BY <1>4 DEF IssuesDone, ArchiveTypeOK
  <2>2. UNCHANGED <<facts, outcome, progress, row, filed, issues>> /\ at[r].step = "issues"
    BY <1>4 DEF IssuesDone, IssueStep, Doing
  <2> QED BY <1>2, <2>1, <2>2, AtFields
<1>5. ASSUME NEW b \in Bugs, FindIssue(r, b)
      PROVE  RunInv(r)'
  <2>0. /\ at[r].step = "attempt" /\ at[r].job = b /\ IssueStep
        /\ issues' = issues /\ issues[r][b] \in Nat /\ IssueInv(r, b)
    BY <1>0, <1>5 DEF FindIssue, Doing, RunInv
  <2>1. CASE b \in Linked \/ issues[r][b] > 0
    <3>1. MarkIssue(r, b, TRUE)
      BY <1>5, <2>1 DEF FindIssue
    <3>2. /\ issues'[r][b] <= 1 /\ issues[r][b] <= issues'[r][b]
          /\ b \in Linked \/ issues'[r][b] = 1
          /\ \A c \in Bugs \ {b} : issues'[r][c] = issues[r][c]
      BY <2>0, <2>1 DEF IssueInv
    <3>4. IssueStep /\ at[r].job = b /\ at[r].step \in {"attempt", "post"}
      BY <2>0
    <3>3. \E succeeded \in BOOLEAN : succeeded = TRUE /\ MarkIssue(r, b, succeeded)
      BY <3>1, Zenon
    <3> QED BY <1>1, <3>2, <3>3, <3>4
  <2>2. CASE ~(b \in Linked \/ issues[r][b] > 0)
    <3>1. Goto(r, "post") /\ UNCHANGED <<row, filed>>
      BY <1>5, <2>2 DEF FindIssue
    <3>2. at'[r].step = "post" /\ at'[r].job = b
      BY <2>0, <3>1, GotoPlace DEF Step
    <3> QED BY <1>2, <2>0, <2>2, <3>1, <3>2 DEF IssueInv, IssueStep
  <2> QED BY <2>1, <2>2
<1>6. ASSUME NEW b \in Bugs, CreateIssue(r, b)
      PROVE  RunInv(r)'
  <2>0. /\ at[r].step = "post" /\ at[r].job = b /\ IssueStep
        /\ issues' = [issues EXCEPT ![r][b] = @ + 1]
    BY <1>6, Zenon DEF CreateIssue, Doing
  <2>1. b \notin Linked /\ issues[r][b] = 0
    BY <2>0 DEF RunInv, IssueInv, Doing
  <2>2. issues'[r][b] = 1 /\ \A c \in Bugs \ {b} : issues'[r][c] = issues[r][c]
    BY <1>0, <2>0, <2>1
  <2>3. PICK succeeded \in BOOLEAN : MarkIssue(r, b, succeeded)
    BY <1>6 DEF CreateIssue
  <2> QED BY <1>1, <2>0, <2>1, <2>2, <2>3
<1>7. ASSUME NEW b \in Bugs, IssueFails(r, b)
      PROVE  RunInv(r)'
  <2>1. /\ IssueStep /\ issues' = issues /\ MarkIssue(r, b, FALSE)
        /\ at[r].step \in {"attempt", "post"} /\ at[r].job = b
    BY <1>7, Zenon DEF IssueFails, Doing
  <2>2. issues[r][b] \in Nat /\ issues[r][b] <= 1
    BY <1>0 DEF RunInv, IssueInv
  <2>3. \E succeeded \in BOOLEAN : succeeded = FALSE /\ MarkIssue(r, b, succeeded)
    BY <2>1, Zenon
  <2> QED BY <1>1, <2>1, <2>2, <2>3
<1> QED BY <1>3, <1>4, <1>5, <1>6, <1>7 DEF IssuesStep

LEMMA StartKeeps ==
  ASSUME ArchiveTypeOK, ArchiveTypeOK', NEW r \in Runs, RunInv(r), StartArchive(r)
  PROVE  RunInv(r)'
<1>0. /\ at[r] = Idle /\ outcome[r] \in Unsettled /\ row[r] \in Record
      /\ UNCHANGED <<facts, outcome, filed, progress, issues>>
  BY DEF StartArchive, ArchiveTypeOK, remoteVars
<1>1. CASE /\ row' = [row EXCEPT ![r] = Imported(r)]
           /\ at' = [at EXCEPT ![r] = AfterImport(Imported(r))]
  <2>1. row'[r] = Imported(r) /\ at'[r] = AfterImport(Imported(r))
    BY <1>1 DEF ArchiveTypeOK
  <2>2. /\ Imported(r).known
        /\ row[r].known => Imported(r) = row[r]
        /\ ~row[r].known =>
             Imported(r) = NewRow(r, IF facts[r].patch = "none" THEN "none" ELSE "review")
    BY DEF Imported, NewRow
  <2>3. RecordInv(r)' /\ CompletedInv(r)'
    <3>1. CASE row[r].known
      BY <1>0, <2>1, <2>2, <3>1 DEF RunInv, RecordInv, CompletedInv, Conclusive, ReportReady,
         ScenarioPublished, AllIssuesSucceeded
    <3>2. CASE ~row[r].known
      BY <1>0, <2>1, <2>2, <3>2 DEF NewRow, RunInv, RecordInv, CompletedInv, Conclusive
    <3> QED BY <3>1, <3>2
  <2>4. PlaceInv(r)'
    <3>1. row'[r].known /\ RecordInv(r)' /\ at'[r] = AfterImport(row'[r])
      BY <2>1, <2>2, <2>3
    <3>2. \/ at'[r] = At("settle", "none") /\ row'[r].archive = "completed"
          \/ at'[r] = At("validate", "scenario") /\ ScenarioOpen(row'[r])
          \/ at'[r] = At("fetch", "report") /\ ~ScenarioOpen(row'[r])
               /\ row'[r].report # "not_applicable"
          \/ at'[r] = At("issues", "none") /\ ~ScenarioOpen(row'[r])
      BY <3>1, AfterImportPlace
    <3> QED BY <1>0, <3>1, <3>2, AtFields DEF PlaceInv, RecordInv, ScenarioOpen
  <2>5. ASSUME NEW b \in Bugs
        PROVE  IssueInv(r, b)'
    <3>1. at'[r].job \notin Bugs
      BY <2>1, AfterImportPlace, AtFields, NamesNotBugs
    <3> QED BY <1>0, <3>1 DEF RunInv, IssueInv, Doing
  <2> QED BY <2>3, <2>4, <2>5 DEF RunInv
<1>2. CASE /\ row' = IF row[r].known THEN [row EXCEPT ![r].archive = "failed"] ELSE row
           /\ at' = [at EXCEPT ![r] = At("settle", "none")]
  <2>1. at'[r] = At("settle", "none")
    BY <1>2 DEF ArchiveTypeOK
  <2>2. /\ row'[r].known = row[r].known /\ row'[r].patch = row[r].patch
        /\ row'[r].progressed = row[r].progressed /\ row'[r].report = row[r].report
        /\ row'[r].scenario = row[r].scenario
        /\ row[r].known => row'[r].archive = "failed"
        /\ ~row[r].known => row'[r] = row[r]
    <3>1. CASE row[r].known
      BY <1>0, <1>2, <3>1 DEF ArchiveTypeOK, Record
    <3>2. CASE ~row[r].known
      BY <1>2, <3>2
    <3> QED BY <3>1, <3>2
  <2>3. RecordInv(r)' /\ PlaceInv(r)'
    BY <1>0, <2>1, <2>2, AtFields DEF RunInv, RecordInv, PlaceInv
  <2>4. CompletedInv(r)'
    BY <1>0, <2>2 DEF RunInv, CompletedInv, Conclusive, ReportReady, ScenarioPublished,
       AllIssuesSucceeded
  <2>5. ASSUME NEW b \in Bugs
        PROVE  IssueInv(r, b)'
    BY <1>0, <2>1, AtFields, NamesNotBugs DEF RunInv, IssueInv, Doing
  <2> QED BY <2>3, <2>4, <2>5 DEF RunInv
<1> QED BY <1>1, <1>2 DEF StartArchive

LEMMA EndRunKeeps ==
  ASSUME ArchiveTypeOK, ArchiveTypeOK', NEW r \in Runs, RunInv(r), EndRun(r)
  PROVE  RunInv(r)'
<1>0. /\ outcome[r] = "none" /\ outcome'[r] = "waiting" /\ row \in [Runs -> Record]
      /\ UNCHANGED <<facts, filed, progress, issues, at>>
  BY DEF EndRun, ArchiveTypeOK, remoteVars
<1>1. at[r] = Idle
  BY <1>0 DEF RunInv, PlaceInv, Unsettled
<1>2. row'[r] = row[r] \/ row'[r] = NewRow(r, facts[r].patch)
  BY <1>0 DEF EndRun
<1>3. RecordInv(r)' /\ CompletedInv(r)'
  <2>1. CASE row'[r] = row[r]
    BY <1>0, <2>1 DEF RunInv, RecordInv, CompletedInv, Conclusive, ReportReady,
       ScenarioPublished, AllIssuesSucceeded
  <2>2. CASE row'[r] = NewRow(r, facts[r].patch)
    BY <1>0, <2>2 DEF NewRow, RecordInv, CompletedInv, Conclusive
  <2> QED BY <1>2, <2>1, <2>2
<1>4. PlaceInv(r)'
  BY <1>0, <1>1, IdlePlace DEF PlaceInv, Unsettled
<1>5. ASSUME NEW b \in Bugs
      PROVE  IssueInv(r, b)'
  BY <1>0 DEF RunInv, IssueInv, Doing
<1> QED BY <1>3, <1>4, <1>5 DEF RunInv

\* A completed archive has published what it found, and covers its Run.
LEMMA CompleteKeeps ==
  ASSUME ArchiveTypeOK, ArchiveTypeOK', NEW r \in Runs, RunInv(r), CompleteArchive(r)
  PROVE  RunInv(r)'
<1>0. /\ at[r].step = "complete" /\ at[r].job = "none" /\ row[r].known
      /\ UNCHANGED <<facts, outcome, filed, issues>>
      /\ at'[r].step = "settle" /\ at'[r].job = "none"
      /\ progress \in Nat /\ r \in Nat
      /\ progress' = IF Moves(r) THEN r ELSE progress
  BY ArchiveAssumption, GotoPlace
     DEF CompleteArchive, Doing, RunInv, PlaceInv, remoteVars, ArchiveTypeOK, Runs, Step
<1>1. /\ row'[r].known = row[r].known /\ row'[r].patch = row[r].patch
      /\ row'[r].report = row[r].report /\ row'[r].scenario = row[r].scenario
      /\ row'[r].progressed = (row[r].progressed \/ Moves(r))
      /\ row'[r].archive = IF ReportReady(r) /\ ScenarioReady(r) /\ AllIssuesSucceeded(r)
                           THEN "completed" ELSE "partial"
  BY CompleteEffect
<1>2. RecordInv(r)'
  BY <1>0, <1>1 DEF RunInv, RecordInv
<1>3. PlaceInv(r)'
  BY <1>0, <1>1, IdlePlace DEF RunInv, PlaceInv
<1>4. progress <= progress' /\ (row'[r].progressed => progress' >= r)
  <2>1. row'[r].progressed => row[r].progressed \/ Moves(r)
    BY <1>1, Zenon
  <2>2. Moves(r) => progress <= r
    BY DEF Moves
  <2>3. row[r].progressed => progress >= r
    BY DEF RunInv, CompletedInv
  <2>4. CASE Moves(r)
    BY <1>0, <2>2, <2>4
  <2>5. CASE ~Moves(r)
    BY <1>0, <2>1, <2>3, <2>5
  <2> QED BY <2>4, <2>5
<1>5. ASSUME row'[r].archive = "completed"
      PROVE  /\ ReportReady(r)' /\ ScenarioPublished(r)' /\ AllIssuesSucceeded(r)'
             /\ Conclusive(r)' => progress' >= r
  <2>1. ReportReady(r) /\ ScenarioReady(r) /\ AllIssuesSucceeded(r)
    BY <1>1, <1>5
  <2>2. ScenarioPublished(r)
    BY <1>0, <2>1 DEF RunInv, PlaceInv, ScenarioReady, ScenarioPublished
  <2>3. ASSUME Conclusive(r)
        PROVE  progress' >= r
    <3>1. ~facts[r].special
      BY <2>3, LegalRun DEF Conclusive, LegalFacts
    <3>2. CanProgress(r)
      BY <1>0, <2>1, <2>3, <3>1 DEF RunInv, RecordInv, ReportReady, Conclusive, CanProgress
    <3>3. CASE row[r].progressed
      BY <1>1, <1>4, <3>3
    <3>4. CASE ~row[r].progressed
      BY <1>0, <3>2, <3>4 DEF Moves
    <3> QED BY <3>3, <3>4
  <2> QED BY <1>0, <1>1, <2>1, <2>2, <2>3 DEF ReportReady, ScenarioPublished, AllIssuesSucceeded,
          Conclusive
<1>6. CompletedInv(r)'
  <2>1. outcome'[r] = "completed" /\ Conclusive(r)' => progress' >= r
    BY <1>0, <1>4 DEF RunInv, CompletedInv, Conclusive
  <2> QED BY <1>4, <1>5, <2>1 DEF CompletedInv
<1>7. ASSUME NEW b \in Bugs
      PROVE  IssueInv(r, b)'
  BY <1>0, NamesNotBugs DEF RunInv, IssueInv, Doing
<1> QED BY <1>2, <1>3, <1>6, <1>7 DEF RunInv

LEMMA SettleKeeps ==
  ASSUME ArchiveTypeOK, ArchiveTypeOK', NEW r \in Runs, RunInv(r), Settle(r)
  PROVE  RunInv(r)'
<1>0. /\ at'[r] = Idle
      /\ outcome'[r] = IF row[r].known THEN row[r].archive ELSE "failed"
      /\ UNCHANGED <<facts, row, filed, progress, issues>>
  BY DEF Settle, ArchiveTypeOK, storeVars, remoteVars
<1>1. RecordInv(r)' /\ PlaceInv(r)'
  BY <1>0, IdlePlace DEF RunInv, RecordInv, PlaceInv
<1>2. CompletedInv(r)'
  BY <1>0 DEF RunInv, CompletedInv, Conclusive, ReportReady, ScenarioPublished,
     AllIssuesSucceeded
<1>3. ASSUME NEW b \in Bugs
      PROVE  IssueInv(r, b)'
  BY <1>0, IdlePlace, NamesNotBugs DEF RunInv, IssueInv, Doing
<1> QED BY <1>1, <1>2, <1>3 DEF RunInv
-----------------------------------------------------------------------------
(***************************************************************************)
(* The inductive invariant, for any number of archives at once.            *)
(***************************************************************************)
LEMMA ArchiveInvInit == Init => ArchiveInv
<1> SUFFICES ASSUME Init PROVE ArchiveInv
  OBVIOUS
<1>1. ArchiveTypeOK
  <2>1. NoRow \in Record
    BY DEF NoRow, Record, Patch
  <2>2. [created |-> 0, open |-> FALSE] \in [created: Nat, open: BOOLEAN]
    OBVIOUS
  <2> QED BY ArchiveAssumption, IdlePlace, <2>1, <2>2 DEF Init, ArchiveTypeOK
<1>2. ASSUME NEW r \in Runs
      PROVE  RunInv(r)
  <2>0. /\ row[r] = NoRow /\ at[r] = Idle /\ outcome[r] = "none" /\ filed[r] = {}
        /\ \A b \in Bugs : issues[r][b] = 0
    BY DEF Init
  <2>1. RecordInv(r) /\ PlaceInv(r)
    BY <2>0, IdlePlace DEF RecordInv, PlaceInv, NoRow
  <2>2. CompletedInv(r)
    BY <2>0 DEF CompletedInv, NoRow
  <2>3. ASSUME NEW b \in Bugs
        PROVE  IssueInv(r, b)
    BY <2>0, IdlePlace, NamesNotBugs DEF IssueInv, Doing
  <2> QED BY <2>1, <2>2, <2>3 DEF RunInv
<1> QED BY <1>1, <1>2 DEF ArchiveInv

LEMMA SameStateKeeps ==
  ASSUME ArchiveInv, UNCHANGED vars
  PROVE  ArchiveInv' /\ Grows
<1>1. ArchiveTypeOK' /\ Grows
  BY ArchiveAssumption DEF ArchiveInv, vars, storeVars, remoteVars, cloneVars, boundVars,
     ArchiveTypeOK, Grows
<1>2. ASSUME NEW s \in Runs
      PROVE  RunInv(s)'
  BY <1>1, OthersKeep DEF ArchiveInv, vars, storeVars, remoteVars, cloneVars, boundVars
<1> QED BY <1>1, <1>2 DEF ArchiveInv

\* A step of one Run.
RunStep(r) == EndRun(r) \/ StartArchive(r) \/ ArchiveStep(r)

LEMMA RunStepFrame ==
  ASSUME ArchiveInv, NEW r \in Runs, RunStep(r)
  PROVE  ArchiveTypeOK' /\ Frame(r) /\ Grows
<1>1. ArchiveTypeOK /\ RunInv(r)
  BY DEF ArchiveInv
<1>2. CASE PublicationStep(r)
  BY <1>1, <1>2, PublicationTypes DEF RunInv
<1>3. CASE Settle(r)
  <2>1. row[r].archive # "pending" \/ ~row[r].known
    BY <1>1, <1>3 DEF Settle, Doing, RunInv, PlaceInv
  <2> QED BY <1>1, <1>3, <2>1, SettleTypes
<1> QED BY <1>1, <1>2, <1>3, EndRunTypes, StartTypes, IssueTypes, CompleteTypes
        DEF RunStep, ArchiveStep

LEMMA RunStepKeeps ==
  ASSUME ArchiveInv, NEW r \in Runs, RunStep(r)
  PROVE  ArchiveInv'
<1>1. ArchiveTypeOK /\ ArchiveTypeOK' /\ Frame(r) /\ Grows
  BY RunStepFrame DEF ArchiveInv
<1>2. RunInv(r)'
  BY <1>1, PublicationKeeps, IssueKeeps, CompleteKeeps, SettleKeeps, StartKeeps, EndRunKeeps
     DEF ArchiveInv, RunStep, ArchiveStep
<1>3. ASSUME NEW s \in Runs, s # r
      PROVE  RunInv(s)'
  BY <1>1, <1>3, OthersKeep DEF ArchiveInv, Frame
<1> QED BY <1>1, <1>2, <1>3 DEF ArchiveInv

LEMMA ArchiveInvStep ==
  ASSUME ArchiveInv, [Next]_vars
  PROVE  ArchiveInv' /\ Grows
<1>1. CASE UNCHANGED vars
  BY <1>1, SameStateKeeps
<1>2. ASSUME NEW r \in Runs, RunStep(r)
      PROVE  ArchiveInv' /\ Grows
  BY <1>2, RunStepFrame, RunStepKeeps
<1>3. CASE (\E r \in Runs : MergePull(r) \/ ClosePull(r)) \/ OthersPush \/ RunChecksOut \/ Crash
  <2>1. ArchiveTypeOK /\ ArchiveTypeOK' /\ Grows
    BY <1>3, EnvironmentTypes DEF ArchiveInv
  <2>2. ASSUME NEW s \in Runs
        PROVE  RunInv(s)'
    <3>1. /\ row'[s] = row[s] /\ outcome'[s] = outcome[s] /\ filed'[s] = filed[s]
          /\ issues'[s] = issues[s] /\ at'[s] \in {at[s], Idle}
      BY <1>3, <2>1, EnvironmentTypes
    <3> QED BY <2>1, <3>1, OthersKeep DEF ArchiveInv
  <2> QED BY <2>1, <2>2 DEF ArchiveInv
<1> QED BY <1>1, <1>2, <1>3 DEF Next, RunStep

\* What the record, the place, the baseline and the Issues of every Run say of
\* each other holds in every state, for any number of archives at once.
THEOREM ArchiveInvariant == Spec => []ArchiveInv
<1>1. Init => ArchiveInv
  BY ArchiveInvInit
<1>2. ArchiveInv /\ [Next]_vars => ArchiveInv'
  BY ArchiveInvStep
<1> QED BY <1>1, <1>2, PTL DEF Spec

\* Every variable of the archives and their surroundings keeps its type.
THEOREM ArchiveTypeCorrect == Spec => []ArchiveTypeOK
<1>1. ArchiveInv => ArchiveTypeOK
  BY DEF ArchiveInv
<1> QED BY <1>1, ArchiveInvariant, PTL

\* No bug gets a second Issue, whatever archives overlap, fail, lose answers or
\* crash, and none is recorded that was not created.
THEOREM IssueFiledOnceCorrect == Spec => []IssueFiledOnce
<1>1. ArchiveInv => IssueFiledOnce
  BY DEF ArchiveInv, RunInv, IssueInv, IssueFiledOnce
<1> QED BY <1>1, ArchiveInvariant, PTL

\* The baseline never goes back to an older Run.
THEOREM BaselineForwardCorrect == Spec => BaselineForward
<1>1. ArchiveInv /\ [Next]_vars => [progress' >= progress]_vars
  <2> SUFFICES ASSUME ArchiveInv, [Next]_vars
               PROVE  progress' >= progress
    OBVIOUS
  <2>1. Grows /\ progress \in Nat /\ progress' \in Nat
    BY ArchiveInvStep, ArchiveAssumption DEF ArchiveInv, ArchiveTypeOK
  <2> QED BY <2>1 DEF Grows
<1> QED BY <1>1, ArchiveInvariant, PTL DEF Spec, BaselineForward

\* A conclusive Run whose archive is closed is covered by the baseline.
THEOREM BaselineCoversCorrect == Spec => []BaselineCovers
<1>1. ArchiveInv => BaselineCovers
  <2> SUFFICES ASSUME ArchiveInv, NEW r \in Runs, outcome[r] = "completed",
                      facts[r].result # "blocked"
               PROVE  progress >= r
    BY DEF BaselineCovers
  <2>1. facts[r].result \in {"passed", "failed"}
    BY LegalRun DEF ArchiveInv, LegalFacts, Result
  <2> QED BY <2>1 DEF ArchiveInv, RunInv, CompletedInv, Conclusive
<1> QED BY <1>1, ArchiveInvariant, PTL
-----------------------------------------------------------------------------
(***************************************************************************)
(* One pull request per Run, when reviewers wait until it is recorded.     *)
(***************************************************************************)
\* A pull request that was created is still open or recorded, and the archive
\* that publishes the patch has not recorded one.
PullInv(r) ==
    /\ pulls[r].created <= 1
    /\ pulls[r].created > 0 => row[r].scenario = "pull_request" \/ pulls[r].open
    /\ pulls[r].created > 0 => outcome[r] # "none"
    /\ at[r].job = "scenario" => row[r].scenario # "pull_request"
    /\ at[r].step = "create" => ~pulls[r].open

PullsInv == ArchiveInv /\ \A r \in Runs : PullInv(r)

LEMMA PullPublication ==
  ASSUME ArchiveInv, NEW r \in Runs, PullInv(r), PublicationStep(r)
  PROVE  PullInv(r)'
<1>0. /\ ArchiveTypeOK /\ PlaceInv(r) /\ at[r] \in Place
      /\ pulls[r] \in [created: Nat, open: BOOLEAN]
  BY DEF ArchiveInv, RunInv, ArchiveTypeOK
<1>1. ASSUME NEW status, Mark(r, status), outcome'[r] = outcome[r],
             pulls'[r].created <= 1,
             pulls'[r].created > 0 => pulls'[r].open \/ row[r].scenario = "pull_request",
             pulls'[r].created > 0 => outcome[r] # "none",
             \/ at[r].job = "scenario" /\ status \in {"published", "pull_request", "failed"}
             \/ at[r].job = "report" /\ status \in {"published", "failed"}
      PROVE  PullInv(r)'
  <2>1. /\ at'[r].job # "scenario" /\ at'[r].step # "create"
        /\ at[r].job = "report" => row'[r].scenario = row[r].scenario
    BY <1>0, <1>1, MarkEffect, AtFields
  <2> QED BY <1>1, <2>1 DEF PullInv
<1>2. ASSUME NEW status, Mark(r, status), Unpublished,
             \/ at[r].job = "scenario" /\ status \in {"published", "pull_request", "failed"}
             \/ at[r].job = "report" /\ status \in {"published", "failed"}
      PROVE  PullInv(r)'
  BY <1>1, <1>2 DEF Unpublished, remoteVars, PullInv
<1>3. ASSUME at'[r].job = at[r].job, at'[r].step = "create" => ~pulls[r].open,
             UNCHANGED <<row, pulls, outcome>>
      PROVE  PullInv(r)'
  BY <1>3 DEF PullInv
<1>4. ASSUME NEW step \in Step, Goto(r, step), step # "create", UNCHANGED row, Unpublished
      PROVE  PullInv(r)'
  BY <1>0, <1>3, <1>4, GotoPlace DEF Unpublished, remoteVars
<1>5. CASE Validate(r) \/ Checkout(r) \/ Stage(r)
  BY <1>4, <1>5 DEF Validate, Checkout, Stage, Step
<1>6. CASE Fetch(r)
  <2> DEFINE read == [at EXCEPT ![r].head = branch]
             next == IF Reviewed(r) /\ r \in proposed THEN "find" ELSE "checkout"
  <2>1. at' = [read EXCEPT ![r].step = next]
    BY <1>6 DEF Fetch
  <2>2. read \in [Runs -> Place] /\ read[r].job = at[r].job
    <3>1. at \in [Runs -> Place] /\ branch \in SUBSET Items
      BY <1>0 DEF ArchiveTypeOK
    <3>2. read[r] = [at[r] EXCEPT !.head = branch]
      BY <3>1
    <3>3. [at[r] EXCEPT !.head = branch].job = at[r].job /\ [at[r] EXCEPT !.head = branch] \in Place
      BY <1>0, <3>1 DEF Place
    <3> QED BY <3>1, <3>2, <3>3
  <2>3. next \in Step /\ next # "create"
    BY DEF Step
  <2> HIDE DEF read, next
  <2>4. at'[r].step = next /\ at'[r].job = at[r].job
    BY <2>1, <2>2, <2>3 DEF Place
  <2> QED BY <1>3, <1>6, <2>3, <2>4 DEF Fetch, Unpublished, remoteVars
<1>7. CASE AlreadyPublished(r) \/ PatchDoesNotApply(r) \/ PushRefused(r) \/ Confirm(r)
  BY <1>2, <1>7 DEF AlreadyPublished, PatchDoesNotApply, PushRefused, Confirm, Publishing
<1>8. CASE Commit(r) \/ Recheck(r)
  BY <1>2, <1>4, <1>8 DEF Commit, Recheck, Publishing, Step
<1>9. CASE Push(r)
  <2>1. UNCHANGED <<outcome, pulls>> /\ Publishing(r, "push")
    BY <1>9 DEF Push
  <2>2. CASE Goto(r, IF Reviewed(r) THEN "find" ELSE "confirm") /\ UNCHANGED row
    <3> DEFINE next == IF Reviewed(r) THEN "find" ELSE "confirm"
    <3>1. next \in Step /\ next # "create" /\ Goto(r, next)
      BY <2>2 DEF Step
    <3> HIDE DEF next
    <3>2. at'[r].step = next /\ at'[r].job = at[r].job
      BY <1>0, <3>1, GotoPlace
    <3> QED BY <1>3, <2>1, <2>2, <3>1, <3>2
  <2>3. CASE Mark(r, "failed")
    BY <1>1, <2>1, <2>3 DEF Publishing, PullInv
  <2> QED BY <1>9, <2>2, <2>3 DEF Push
<1>10. CASE FindPull(r)
  <2>1. at[r].job = "scenario"
    BY <1>0, <1>10 DEF FindPull, Publishing, PlaceInv
  <2>2. CASE pulls[r].open
    BY <1>2, <1>10, <2>1, <2>2 DEF FindPull
  <2>3. CASE ~pulls[r].open
    <3>1. Goto(r, "create") /\ UNCHANGED <<row, pulls, outcome>>
      BY <1>10, <2>3 DEF FindPull, Unpublished, remoteVars
    <3> QED BY <1>0, <1>3, <2>3, <3>1, GotoPlace DEF Step
  <2> QED BY <2>2, <2>3
<1>11. CASE CreatePull(r)
  <2>1. at[r].job = "scenario" /\ at[r].step = "create" /\ outcome[r] # "none"
    BY <1>0, <1>11, IdlePlace DEF CreatePull, Publishing, PlaceInv, Unsettled
  <2>2. pulls[r].created = 0
    BY <1>0, <2>1 DEF PullInv
  <2>3. pulls'[r].created = 1 /\ pulls'[r].open /\ outcome'[r] = outcome[r]
    BY <1>0, <1>11, <2>2 DEF CreatePull, ArchiveTypeOK
  <2>4. CASE Mark(r, "pull_request")
    BY <1>1, <2>1, <2>3, <2>4
  <2>5. CASE Mark(r, "failed")
    BY <1>1, <2>1, <2>3, <2>5
  <2> QED BY <1>11, <2>4, <2>5 DEF CreatePull
<1>12. CASE PullRefused(r)
  BY <1>0, <1>2, <1>12 DEF PullRefused, Publishing
<1>13. CASE PublicationFails(r)
  BY <1>2, <1>13 DEF PublicationFails, Publishing
<1> QED BY <1>5, <1>6, <1>7, <1>8, <1>9, <1>10, <1>11, <1>12, <1>13 DEF PublicationStep

LEMMA PullQuiet ==
  ASSUME ArchiveInv, NEW r \in Runs, PullInv(r), RunStep(r), ~PublicationStep(r)
  PROVE  PullInv(r)'
<1>0. /\ ArchiveTypeOK /\ RecordInv(r) /\ PlaceInv(r) /\ UNCHANGED pulls
      /\ pulls[r] \in [created: Nat, open: BOOLEAN]
  BY DEF ArchiveInv, RunInv, RunStep, ArchiveStep, EndRun, StartArchive, IssuesStep, NextIssue,
     IssuesDone, FindIssue, CreateIssue, IssueFails, IssueStep, CompleteArchive, Settle,
     remoteVars, cloneVars, ArchiveTypeOK
<1>1. ASSUME row'[r].scenario = row[r].scenario, at'[r].job # "scenario",
             at'[r].step # "create", outcome'[r] # "none"
      PROVE  PullInv(r)'
  BY <1>0, <1>1 DEF PullInv
<1>2. CASE EndRun(r)
  <2>1. pulls[r].created = 0
    BY <1>0, <1>2 DEF EndRun, PullInv
  <2>2. at'[r] = Idle
    BY <1>0, <1>2 DEF EndRun, PlaceInv, Unsettled
  <2> QED BY <1>0, <2>1, <2>2, IdlePlace DEF PullInv
<1>3. CASE StartArchive(r)
  <2>0. outcome'[r] = outcome[r] /\ outcome[r] # "none"
    BY <1>3 DEF StartArchive, Unsettled
  <2>1. CASE /\ row' = [row EXCEPT ![r] = Imported(r)]
             /\ at' = [at EXCEPT ![r] = AfterImport(Imported(r))]
    <3>1. row'[r] = Imported(r) /\ at'[r] = AfterImport(Imported(r))
      BY <1>0, <2>1 DEF ArchiveTypeOK
    <3>2. row[r].scenario = "pull_request" => row'[r].scenario = "pull_request"
      BY <1>0, <3>1 DEF Imported, RecordInv, NoRow
    <3>3. /\ at'[r].step # "create"
          /\ at'[r].job = "scenario" => row'[r].scenario # "pull_request"
      BY <3>1, AfterImportPlace, AtFields DEF ScenarioOpen
    <3> QED BY <1>0, <2>0, <3>2, <3>3 DEF PullInv
  <2>2. CASE /\ row' = IF row[r].known THEN [row EXCEPT ![r].archive = "failed"] ELSE row
             /\ at' = [at EXCEPT ![r] = At("settle", "none")]
    <3>1. at'[r] = At("settle", "none")
      BY <1>0, <2>2 DEF ArchiveTypeOK
    <3>2. row'[r].scenario = row[r].scenario
      <4>1. row \in [Runs -> Record]
        BY <1>0 DEF ArchiveTypeOK
      <4>2. CASE row[r].known
        BY <2>2, <4>1, <4>2 DEF Record
      <4> QED BY <2>2, <4>1, <4>2
    <3> QED BY <1>1, <2>0, <3>1, <3>2, AtFields
  <2> QED BY <1>3, <2>1, <2>2 DEF StartArchive
<1>4. CASE IssuesStep(r)
  <2>0. /\ at[r] # Idle /\ outcome' = outcome /\ outcome[r] # "none"
        /\ \A b \in Bugs : b # "scenario"
    <3>1. at[r].step # "idle" /\ outcome' = outcome
      BY <1>4 DEF IssuesStep, NextIssue, IssuesDone, FindIssue, CreateIssue, IssueFails, Doing,
         IssueStep
    <3> QED BY <1>0, <3>1, IdlePlace, NamesNotBugs DEF PlaceInv, Unsettled
  <2>1. ASSUME NEW b \in Bugs, NEW succeeded \in BOOLEAN, MarkIssue(r, b, succeeded)
        PROVE  PullInv(r)'
    <3>0. ArchiveTypeOK
      BY <1>0
    <3>1. /\ row'[r].scenario = row[r].scenario
          /\ at'[r].step = "issues" /\ at'[r].job = "none"
      BY <2>1, <3>0, MarkIssueEffect, Zenon
    <3> QED BY <1>1, <2>0, <3>1
  <2>2. CASE NextIssue(r)
    <3>1. PICK b \in IssuesLeft(r) : at' = [at EXCEPT ![r].step = "attempt", ![r].job = b]
      BY <2>2 DEF NextIssue
    <3>2. b \in Bugs
      BY <1>0, LegalRun DEF IssuesLeft, LegalFacts
    <3> DEFINE one == [at EXCEPT ![r].step = "attempt"]
    <3>3. one \in [Runs -> Place] /\ one[r].step = "attempt"
      <4>1. at \in [Runs -> Place] /\ "attempt" \in Step /\ at[r] \in Place
        BY <1>0 DEF ArchiveTypeOK, Step
      <4>2. one[r] = [at[r] EXCEPT !.step = "attempt"] /\ one \in [Runs -> Place]
        BY <4>1 DEF Place
      <4> QED BY <4>1, <4>2 DEF Place
    <3>4. at' = [one EXCEPT ![r].job = b]
      BY <3>1
    <3> HIDE DEF one
    <3>5. at'[r].step = "attempt" /\ at'[r].job = b
      BY <3>2, <3>3, <3>4 DEF Place
    <3> QED BY <1>1, <2>0, <2>2, <3>2, <3>5 DEF NextIssue
  <2>3. CASE IssuesDone(r)
    <3>1. at'[r] = At("complete", "none")
      BY <1>0, <2>3 DEF IssuesDone, ArchiveTypeOK
    <3> QED BY <1>1, <2>0, <2>3, <3>1, AtFields DEF IssuesDone
  <2>4. ASSUME NEW b \in Bugs, FindIssue(r, b)
        PROVE  PullInv(r)'
    <3>1. CASE MarkIssue(r, b, TRUE)
      <4>1. \E succeeded \in BOOLEAN : MarkIssue(r, b, succeeded)
        BY <3>1, Zenon
      <4> QED BY <2>1, <4>1
    <3>2. CASE Goto(r, "post") /\ UNCHANGED <<row, filed>>
      <4>1. at'[r].step = "post" /\ at'[r].job = b
        BY <1>0, <2>4, <3>2, GotoPlace DEF Step, FindIssue, Doing
      <4> QED BY <1>1, <2>0, <3>2, <4>1
    <3> QED BY <2>4, <3>1, <3>2 DEF FindIssue
  <2>5. ASSUME NEW b \in Bugs, CreateIssue(r, b) \/ IssueFails(r, b)
        PROVE  PullInv(r)'
    <3>1. \E succeeded \in BOOLEAN : MarkIssue(r, b, succeeded)
      BY <2>5 DEF CreateIssue, IssueFails
    <3> QED BY <2>1, <3>1
  <2> QED BY <1>4, <2>2, <2>3, <2>4, <2>5 DEF IssuesStep
<1>5. CASE CompleteArchive(r)
  <2>1. row'[r].scenario = row[r].scenario
    BY <1>0, <1>5, CompleteEffect
  <2>2. at'[r].step = "settle" /\ at'[r].job = "none"
    BY <1>0, <1>5, GotoPlace DEF CompleteArchive, Step, Doing
  <2>3. outcome'[r] # "none"
    BY <1>0, <1>5, IdlePlace DEF CompleteArchive, Doing, PlaceInv, Unsettled
  <2> QED BY <1>1, <2>1, <2>2, <2>3
<1>6. CASE Settle(r)
  <2>1. UNCHANGED row /\ at'[r] = Idle
    BY <1>0, <1>6 DEF Settle, storeVars, ArchiveTypeOK
  <2>2. outcome[r] \in {"waiting", "partial", "failed"} /\ row[r] \in Record
    BY <1>0, <1>6, IdlePlace DEF Settle, Doing, PlaceInv, Unsettled, ArchiveTypeOK
  <2>3. outcome'[r] = IF row[r].known THEN row[r].archive ELSE "failed"
    BY <1>0, <1>6 DEF Settle, ArchiveTypeOK
  <2>4. outcome'[r] # "none"
    BY <2>2, <2>3 DEF Record
  <2> QED BY <1>1, <2>1, <2>4, IdlePlace
<1> QED BY <1>2, <1>3, <1>4, <1>5, <1>6 DEF RunStep, ArchiveStep

LEMMA PullsInvStep ==
  ASSUME ReviewersWait, PullsInv, [Next]_vars
  PROVE  PullsInv'
<1>0. ArchiveInv /\ ArchiveInv'
  BY ArchiveInvStep DEF PullsInv
<1>1. CASE UNCHANGED vars
  BY <1>0, <1>1 DEF PullsInv, PullInv, vars, storeVars, remoteVars
<1>2. ASSUME NEW r \in Runs, RunStep(r)
      PROVE  PullsInv'
  <2>1. PullInv(r)'
    BY <1>0, <1>2, PullPublication, PullQuiet DEF PullsInv
  <2>2. ASSUME NEW s \in Runs, s # r
        PROVE  PullInv(s)'
    <3>1. /\ row'[s] = row[s] /\ at'[s] = at[s] /\ outcome'[s] = outcome[s]
          /\ pulls'[s] = pulls[s]
      BY <1>0, <1>2, <2>2, RunStepFrame DEF Frame
    <3> QED BY <3>1 DEF PullsInv, PullInv
  <2> QED BY <1>0, <2>1, <2>2 DEF PullsInv
<1>3. CASE (\E r \in Runs : MergePull(r) \/ ClosePull(r)) \/ OthersPush \/ RunChecksOut \/ Crash
  <2>1. ASSUME NEW s \in Runs
        PROVE  PullInv(s)'
    <3>1. /\ row'[s] = row[s] /\ outcome'[s] = outcome[s] /\ at'[s] \in {at[s], Idle}
          /\ pulls'[s].created = pulls[s].created
          /\ pulls'[s].open => pulls[s].open
      BY <1>0, <1>3, EnvironmentTypes DEF ArchiveInv
    <3>2. pulls[s].open => pulls'[s].open \/ row[s].scenario = "pull_request"
      <4>1. ASSUME NEW r \in Runs, MergePull(r) \/ ClosePull(r)
            PROVE  pulls'[s] = pulls[s] \/ row[s].scenario = "pull_request"
        <5>1. pulls' = [pulls EXCEPT ![r].open = FALSE] /\ row[r].scenario = "pull_request"
          BY <4>1 DEF MergePull, ClosePull, Reviewable
        <5>2. pulls \in [Runs -> [created: Nat, open: BOOLEAN]]
          BY <1>0 DEF ArchiveInv, ArchiveTypeOK
        <5> QED BY <5>1, <5>2
      <4>2. CASE OthersPush \/ RunChecksOut \/ Crash
        BY <4>2 DEF OthersPush, RunChecksOut, Crash, remoteVars
      <4> QED BY <1>3, <4>1, <4>2
    <3>3. pulls[s] \in [created: Nat, open: BOOLEAN] /\ PullInv(s)
      BY <1>0 DEF PullsInv, ArchiveInv, ArchiveTypeOK
    <3> QED BY <3>1, <3>2, <3>3, IdlePlace DEF PullInv
  <2> QED BY <1>0, <2>1 DEF PullsInv
<1> QED BY <1>1, <1>2, <1>3 DEF Next, RunStep

\* No Run gets a second pull request when reviewers wait until the first is
\* recorded, whatever answers are lost, however archives overlap or crash.
THEOREM OnePullRequestCorrect ==
  ASSUME ReviewersWait
  PROVE  Spec => []OnePullRequest
<1>1. Init => PullsInv
  <2> SUFFICES ASSUME Init PROVE PullsInv
    OBVIOUS
  <2>1. ASSUME NEW r \in Runs
        PROVE  PullInv(r)
    BY IdlePlace DEF Init, PullInv, NoRow
  <2> QED BY <2>1, ArchiveInvInit DEF PullsInv
<1>2. PullsInv /\ [Next]_vars => PullsInv'
  BY PullsInvStep
<1>3. PullsInv => OnePullRequest
  BY DEF PullsInv, PullInv, OnePullRequest
<1> QED BY <1>1, <1>2, <1>3, PTL DEF Spec
-----------------------------------------------------------------------------
(***************************************************************************)
(* One archive at a time in the clone.                                     *)
(***************************************************************************)
LEMMA ArchiveStepBusy ==
  ASSUME NEW r \in Runs, ArchiveStep(r)
  PROVE  at[r].step # "idle"
<1>1. CASE PublicationStep(r)
  BY <1>1 DEF PublicationStep, Validate, Fetch, Checkout, AlreadyPublished, PatchDoesNotApply,
     Stage, Commit, Recheck, Push, PushRefused, Confirm, FindPull, CreatePull, PullRefused,
     PublicationFails, InClone, Publishing
<1>2. CASE IssuesStep(r)
  BY <1>2 DEF IssuesStep, NextIssue, IssuesDone, FindIssue, CreateIssue, IssueFails, Doing
<1>3. CASE CompleteArchive(r) \/ Settle(r)
  BY <1>3 DEF CompleteArchive, Settle, Doing
<1> QED BY <1>1, <1>2, <1>3 DEF ArchiveStep

LEMMA StartsAlone ==
  ASSUME CloneUsers <= 1, NEW r \in Runs, StartArchive(r)
  PROVE  \A s \in Runs : at[s] = Idle
<1> DEFINE Busy == {s \in Runs : at[s] # Idle}
<1>1. IsFiniteSet(Busy)
  <2>1. IsFiniteSet(Runs)
    BY ArchiveAssumption, FS_Interval DEF Runs
  <2> QED BY <2>1, FS_Subset
<1>2. Cardinality(Busy) \in Nat
  BY <1>1, FS_CardinalityType
<1>3. Cardinality(Busy) = 0
  BY <1>2, ArchiveAssumption DEF StartArchive
<1>4. Busy = {}
  BY <1>1, <1>3, FS_EmptySet
<1> QED BY <1>4

LEMMA ExclusiveStep ==
  ASSUME CloneUsers <= 1, ArchiveInv, Exclusive, [Next]_vars
  PROVE  Exclusive'
<1>1. CASE UNCHANGED vars
  BY <1>1 DEF Exclusive, vars
<1>2. ASSUME NEW r \in Runs, EndRun(r)
      PROVE  Exclusive'
  BY <1>2 DEF EndRun, Exclusive
<1>3. ASSUME NEW r \in Runs, StartArchive(r)
      PROVE  Exclusive'
  <2>1. \A s \in Runs : at[s] = Idle
    BY <1>3, StartsAlone
  <2>2. Frame(r)
    BY <1>3, RunStepFrame DEF RunStep
  <2> QED BY <2>1, <2>2 DEF Exclusive, Frame
<1>4. ASSUME NEW r \in Runs, ArchiveStep(r)
      PROVE  Exclusive'
  <2>1. Frame(r) /\ at[r] # Idle
    BY <1>4, RunStepFrame, ArchiveStepBusy, IdlePlace DEF RunStep
  <2> QED BY <2>1 DEF Exclusive, Frame
<1>5. CASE (\E r \in Runs : MergePull(r) \/ ClosePull(r)) \/ OthersPush \/ RunChecksOut \/ Crash
  <2>1. \A s \in Runs : at'[s] \in {at[s], Idle}
    BY <1>5, EnvironmentTypes DEF ArchiveInv
  <2> QED BY <2>1 DEF Exclusive
<1> QED BY <1>1, <1>2, <1>3, <1>4, <1>5 DEF Next

\* A mark that says published is only made of what is.
LEMMA MarkPublishes ==
  ASSUME ArchiveTypeOK, NEW r \in Runs, PublishedInv(r), NEW status, Mark(r, status),
         \/ at[r].job = "scenario" /\ status \in {"published", "pull_request", "failed"}
         \/ at[r].job = "report" /\ status \in {"published", "failed"},
         branch \subseteq branch', status = "published" => Item(r) \in branch',
         status = "pull_request" \/ pulls[r].created > 0 \/ pulls'[r].open
           => pulls'[r].created > 0
  PROVE  CloneInv(r)' /\ PublishedInv(r)'
<1>0. /\ at[r].job = "scenario" => row'[r].scenario = status /\ row'[r].report = row[r].report
      /\ at[r].job = "report" => row'[r].report = status /\ row'[r].scenario = row[r].scenario
      /\ \/ at'[r] = At("fetch", "report") \/ at'[r] = At("issues", "none")
         \/ at'[r] = At("settle", "none")
  BY MarkEffect
<1>1. CloneInv(r)'
  BY <1>0, AtFields DEF CloneInv
<1>2. PublishedInv(r)'
  BY <1>0 DEF PublishedInv, Item
<1> QED BY <1>1, <1>2

\* The same for a step that marks nothing.
LEMMA UnmarkedPublished ==
  ASSUME NEW s \in Runs, PublishedInv(s), row'[s] = row[s], branch \subseteq branch',
         pulls'[s].created = pulls[s].created, pulls'[s].open => pulls[s].open
  PROVE  PublishedInv(s)'
  BY DEF PublishedInv

LEMMA PublicationPublishes ==
  ASSUME ArchiveInv, NEW r \in Runs, CloneInv(r), PublishedInv(r), PublicationStep(r)
  PROVE  CloneInv(r)' /\ PublishedInv(r)'
<1>0. /\ ArchiveTypeOK /\ PlaceInv(r) /\ at[r] \in Place
      /\ pulls \in [Runs -> [created: Nat, open: BOOLEAN]]
  BY DEF ArchiveInv, RunInv, ArchiveTypeOK
<1>1. ASSUME NEW status, Mark(r, status), Unpublished,
             \/ at[r].job = "scenario" /\ status \in {"published", "pull_request", "failed"}
             \/ at[r].job = "report" /\ status \in {"published", "failed"},
             status = "published" => Item(r) \in branch,
             status = "pull_request" => pulls[r].created > 0
      PROVE  CloneInv(r)' /\ PublishedInv(r)'
  BY <1>0, <1>1, MarkPublishes DEF Unpublished, remoteVars, PublishedInv
<1>2. ASSUME NEW step \in Step, Goto(r, step), UNCHANGED <<row, branch, pulls>>
      PROVE  /\ PublishedInv(r)'
             /\ at'[r].step = step /\ at'[r].job = at[r].job /\ at'[r].head = at[r].head
             /\ Item(r)' = Item(r)
  BY <1>0, <1>2, GotoPlace, UnmarkedPublished DEF Item
<1>3. CASE Validate(r)
  BY <1>3, <1>2 DEF Validate, Step, Unpublished, remoteVars, CloneInv
<1>4. CASE Fetch(r)
  <2> DEFINE read == [at EXCEPT ![r].head = branch]
             next == IF Reviewed(r) /\ r \in proposed THEN "find" ELSE "checkout"
  <2>1. at' = [read EXCEPT ![r].step = next]
    BY <1>4 DEF Fetch
  <2>2. read \in [Runs -> Place] /\ read[r].head = branch
    <3>1. at \in [Runs -> Place] /\ branch \in SUBSET Items
      BY <1>0 DEF ArchiveTypeOK
    <3>2. read[r] = [at[r] EXCEPT !.head = branch]
      BY <3>1
    <3>3. /\ [at[r] EXCEPT !.head = branch].head = branch
          /\ [at[r] EXCEPT !.head = branch] \in Place
      BY <1>0, <3>1 DEF Place
    <3> QED BY <3>1, <3>2, <3>3
  <2>3. next \in {"find", "checkout"}
    OBVIOUS
  <2> HIDE DEF read, next
  <2>4. at'[r].step \in {"find", "checkout"} /\ at'[r].head = branch
    BY <2>1, <2>2, <2>3 DEF Place
  <2>5. UNCHANGED <<row, branch, pulls>>
    BY <1>4 DEF Fetch, Unpublished, remoteVars
  <2> QED BY <2>4, <2>5, UnmarkedPublished DEF CloneInv
<1>5. CASE Checkout(r)
  BY <1>5, <1>2 DEF Checkout, Publishing, Step, Unpublished, remoteVars, CloneInv
<1>6. CASE AlreadyPublished(r)
  <2>1. Item(r) \in branch
    BY <1>6 DEF AlreadyPublished, Publishing, Seen, CloneInv
  <2> QED BY <1>6, <1>1, <2>1 DEF AlreadyPublished, Publishing
<1>7. CASE PatchDoesNotApply(r)
  BY <1>7, <1>1 DEF PatchDoesNotApply, Publishing
<1>8. CASE Stage(r)
  BY <1>8, <1>2 DEF Stage, Publishing, Step, Unpublished, remoteVars, CloneInv
<1>9. CASE Commit(r)
  <2>1. CASE /\ staged = {Item(r)}
             /\ clone' = clone \cup staged
             /\ Goto(r, "recheck") /\ UNCHANGED row
    BY <1>9, <1>2, <2>1 DEF Commit, Publishing, Step, Unpublished, remoteVars, CloneInv
  <2>2. CASE Mark(r, "failed")
    BY <1>9, <1>1, <2>2 DEF Commit, Publishing
  <2> QED BY <1>9, <2>1, <2>2 DEF Commit
<1>10. CASE Recheck(r)
  <2>1. CASE Goto(r, "push") /\ UNCHANGED <<row, cloneVars>>
    BY <1>10, <1>2, <2>1 DEF Recheck, Publishing, Step, Unpublished, remoteVars, cloneVars,
       CloneInv
  <2>2. CASE Mark(r, "failed")
    BY <1>10, <1>1, <2>2 DEF Recheck, Publishing
  <2> QED BY <1>10, <2>1, <2>2 DEF Recheck
<1>11. CASE Push(r)
  <2>1. /\ branch \subseteq branch' /\ UNCHANGED pulls /\ Publishing(r, "push")
        /\ ~Reviewed(r) => branch' = clone
    BY <1>11 DEF Push, PushTaken
  <2>2. CASE Goto(r, IF Reviewed(r) THEN "find" ELSE "confirm") /\ UNCHANGED <<row, staged, failures>>
    <3>1. (IF Reviewed(r) THEN "find" ELSE "confirm") \in Step
      BY DEF Step
    <3>2. /\ at'[r].step = IF Reviewed(r) THEN "find" ELSE "confirm"
          /\ Item(r)' = Item(r)
      BY <1>0, <2>2, <3>1, GotoPlace DEF Item
    <3>3. PublishedInv(r)'
      BY <2>1, <2>2, UnmarkedPublished
    <3>4. ~Reviewed(r) => Item(r) \in branch'
      BY <2>1 DEF Publishing, CloneInv
    <3> QED BY <3>2, <3>3, <3>4 DEF CloneInv
  <2>3. CASE Mark(r, "failed")
    BY <1>0, <2>1, <2>3, MarkPublishes DEF Publishing, PublishedInv
  <2> QED BY <1>11, <2>2, <2>3 DEF Push
<1>12. CASE PushRefused(r)
  BY <1>12, <1>1 DEF PushRefused, Publishing
<1>13. CASE Confirm(r)
  <2>1. Item(r) \in branch
    BY <1>13 DEF Confirm, Publishing, CloneInv
  <2> QED BY <1>13, <1>1, <2>1 DEF Confirm, Publishing
<1>14. CASE FindPull(r)
  <2>1. at[r].job = "scenario" /\ (pulls[r].open => pulls[r].created > 0)
    BY <1>0, <1>14 DEF FindPull, Publishing, PlaceInv, PublishedInv
  <2>2. CASE pulls[r].open
    BY <1>14, <1>1, <2>1, <2>2 DEF FindPull
  <2>3. CASE ~pulls[r].open
    BY <1>14, <1>2, <2>3 DEF FindPull, Step, Unpublished, remoteVars, CloneInv
  <2> QED BY <2>2, <2>3
<1>15. CASE CreatePull(r)
  <2>1. at[r].job = "scenario"
    BY <1>0, <1>15 DEF CreatePull, Publishing, PlaceInv
  <2>2. UNCHANGED branch /\ pulls'[r].created > 0
    BY <1>0, <1>15 DEF CreatePull
  <2>3. CASE Mark(r, "pull_request")
    BY <1>0, <2>1, <2>2, <2>3, MarkPublishes
  <2>4. CASE Mark(r, "failed")
    BY <1>0, <2>1, <2>2, <2>4, MarkPublishes
  <2> QED BY <1>15, <2>3, <2>4 DEF CreatePull
<1>16. CASE PullRefused(r)
  <2>1. at[r].job = "scenario"
    BY <1>0, <1>16 DEF PullRefused, Publishing, PlaceInv
  <2> QED BY <1>16, <1>1, <2>1 DEF PullRefused
<1>17. CASE PublicationFails(r)
  BY <1>17, <1>1 DEF PublicationFails, Publishing
<1> QED BY <1>3, <1>4, <1>5, <1>6, <1>7, <1>8, <1>9, <1>10, <1>11, <1>12, <1>13, <1>14,
        <1>15, <1>16, <1>17 DEF PublicationStep

\* The other steps of a Run mark nothing as published.
LEMMA QuietStep ==
  ASSUME ArchiveInv, NEW r \in Runs, CloneInv(r), PublishedInv(r), RunStep(r),
         ~PublicationStep(r)
  PROVE  CloneInv(r)' /\ PublishedInv(r)'
<1>0. ArchiveTypeOK /\ RecordInv(r) /\ UNCHANGED <<branch, pulls, clone>>
  BY DEF ArchiveInv, RunInv, RunStep, ArchiveStep, EndRun, StartArchive, IssuesStep, NextIssue,
     IssuesDone, FindIssue, CreateIssue, IssueFails, IssueStep, CompleteArchive, Settle,
     remoteVars, cloneVars
<1>1. ASSUME row'[r].report = row[r].report, row'[r].scenario = row[r].scenario
      PROVE  PublishedInv(r)'
  BY <1>0, <1>1 DEF PublishedInv
<1>2. ASSUME row'[r].report \in {row[r].report, "pending", "not_applicable"},
             row'[r].scenario \in {row[r].scenario, "pending", "not_applicable"}
      PROVE  PublishedInv(r)'
  BY <1>0, <1>2 DEF PublishedInv
<1>3. ASSUME at'[r].step \notin {"checkout", "look", "commit", "recheck", "push", "confirm"}
      PROVE  CloneInv(r)'
  BY <1>3 DEF CloneInv
<1>4. CASE EndRun(r)
  <2>1. row'[r] = row[r] \/ row'[r] = NewRow(r, facts[r].patch)
    BY <1>0, <1>4 DEF EndRun, ArchiveTypeOK
  <2>2. PublishedInv(r)'
    BY <1>1, <1>2, <2>1 DEF NewRow
  <2>3. CloneInv(r)'
    BY <1>0, <1>4 DEF EndRun, CloneInv, Item
  <2> QED BY <2>2, <2>3
<1>5. CASE StartArchive(r)
  <2>1. CASE /\ row' = [row EXCEPT ![r] = Imported(r)]
             /\ at' = [at EXCEPT ![r] = AfterImport(Imported(r))]
    <3>1. row'[r] = Imported(r) /\ at'[r] = AfterImport(Imported(r))
      BY <1>0, <2>1 DEF ArchiveTypeOK
    <3>2. PublishedInv(r)'
      BY <1>1, <1>2, <3>1 DEF Imported, NewRow
    <3>3. at'[r].step \in {"settle", "validate", "fetch", "issues"}
      BY <3>1, AfterImportPlace, AtFields
    <3> QED BY <1>3, <3>2, <3>3
  <2>2. CASE /\ row' = IF row[r].known THEN [row EXCEPT ![r].archive = "failed"] ELSE row
             /\ at' = [at EXCEPT ![r] = At("settle", "none")]
    <3>1. at'[r] = At("settle", "none")
      BY <1>0, <2>2 DEF ArchiveTypeOK
    <3>2. row'[r].report = row[r].report /\ row'[r].scenario = row[r].scenario
      <4>1. row \in [Runs -> Record]
        BY <1>0 DEF ArchiveTypeOK
      <4>2. CASE row[r].known
        BY <2>2, <4>1, <4>2 DEF Record
      <4> QED BY <2>2, <4>1, <4>2
    <3> QED BY <1>1, <1>3, <3>1, <3>2, AtFields
  <2> QED BY <1>5, <2>1, <2>2 DEF StartArchive
<1>6. ASSUME NEW b \in Bugs, NEW succeeded \in BOOLEAN, MarkIssue(r, b, succeeded)
      PROVE  CloneInv(r)' /\ PublishedInv(r)'
  <2>1. /\ row'[r].report = row[r].report /\ row'[r].scenario = row[r].scenario
        /\ at'[r].step = "issues"
    BY <1>0, <1>6, MarkIssueEffect, Zenon
  <2> QED BY <1>1, <1>3, <2>1
<1>7. CASE IssuesStep(r)
  <2>1. ASSUME UNCHANGED row, at'[r].step \in {"attempt", "post", "complete"}
        PROVE  CloneInv(r)' /\ PublishedInv(r)'
    BY <1>1, <1>3, <2>1
  <2>2. CASE NextIssue(r)
    <3>1. PICK b \in IssuesLeft(r) : at' = [at EXCEPT ![r].step = "attempt", ![r].job = b]
      BY <2>2 DEF NextIssue
    <3>2. b \in Bugs
      BY <1>0, LegalRun DEF IssuesLeft, LegalFacts
    <3> DEFINE one == [at EXCEPT ![r].step = "attempt"]
    <3>3. one \in [Runs -> Place] /\ one[r].step = "attempt"
      <4>1. at \in [Runs -> Place] /\ "attempt" \in Step /\ at[r] \in Place
        BY <1>0 DEF ArchiveTypeOK, Step
      <4>2. one[r] = [at[r] EXCEPT !.step = "attempt"] /\ one \in [Runs -> Place]
        BY <4>1 DEF Place
      <4> QED BY <4>1, <4>2 DEF Place
    <3>4. at' = [one EXCEPT ![r].job = b]
      BY <3>1
    <3> HIDE DEF one
    <3>5. at'[r].step = "attempt"
      BY <3>2, <3>3, <3>4 DEF Place
    <3> QED BY <2>1, <2>2, <3>5 DEF NextIssue
  <2>3. CASE IssuesDone(r)
    <3>1. at'[r] = At("complete", "none")
      BY <1>0, <2>3 DEF IssuesDone, ArchiveTypeOK
    <3> QED BY <2>1, <2>3, <3>1, AtFields DEF IssuesDone
  <2>4. ASSUME NEW b \in Bugs, FindIssue(r, b)
        PROVE  CloneInv(r)' /\ PublishedInv(r)'
    <3>1. CASE MarkIssue(r, b, TRUE)
      <4>1. \E succeeded \in BOOLEAN : MarkIssue(r, b, succeeded)
        BY <3>1, Zenon
      <4> QED BY <1>6, <4>1
    <3>2. CASE Goto(r, "post") /\ UNCHANGED <<row, filed>>
      BY <1>0, <2>1, <3>2, GotoPlace DEF Step
    <3> QED BY <2>4, <3>1, <3>2 DEF FindIssue
  <2>5. ASSUME NEW b \in Bugs, CreateIssue(r, b) \/ IssueFails(r, b)
        PROVE  CloneInv(r)' /\ PublishedInv(r)'
    <3>1. \E succeeded \in BOOLEAN : MarkIssue(r, b, succeeded)
      BY <2>5 DEF CreateIssue, IssueFails
    <3> QED BY <1>6, <3>1
  <2> QED BY <1>7, <2>2, <2>3, <2>4, <2>5 DEF IssuesStep
<1>8. CASE CompleteArchive(r)
  <2>1. row'[r].report = row[r].report /\ row'[r].scenario = row[r].scenario
    BY <1>0, <1>8, CompleteEffect
  <2>2. at'[r].step = "settle"
    BY <1>0, <1>8, GotoPlace DEF CompleteArchive, Step
  <2> QED BY <1>1, <1>3, <2>1, <2>2
<1>9. CASE Settle(r)
  <2>1. UNCHANGED row /\ at'[r] = Idle
    BY <1>0, <1>9 DEF Settle, storeVars, ArchiveTypeOK
  <2> QED BY <1>1, <1>3, <2>1, IdlePlace
<1> QED BY <1>4, <1>5, <1>7, <1>8, <1>9 DEF RunStep, ArchiveStep

LEMMA ExclusiveInvStep ==
  ASSUME CloneUsers <= 1, ExclusiveInv, [Next]_vars
  PROVE  ExclusiveInv'
<1>0. ArchiveInv /\ ArchiveInv' /\ Exclusive' /\ Grows
  BY ArchiveInvStep, ExclusiveStep DEF ExclusiveInv
<1> SUFFICES ASSUME NEW s \in Runs
             PROVE  CloneInv(s)' /\ PublishedInv(s)'
  BY <1>0 DEF ExclusiveInv
<1>1. CloneInv(s) /\ PublishedInv(s)
  BY DEF ExclusiveInv
<1>2. CASE UNCHANGED vars
  BY <1>1, <1>2 DEF vars, storeVars, remoteVars, cloneVars, CloneInv, PublishedInv, Item
<1>3. ASSUME NEW r \in Runs, RunStep(r)
      PROVE  CloneInv(s)' /\ PublishedInv(s)'
  <2>1. CASE s = r
    BY <1>0, <1>1, <1>3, <2>1, PublicationPublishes, QuietStep
  <2>2. CASE s # r
    <3>1. Frame(r)
      BY <1>0, <1>3, RunStepFrame
    <3>2. PublishedInv(s)'
      BY <1>0, <1>1, <2>2, <3>1, UnmarkedPublished DEF Frame, Grows
    <3>3. at[s] = Idle \/ clone' = clone
      <4>1. CASE EndRun(r) \/ StartArchive(r)
        BY <4>1 DEF EndRun, StartArchive, cloneVars
      <4>2. CASE ArchiveStep(r)
        BY <2>2, <4>2, ArchiveStepBusy, IdlePlace DEF ExclusiveInv, Exclusive
      <4> QED BY <1>3, <4>1, <4>2 DEF RunStep
    <3>4. CloneInv(s)'
      <4>1. at'[s] = at[s] /\ branch \subseteq branch'
        BY <1>0, <2>2, <3>1 DEF Frame, Grows
      <4> QED BY <1>1, <3>3, <4>1, IdlePlace DEF CloneInv, Item
    <3> QED BY <3>2, <3>4
  <2> QED BY <2>1, <2>2
<1>4. CASE (\E r \in Runs : MergePull(r) \/ ClosePull(r)) \/ OthersPush \/ RunChecksOut \/ Crash
  <2>1. /\ row'[s] = row[s] /\ at'[s] \in {at[s], Idle}
        /\ pulls'[s].created = pulls[s].created
        /\ pulls'[s].open => pulls[s].open
    BY <1>0, <1>4, EnvironmentTypes DEF ArchiveInv
  <2>2. clone' = clone
    BY <1>4, ArchiveAssumption DEF MergePull, ClosePull, OthersPush, RunChecksOut, Crash, cloneVars
  <2>3. PublishedInv(s)'
    BY <1>0, <1>1, <2>1, UnmarkedPublished DEF Grows
  <2>4. CloneInv(s)'
    BY <1>0, <1>1, <2>1, <2>2, IdlePlace DEF CloneInv, Item, Grows
  <2> QED BY <2>3, <2>4
<1> QED BY <1>2, <1>3, <1>4 DEF Next, RunStep

LEMMA ExclusiveInvInit == Init => ExclusiveInv
<1> SUFFICES ASSUME Init PROVE ExclusiveInv
  OBVIOUS
<1>1. ArchiveInv
  BY ArchiveInvInit
<1>2. ASSUME NEW r \in Runs
      PROVE  CloneInv(r) /\ PublishedInv(r)
  BY IdlePlace DEF Init, CloneInv, PublishedInv, NoRow
<1>3. Exclusive
  BY DEF Init, Exclusive
<1> QED BY <1>1, <1>2, <1>3 DEF ExclusiveInv

\* With one archive at a time in the clone, its HEAD is what the publication
\* made of it, and what a record marks as published is on the branch.
THEOREM ExclusiveInvariant ==
  ASSUME CloneUsers <= 1
  PROVE  Spec => []ExclusiveInv
<1>1. Init => ExclusiveInv
  BY ExclusiveInvInit
<1>2. ExclusiveInv /\ [Next]_vars => ExclusiveInv'
  BY ExclusiveInvStep
<1> QED BY <1>1, <1>2, PTL DEF Spec

\* With the clone to itself, an archive marks a report as published only when
\* it is on the branch, whatever pushes are refused or lose their answer.
THEOREM MarkedReportPublishedCorrect ==
  ASSUME CloneUsers <= 1
  PROVE  Spec => []MarkedReportPublished
<1>1. ExclusiveInv => MarkedReportPublished
  BY DEF ExclusiveInv, PublishedInv, MarkedReportPublished
<1> QED BY <1>1, ExclusiveInvariant, PTL
-----------------------------------------------------------------------------
(***************************************************************************)
(* With the clone to themselves, the archives implement ArchiveContract.   *)
(***************************************************************************)
Reports == {s \in Runs : <<"report", s>> \in branch}
Scenarios == {s \in Runs : <<"scenario", s>> \in branch \/ pulls[s].created > 0}
Closed == {s \in Runs : outcome[s] = "completed"}

\* A step nobody sees.
Unseen == UNCHANGED <<facts, Reports, Scenarios, issues, progress, Closed>>

LEMMA UnseenStutters == Unseen => UNCHANGED Contract!contractVars
  BY DEF Unseen, Contract!contractVars, Reports, Scenarios, Closed

LEMMA SameRuns == Contract!Runs = Runs
  BY DEF Contract!Runs, Runs

\* What a finished archive has published, as the contract sees it.
LEMMA PublishedRun ==
  ASSUME ExclusiveInv, NEW r \in Runs, row[r].known, ReportReady(r), ScenarioPublished(r),
         AllIssuesSucceeded(r)
  PROVE  Contract!Published(r)
<1>0. /\ RecordInv(r) /\ PublishedInv(r) /\ facts[r].bugs \subseteq Bugs
      /\ \A b \in Bugs : IssueInv(r, b)
  BY LegalRun DEF ExclusiveInv, ArchiveInv, RunInv, LegalFacts
<1>1. facts[r].special \/ r \in Reports
  BY <1>0 DEF RecordInv, PublishedInv, ReportReady, Reports
<1>2. facts[r].patch = "none" \/ r \in Scenarios
  BY <1>0 DEF PublishedInv, ScenarioPublished, Scenarios
<1>3. \A b \in facts[r].bugs \ Linked : issues[r][b] = 1
  BY <1>0 DEF IssueInv, AllIssuesSucceeded
<1> QED BY <1>1, <1>2, <1>3 DEF Contract!Published, Contract!NewIssues, Reports, Scenarios

\* A push adds what the archive publishes to the branch, and nothing else.
LEMMA PushContract ==
  ASSUME ExclusiveInv, NEW r \in Runs, Push(r)
  PROVE  [Contract!ContractNext]_(Contract!contractVars)
<1>0. /\ ArchiveTypeOK /\ PlaceInv(r) /\ CloneInv(r)
      /\ UNCHANGED <<facts, pulls, issues, progress, outcome>>
      /\ at[r].step = "push" /\ at[r].job \in {"scenario", "report"}
  BY DEF ExclusiveInv, ArchiveInv, RunInv, Push, Publishing
<1>1. CASE Reviewed(r)
  <2>1. UNCHANGED branch
    BY <1>1 DEF Push, PushTaken
  <2> QED BY <1>0, <2>1, UnseenStutters DEF Unseen, Reports, Scenarios, Closed
<1>2. CASE ~Reviewed(r)
  <2>1. branch' = branch \cup {Item(r)}
    BY <1>0, <1>2 DEF Push, PushTaken, CloneInv
  <2>2. CASE at[r].job = "report"
    <3>1. Reports' = Reports \cup {r} /\ UNCHANGED <<Scenarios, Closed>>
      BY <1>0, <2>1, <2>2 DEF Item, Reports, Scenarios, Closed
    <3>2. CASE r \in Reports
      BY <1>0, <3>1, <3>2, UnseenStutters DEF Unseen
    <3>3. CASE r \notin Reports
      <4>1. Contract!PublishReport(r)
        BY <1>0, <2>2, <3>1, <3>3
           DEF Contract!PublishReport, PlaceInv, Reports, Scenarios, Closed
      <4> QED BY <4>1, SameRuns DEF Contract!ContractNext
    <3> QED BY <3>2, <3>3
  <2>3. CASE at[r].job = "scenario"
    <3>1. Scenarios' = Scenarios \cup {r} /\ UNCHANGED <<Reports, Closed>>
      BY <1>0, <2>1, <2>3 DEF Item, Reports, Scenarios, Closed
    <3>2. CASE r \in Scenarios
      BY <1>0, <3>1, <3>2, UnseenStutters DEF Unseen
    <3>3. CASE r \notin Scenarios
      <4>1. Contract!PublishScenario(r)
        BY <1>0, <2>3, <3>1, <3>3
           DEF Contract!PublishScenario, PlaceInv, Reports, Scenarios, Closed
      <4> QED BY <4>1, SameRuns DEF Contract!ContractNext
    <3> QED BY <3>2, <3>3
  <2> QED BY <1>0, <2>2, <2>3
<1> QED BY <1>1, <1>2

LEMMA CreatePullContract ==
  ASSUME ExclusiveInv, NEW r \in Runs, CreatePull(r)
  PROVE  [Contract!ContractNext]_(Contract!contractVars)
<1>0. /\ ArchiveTypeOK /\ PlaceInv(r) /\ at[r].step = "create"
      /\ UNCHANGED <<facts, branch, issues, progress, outcome>>
      /\ pulls' = [pulls EXCEPT ![r] = [created |-> @.created + 1, open |-> TRUE]]
      /\ pulls \in [Runs -> [created: Nat, open: BOOLEAN]]
  BY DEF ExclusiveInv, ArchiveInv, RunInv, CreatePull, Publishing, ArchiveTypeOK
<1>1. /\ pulls'[r].created > 0
      /\ \A s \in Runs \ {r} : pulls'[s] = pulls[s]
  BY <1>0
<1>2. Scenarios' = Scenarios \cup {r} /\ UNCHANGED <<Reports, Closed>>
  BY <1>0, <1>1 DEF Reports, Scenarios, Closed
<1>3. CASE r \in Scenarios
  BY <1>0, <1>2, <1>3, UnseenStutters DEF Unseen
<1>4. CASE r \notin Scenarios
  <2>1. Contract!PublishScenario(r)
    BY <1>0, <1>2, <1>4 DEF Contract!PublishScenario, PlaceInv, Reports, Scenarios, Closed
  <2> QED BY <2>1, SameRuns DEF Contract!ContractNext
<1> QED BY <1>3, <1>4

LEMMA CreateIssueContract ==
  ASSUME ExclusiveInv, NEW r \in Runs, NEW b \in Bugs, CreateIssue(r, b)
  PROVE  [Contract!ContractNext]_(Contract!contractVars)
<1>0. /\ IssueInv(r, b) /\ Doing(r, b, "post") /\ IssueStep
      /\ issues' = [issues EXCEPT ![r][b] = @ + 1]
      /\ issues \in [Runs -> [Bugs -> Nat]]
  <2>1. Doing(r, b, "post") /\ IssueStep /\ issues' = [issues EXCEPT ![r][b] = @ + 1]
    BY Zenon DEF CreateIssue
  <2> QED BY <2>1 DEF ExclusiveInv, ArchiveInv, RunInv, ArchiveTypeOK
<1>1. b \in facts[r].bugs \ Linked /\ issues[r][b] = 0
  BY <1>0 DEF IssueInv, Doing
<1>2. issues' = [issues EXCEPT ![r][b] = 1]
  BY <1>0, <1>1
<1>3. UNCHANGED <<facts, Reports, Scenarios, progress, Closed>>
  BY <1>0 DEF IssueStep, Reports, Scenarios, Closed
<1>4. Contract!FileIssue(r, b)
  BY <1>1, <1>2, <1>3 DEF Contract!FileIssue, Contract!NewIssues, Reports, Scenarios, Closed
<1> QED BY <1>4, SameRuns DEF Contract!ContractNext

LEMMA CompleteContract ==
  ASSUME ExclusiveInv, NEW r \in Runs, CompleteArchive(r)
  PROVE  [Contract!ContractNext]_(Contract!contractVars)
<1>0. /\ PlaceInv(r) /\ at[r].step = "complete" /\ progress \in Nat /\ r \in Nat
      /\ UNCHANGED <<facts, branch, pulls, issues, outcome>>
      /\ progress' = IF Moves(r) THEN r ELSE progress
  BY ArchiveAssumption DEF ExclusiveInv, ArchiveInv, RunInv, CompleteArchive, Doing, ArchiveTypeOK,
     remoteVars, Runs
<1>1. UNCHANGED <<Reports, Scenarios, Closed>>
  BY <1>0 DEF Reports, Scenarios, Closed
<1>2. CASE Moves(r) /\ progress # r
  <2>1. /\ ReportReady(r) /\ ScenarioReady(r) /\ AllIssuesSucceeded(r)
        /\ facts[r].result \in {"passed", "failed"} /\ r > progress
    BY <1>0, <1>2 DEF Moves, CanProgress, ReportReady
  <2>2. ScenarioPublished(r) /\ row[r].known
    BY <1>0, <2>1 DEF PlaceInv, ScenarioReady, ScenarioPublished
  <2>3. Contract!Published(r)
    BY <2>1, <2>2, PublishedRun
  <2>4. Contract!Advance(r)
    BY <1>0, <1>1, <1>2, <2>1, <2>3 DEF Contract!Advance, Reports, Scenarios, Closed
  <2> QED BY <2>4, SameRuns DEF Contract!ContractNext
<1>3. CASE ~(Moves(r) /\ progress # r)
  BY <1>0, <1>1, <1>3, UnseenStutters DEF Unseen
<1> QED BY <1>2, <1>3

LEMMA SettleContract ==
  ASSUME ExclusiveInv, NEW r \in Runs, Settle(r)
  PROVE  [Contract!ContractNext]_(Contract!contractVars)
<1>0. /\ PlaceInv(r) /\ CompletedInv(r) /\ at[r].step = "settle"
      /\ outcome \in [Runs -> {"none", "waiting", "completed", "partial", "failed"}]
      /\ UNCHANGED <<facts, branch, pulls, issues, progress>>
      /\ outcome' = [outcome EXCEPT ![r] = IF row[r].known THEN row[r].archive ELSE "failed"]
  BY DEF ExclusiveInv, ArchiveInv, RunInv, Settle, Doing, ArchiveTypeOK, storeVars, remoteVars
<1>1. UNCHANGED <<Reports, Scenarios>>
  BY <1>0 DEF Reports, Scenarios
<1>2. r \notin Closed
  BY <1>0, IdlePlace DEF PlaceInv, Unsettled, Closed
<1>3. CASE row[r].known /\ row[r].archive = "completed"
  <2>1. Closed' = Closed \cup {r}
    BY <1>0, <1>3 DEF Closed
  <2>2. Contract!Published(r)
    BY <1>0, <1>3, PublishedRun DEF CompletedInv
  <2>3. facts[r].result \in {"passed", "failed"} => progress >= r
    BY <1>0, <1>3 DEF CompletedInv, Conclusive
  <2>4. Contract!Close(r)
    BY <1>0, <1>1, <1>2, <2>1, <2>2, <2>3 DEF Contract!Close, Reports, Scenarios, Closed
  <2> QED BY <2>4, SameRuns DEF Contract!ContractNext
<1>4. CASE ~(row[r].known /\ row[r].archive = "completed")
  <2>1. Closed' = Closed
    BY <1>0, <1>2, <1>4 DEF Closed
  <2> QED BY <1>0, <1>1, <2>1, UnseenStutters DEF Unseen
<1> QED BY <1>3, <1>4

LEMMA ContractStep ==
  ASSUME ExclusiveInv, [Next]_vars
  PROVE  [Contract!ContractNext]_(Contract!contractVars)
<1>0. /\ pulls \in [Runs -> [created: Nat, open: BOOLEAN]]
      /\ outcome \in [Runs -> {"none", "waiting", "completed", "partial", "failed"}]
  BY DEF ExclusiveInv, ArchiveInv, ArchiveTypeOK
<1>1. ASSUME UNCHANGED <<facts, outcome, branch, pulls, issues, progress>>
      PROVE  UNCHANGED Contract!contractVars
  BY <1>1, UnseenStutters DEF Unseen, Reports, Scenarios, Closed
<1>2. CASE UNCHANGED vars
  BY <1>1, <1>2 DEF vars, storeVars, remoteVars
<1>3. ASSUME NEW r \in Runs, EndRun(r)
      PROVE  UNCHANGED Contract!contractVars
  <2>1. UNCHANGED <<facts, branch, pulls, issues, progress>>
    BY <1>3 DEF EndRun, remoteVars
  <2>2. Closed' = Closed
    BY <1>0, <1>3 DEF EndRun, Closed
  <2> QED BY <2>1, <2>2, UnseenStutters DEF Unseen, Reports, Scenarios
<1>4. ASSUME NEW r \in Runs, StartArchive(r)
      PROVE  UNCHANGED Contract!contractVars
  BY <1>1, <1>4 DEF StartArchive, remoteVars
<1>5. ASSUME NEW r \in Runs, PublicationStep(r)
      PROVE  [Contract!ContractNext]_(Contract!contractVars)
  <2>1. CASE Push(r)
    BY <2>1, PushContract
  <2>2. CASE CreatePull(r)
    BY <2>2, CreatePullContract
  <2>3. CASE Unpublished
    BY <1>1, <2>3 DEF Unpublished, remoteVars
  <2> QED BY <1>5, <2>1, <2>2, <2>3 DEF PublicationStep, Validate, Fetch, Checkout,
          AlreadyPublished, PatchDoesNotApply, Stage, Commit, Recheck, PushRefused, Confirm,
          FindPull, PullRefused, PublicationFails
<1>6. ASSUME NEW r \in Runs, IssuesStep(r)
      PROVE  [Contract!ContractNext]_(Contract!contractVars)
  <2>1. ASSUME NEW b \in Bugs, CreateIssue(r, b)
        PROVE  [Contract!ContractNext]_(Contract!contractVars)
    BY <2>1, CreateIssueContract
  <2>2. CASE IssueStep /\ UNCHANGED issues
    BY <1>1, <2>2 DEF IssueStep
  <2> QED BY <1>6, <2>1, <2>2 DEF IssuesStep, NextIssue, IssuesDone, FindIssue, IssueFails
<1>7. ASSUME NEW r \in Runs, MergePull(r)
      PROVE  UNCHANGED Contract!contractVars
  <2>1. PublishedInv(r) /\ pulls[r].open
    BY <1>7 DEF ExclusiveInv, MergePull, Reviewable
  <2>2. /\ UNCHANGED <<facts, outcome, issues, progress>>
        /\ branch' = branch \cup {<<"scenario", r>>}
        /\ pulls' = [pulls EXCEPT ![r].open = FALSE]
    BY <1>7 DEF MergePull, storeVars
  <2>3. \A s \in Runs : pulls'[s].created = pulls[s].created
    BY <1>0, <2>2
  <2>4. UNCHANGED <<Reports, Scenarios, Closed>>
    BY <2>1, <2>2, <2>3 DEF PublishedInv, Reports, Scenarios, Closed
  <2> QED BY <2>2, <2>4, UnseenStutters DEF Unseen
<1>8. ASSUME NEW r \in Runs, ClosePull(r)
      PROVE  UNCHANGED Contract!contractVars
  <2>1. /\ UNCHANGED <<facts, outcome, branch, issues, progress>>
        /\ pulls' = [pulls EXCEPT ![r].open = FALSE]
    BY <1>8 DEF ClosePull, storeVars
  <2>2. \A s \in Runs : pulls'[s].created = pulls[s].created
    BY <1>0, <2>1
  <2> QED BY <2>1, <2>2, UnseenStutters DEF Unseen, Reports, Scenarios, Closed
<1>9. CASE OthersPush
  <2>1. /\ UNCHANGED <<facts, outcome, pulls, issues, progress>>
        /\ branch' = branch \cup {<<"other", foreign'>>}
    BY <1>9 DEF OthersPush, storeVars
  <2>2. UNCHANGED <<Reports, Scenarios, Closed>>
    BY <2>1 DEF Reports, Scenarios, Closed
  <2> QED BY <2>1, <2>2, UnseenStutters DEF Unseen
<1>10. CASE RunChecksOut \/ Crash
  BY <1>1, <1>10 DEF RunChecksOut, Crash, storeVars, remoteVars
<1> QED BY <1>2, <1>3, <1>4, <1>5, <1>6, <1>7, <1>8, <1>9, <1>10, CompleteContract,
        SettleContract DEF Next, ArchiveStep

\* With the clone to itself, every archive keeps the contract: everything is
\* published at most once, the baseline moves forward to Runs that are fully
\* published, and an archive is closed when nothing is left.
THEOREM KeepsContractCorrect ==
  ASSUME CloneUsers <= 1
  PROVE  Spec => KeepsContract
<1>1. Init => Contract!ContractInit
  BY DEF Init, Contract!ContractInit, Contract!Runs, Runs
<1>2. ExclusiveInv /\ [Next]_vars => [Contract!ContractNext]_(Contract!contractVars)
  BY ContractStep
<1> QED BY <1>1, <1>2, ExclusiveInvariant, PTL DEF Spec, KeepsContract, Contract!ContractSpec
=============================================================================
