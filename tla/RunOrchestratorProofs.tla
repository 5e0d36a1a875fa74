------------------------ MODULE RunOrchestratorProofs ------------------------
(***************************************************************************)
(* Proofs about RunOrchestrator, for any Runs, patches and crashes: what   *)
(* is passed was executed as it is archived, what is told was cleaned up,  *)
(* and what is completed stays.                                            *)
(*                                                                         *)
(* The argument.  ActiveOK follows the patch of the active Run from the    *)
(* tree the Runner works on to the directory that is renamed: each stage   *)
(* knows that what was executed is what the directory holds, or that the   *)
(* report does not say passed, or that the downgrade missed its result.    *)
(* A doubt is a reason the context still has, *)
(* because the only reasons ever dropped are those about the browser.      *)
(* RunOK says what stays true of a Run once it has left the slot.          *)
(***************************************************************************)
EXTENDS RunOrchestrator, Integers, TLAPS

StatusType  == {None, "queued", "running", "completed", "failed", "interrupted"}
ContextType == [init : BOOLEAN, reviewMode : BOOLEAN, reasons : SUBSET Reasons,
                frozen : BOOLEAN, attempts : Int, before : Int, special : BOOLEAN,
                prompting : BOOLEAN]
FilesType   == [plan : BOOLEAN, patch : Int, execution : {None, "recon", "formal"},
                review : BOOLEAN, report : Results \cup {None},
                missed : BOOLEAN]

Types ==
  /\ active \in Runs \cup {None} /\ stage \in Stages
  /\ status \in [Runs -> StatusType] /\ context \in ContextType /\ tree \in Int
  /\ place \in [Runs -> {None, "running", "completed"}]
  /\ files \in [Runs -> FilesType]
  /\ answered \in [Runs -> {None, "completed", "failed"}]
  /\ cleanups \in [Runs -> {0, 1}]
  /\ tested \in [Runs -> Int \cup {Untested}]

\* The Run in its directory has not been called passed without being executed so.
PassedOnlyIf(r) ==
  files[r].report = "passed" =>
    /\ ~files[r].missed => tested[r] = files[r].patch /\ r \notin doubts
    /\ r \notin Initializations => tested[r] = files[r].patch

\* What is true of every Run, wherever it is.
RunOK(r) ==
  /\ place[r] = None =>
       status[r] = None /\ cleanups[r] = 0 /\ answered[r] = None /\ r \notin doubts
  /\ place[r] = "completed" =>
       status[r] \in {None, "completed"} /\ cleanups[r] = 1 /\ PassedOnlyIf(r)
  /\ answered[r] # None => cleanups[r] = 1
  /\ answered[r] = "completed" => place[r] = "completed"
  /\ answered[r] = "failed" => place[r] = "running"

Planning == {"preflight", "planning", "browser", "recon", "candidate", "rebrowser", "patch"}
Executed == {"checking", "reviewer", "retained"}
Reported == {"closing", "report", "finalize"}
Cleaned  == {"report", "finalize", "review_report"}
Working  == Stages \ {"idle", "persist", "failed", "leaving"}

\* The patch the Runner works with is the one in the directory.
PatchOK ==
  LET patch == files[active].patch IN
  /\ stage \in Planning => tree = 0
  /\ stage = "runner" => tree = patch
  /\ stage = "finishing" /\ status[active] # "failed" => tested[active] = patch
  /\ stage \in Executed => tested[active] = patch
  /\ stage = "final" => tested[active] = patch /\ context.before = patch
  /\ stage = "force" => /\ tested[active] = context.before
                        /\ ~context.init => context.before = patch
  /\ stage \in Reported => PassedOnlyIf(active)

\* Where the active Run is, and how far its clean-up is.
SlotOK ==
  /\ stage # "idle" /\ answered[active] = None
  /\ stage \in Working =>
       /\ place[active] = "running" /\ status[active] \in {"queued", "running", "failed"}
       /\ cleanups[active] = IF stage \in Cleaned THEN 1 ELSE 0
  /\ stage = "persist" => place[active] = "completed" /\ status[active] = "completed"
  /\ stage \in {"failed", "leaving"} =>
       \/ place[active] = "running" /\ status[active] = "failed"
       \/ place[active] = "completed" /\ status[active] = "completed"
  /\ stage = "leaving" => cleanups[active] = 1

ActiveOK ==
  active # None => /\ SlotOK /\ PatchOK
                   /\ context.init = (active \in Initializations)
                   /\ active \in doubts => "other" \in context.reasons

OrchestratorInv == Types /\ ActiveOK /\ \A r \in Runs : RunOK(r)

-----------------------------------------------------------------------------
LEMMA ConstantTypes ==
  /\ NoContext \in ContextType /\ NoFiles \in FilesType
  /\ NoContext.reasons = {} /\ Patches \subseteq Int /\ 0 \in Int
BY DEF NoContext, NoFiles, ContextType, FilesType, Reasons, None, Patches, Results

LEMMA InvInit == RunOrchestratorInit => OrchestratorInv
<1> SUFFICES ASSUME RunOrchestratorInit PROVE OrchestratorInv
  OBVIOUS
<1>1. Types
  BY ConstantTypes DEF RunOrchestratorInit, Types, Stages, StatusType
<1>2. ActiveOK
  BY DEF RunOrchestratorInit, ActiveOK
<1>3. \A r \in Runs : RunOK(r)
  BY DEF RunOrchestratorInit, RunOK, None
<1> QED BY <1>1, <1>2, <1>3 DEF OrchestratorInv

-----------------------------------------------------------------------------
\* A step leaves the other Runs alone.
Others ==
  \A r \in Runs \ {active} :
    /\ status'[r] = status[r] /\ place'[r] = place[r] /\ files'[r] = files[r]
    /\ answered'[r] = answered[r] /\ cleanups'[r] = cleanups[r] /\ tested'[r] = tested[r]
    /\ r \in doubts' <=> r \in doubts

LEMMA OthersKeep ==
  ASSUME \A r \in Runs : RunOK(r), Others
  PROVE  \A r \in Runs \ {active} : RunOK(r)'
BY DEF RunOK, Others, PassedOnlyIf

\* A step of the pipeline while the directory is where the Run works.
LEMMA WorkInv ==
  ASSUME OrchestratorInv, active # None, stage \in Working, KeepsRest,
         Types', ActiveOK', Others
  PROVE  OrchestratorInv'
<1>1. /\ active \in Runs /\ active' = active /\ place' = place /\ answered' = answered
      /\ place[active] = "running" /\ answered[active] = None
  BY DEF OrchestratorInv, Types, ActiveOK, SlotOK, KeepsRest
<1>2. RunOK(active)'
  BY <1>1 DEF RunOK, None
<1>3. \A r \in Runs \ {active} : RunOK(r)'
  BY OthersKeep DEF OrchestratorInv
<1> QED BY <1>1, <1>2, <1>3 DEF OrchestratorInv

\* What is known of the active Run at a stage of its work.
LEMMA WorkKnown ==
  ASSUME OrchestratorInv, NEW s \in Working, At(s)
  PROVE  /\ Types /\ active \in Runs /\ active # None /\ stage = s /\ stage \in Working
         /\ answered[active] = None /\ place[active] = "running"
         /\ status[active] \in {"queued", "running", "failed"}
         /\ cleanups[active] = IF s \in Cleaned THEN 1 ELSE 0
         /\ PatchOK /\ (active \in doubts => "other" \in context.reasons)
         /\ context.init = (active \in Initializations)
         /\ context \in ContextType /\ files \in [Runs -> FilesType]
         /\ files[active] \in FilesType
BY DEF OrchestratorInv, Types, ActiveOK, SlotOK, At

\* Reasons found are added, and whoever is doubted has a reason.
LEMMA ReasonsFound ==
  ASSUME context \in ContextType, NEW found \in SUBSET Reasons, Doubting(found),
         active \in doubts => "other" \in context.reasons,
         context'.reasons = Blocked(found)
  PROVE  /\ active \in doubts' => "other" \in context'.reasons
         /\ \A r \in Runs \ {active} : r \in doubts' <=> r \in doubts
         /\ Blocked(found) \in SUBSET Reasons
<1>1. context.reasons \in SUBSET Reasons
  BY DEF ContextType
<1>2. Blocked(found) \in SUBSET Reasons
  BY <1>1 DEF Blocked
<1>3. context.reasons \subseteq context'.reasons /\ found \subseteq context'.reasons
  BY DEF Blocked
<1>4. CASE found \ {"browser"} = {}
  <2>1. doubts' = doubts
    BY <1>4 DEF Doubting
  <2> QED BY <1>2, <1>3, <2>1
<1>5. CASE found \ {"browser"} # {}
  <2>1. doubts' = doubts \cup {active}
    BY <1>5 DEF Doubting
  <2>2. "other" \in found
    BY <1>5 DEF Reasons
  <2> QED BY <1>2, <1>3, <2>1, <2>2
<1> QED BY <1>4, <1>5

\* What a step of the pipeline has to show: how the patch fares, and whom it doubts.
LEMMA StageInv ==
  ASSUME OrchestratorInv, NEW s \in Working, NEW t \in Working \cup {"failed"},
         At(s), GoTo(t), KeepsRest,
         context' \in ContextType, context'.init = context.init, tree' \in Int,
         status' \in [Runs -> StatusType], files' \in [Runs -> FilesType],
         tested' \in [Runs -> Int \cup {Untested}], cleanups' \in [Runs -> {0, 1}],
         \A r \in Runs \ {active} :
           /\ status'[r] = status[r] /\ files'[r] = files[r] /\ tested'[r] = tested[r]
           /\ cleanups'[r] = cleanups[r] /\ (r \in doubts' <=> r \in doubts),
         active \in doubts' => "other" \in context'.reasons,
         t \in Working => status'[active] \in {"queued", "running", "failed"},
         t = "failed" => status'[active] = "failed",
         t \in Working => cleanups'[active] = IF t \in Cleaned THEN 1 ELSE 0,
         PatchOK'
  PROVE  OrchestratorInv'
<1>1. UNCHANGED <<active, answered, place>> /\ stage' = t
  BY DEF KeepsRest, GoTo
<1>2. Types' /\ Others
  BY <1>1, WorkKnown DEF Types, Others, Working, Stages
<1>3. SlotOK'
  BY <1>1, WorkKnown DEF SlotOK, Working, Stages
<1>4. ActiveOK'
  BY <1>1, <1>3, WorkKnown DEF ActiveOK
<1> QED BY <1>2, <1>4, WorkKnown, WorkInv

\* Steps that only find reasons, or drop those about the browser.
LEMMA ReasonStepInv ==
  ASSUME OrchestratorInv, NEW s \in Working, NEW t \in Working, At(s), GoTo(t), KeepsRest,
         context' \in ContextType, context'.init = context.init, tree' \in Int,
         \A r \in Runs \ {active} : r \in doubts' <=> r \in doubts,
         active \in doubts' => "other" \in context'.reasons,
         UNCHANGED <<status, files, cleanups, tested>>,
         t \in Cleaned <=> s \in Cleaned,
         PatchOK'
  PROVE  OrchestratorInv'
<1>1. /\ status' \in [Runs -> StatusType] /\ files' \in [Runs -> FilesType]
      /\ tested' \in [Runs -> Int \cup {Untested}] /\ cleanups' \in [Runs -> {0, 1}]
      /\ status'[active] \in {"queued", "running", "failed"}
      /\ cleanups'[active] = IF t \in Cleaned THEN 1 ELSE 0
      /\ t # "failed"
  BY WorkKnown DEF Types, Working
<1> QED BY <1>1, StageInv

LEMMA PrepareRunInv == ASSUME OrchestratorInv, PrepareRun PROVE OrchestratorInv'
<1>1. At("prepare") /\ "prepare" \in Working /\ KeepsRest
  BY DEF PrepareRun, Working, Stages
<1>2. PICK t \in {"preflight", "planning"} : GoTo(t)
  BY DEF PrepareRun
<1>3. /\ status' = [status EXCEPT ![active] = "running"] /\ tree' = 0
      /\ UNCHANGED <<context, files, cleanups, tested, doubts, active>>
  BY DEF PrepareRun, KeepsRest
<1>4. status' \in [Runs -> StatusType] /\ status'[active] = "running"
      /\ \A r \in Runs \ {active} : status'[r] = status[r]
  BY <1>1, <1>3, WorkKnown DEF Types, StatusType
<1>5. t \in Working /\ t # "failed" /\ t \notin Cleaned
  BY DEF Working, Stages, Cleaned
<1>6. PatchOK'
  BY <1>2, <1>3 DEF PatchOK, GoTo, Planning, Executed, Reported
<1>7. cleanups[active] = 0 /\ (active \in doubts => "other" \in context.reasons)
      /\ Types
  BY <1>1, WorkKnown DEF Cleaned
<1> QED BY <1>1, <1>2, <1>3, <1>4, <1>5, <1>6, <1>7, StageInv DEF Types

\* The reasons a step adds to the context, and what stays of it.
LEMMA AddReasons ==
  ASSUME context \in ContextType, NEW found \in SUBSET Reasons,
         active \in doubts => "other" \in context.reasons, Doubting(found),
         context' = [context EXCEPT !.reasons = Blocked(found)]
  PROVE  /\ context' \in ContextType /\ context'.init = context.init
         /\ context'.before = context.before
         /\ active \in doubts' => "other" \in context'.reasons
         /\ \A r \in Runs \ {active} : r \in doubts' <=> r \in doubts
<1>1. Blocked(found) \in SUBSET Reasons
  BY DEF Blocked, ContextType
<1>2. /\ context'.reasons = Blocked(found) /\ context' \in ContextType
      /\ context'.init = context.init /\ context'.before = context.before
  BY <1>1 DEF ContextType
<1> QED BY <1>2, ReasonsFound

\* The same at the end of a Session.
LEMMA AddSessionReasons ==
  ASSUME context \in ContextType, NEW found \in SUBSET Reasons,
         active \in doubts => "other" \in context.reasons, Doubting(found),
         context' = [context EXCEPT !.reasons = Blocked(found), !.prompting = FALSE]
  PROVE  /\ context' \in ContextType /\ context'.init = context.init
         /\ context'.before = context.before
         /\ active \in doubts' => "other" \in context'.reasons
         /\ \A r \in Runs \ {active} : r \in doubts' <=> r \in doubts
<1>1. Blocked(found) \in SUBSET Reasons
  BY DEF Blocked, ContextType
<1>2. /\ context'.reasons = Blocked(found) /\ context' \in ContextType
      /\ context'.init = context.init /\ context'.before = context.before
  BY <1>1 DEF ContextType
<1> QED BY <1>2, ReasonsFound

\* A Session begins: nothing else changes.
LEMMA PromptInv == ASSUME OrchestratorInv, Prompt PROVE OrchestratorInv'
<1>1. /\ active # None /\ stage \in SessionStages /\ KeepsRest
      /\ context' = [context EXCEPT !.prompting = TRUE]
      /\ UNCHANGED <<stage, status, tree, files, cleanups, tested, doubts>>
  BY DEF Prompt
<1>2. At(stage) /\ stage \in Working /\ GoTo(stage)
  BY <1>1 DEF At, GoTo, SessionStages, Working, Stages
<1>3. /\ Types /\ PatchOK /\ context \in ContextType /\ active' = active
      /\ (active \in doubts => "other" \in context.reasons)
  BY <1>1, <1>2, WorkKnown DEF KeepsRest
<1>4. /\ context' \in ContextType /\ context'.init = context.init
      /\ context'.before = context.before /\ context'.reasons = context.reasons
  BY <1>1, <1>3 DEF ContextType
<1>5. PatchOK'
  BY <1>1, <1>3, <1>4 DEF PatchOK, PassedOnlyIf
<1>6. tree' \in Int
  BY <1>1, <1>3 DEF Types
<1> QED BY <1>1, <1>2, <1>3, <1>4, <1>5, <1>6, ReasonStepInv

LEMMA PreflightInv ==
  ASSUME OrchestratorInv, AssessInitializationPreflight PROVE OrchestratorInv'
<1>1. /\ At("preflight") /\ GoTo("planning") /\ KeepsRest /\ "preflight" \in Working
      /\ "planning" \in Working /\ "planning" \notin Cleaned /\ "preflight" \notin Cleaned
      /\ UNCHANGED <<status, tree, files, cleanups, tested>>
  BY DEF AssessInitializationPreflight, Working, Stages, Cleaned
<1>2. PICK found \in SUBSET Reasons :
        context' = [context EXCEPT !.reasons = Blocked(found)] /\ Doubting(found)
  BY DEF AssessInitializationPreflight, Reasons
<1>3. PatchOK'
  BY <1>1, WorkKnown DEF PatchOK, GoTo, Planning, Executed, Reported
<1> QED BY <1>1, <1>2, <1>3, WorkKnown, AddReasons, ReasonStepInv DEF Types

LEMMA BrowserInv ==
  ASSUME OrchestratorInv, BrowserForPlan \/ BrowserForCandidate PROVE OrchestratorInv'
<1>1. PICK s \in {"browser", "rebrowser"}, t \in {"recon", "patch"} :
        \E reset \in BOOLEAN : AssessBrowserRequirements(s, t, reset)
  BY DEF BrowserForPlan, BrowserForCandidate
<1>2. PICK reset \in BOOLEAN : AssessBrowserRequirements(s, t, reset)
  BY <1>1
<1>3. /\ At(s) /\ GoTo(t) /\ KeepsRest /\ s \in Working /\ t \in Working
      /\ s \notin Cleaned /\ t \notin Cleaned
      /\ UNCHANGED <<status, tree, files, cleanups, tested, doubts>>
  BY <1>2 DEF AssessBrowserRequirements, Working, Stages, Cleaned
<1>4. PICK found \in SUBSET {"browser"} :
        context' = [context EXCEPT !.reasons =
                      (IF reset THEN context.reasons \ {"browser"} ELSE context.reasons) \cup found]
  BY <1>2 DEF AssessBrowserRequirements
<1>5. context \in ContextType /\ tree \in Int /\ (active \in doubts => "other" \in context.reasons)
  BY <1>3, WorkKnown DEF Types
<1> DEFINE R == (IF reset THEN context.reasons \ {"browser"} ELSE context.reasons) \cup found
<1>6. R \in SUBSET Reasons /\ ("other" \in context.reasons => "other" \in R)
  BY <1>5 DEF ContextType, Reasons
<1>7. context' = [context EXCEPT !.reasons = R]
  BY <1>4
<1> HIDE DEF R
<1>8. context' \in ContextType /\ context'.reasons = R /\ context'.init = context.init
  BY <1>5, <1>6, <1>7 DEF ContextType
<1>9. active' = active
  BY <1>3 DEF KeepsRest
<1>10. PatchOK'
  BY <1>3, WorkKnown DEF PatchOK, GoTo, Planning, Executed, Reported
<1> QED BY <1>3, <1>5, <1>6, <1>8, <1>9, <1>10, ReasonStepInv

\* Main writes the plan and perhaps the patch; whatever was applied is cleaned.
LEMMA PlanningInv ==
  ASSUME OrchestratorInv, RunMainA \/ RunInitializationCandidateMain PROVE OrchestratorInv'
<1>1. PICK s \in {"planning", "candidate"}, next \in {"browser", "rebrowser"},
           mayPatch \in BOOLEAN : PlanningAttempt(s, next, mayPatch)
  BY WorkKnown DEF RunMainA, RunInitializationCandidateMain, Working, Stages,
     OrchestratorInv, Types, ContextType, At, Answered, PlanningAttempt
<1>2. /\ At(s) /\ KeepsRest /\ s \in Working /\ s \notin Cleaned /\ s \in Planning
      /\ next \in Working /\ next \notin Cleaned /\ next # "failed" /\ s # "failed"
      /\ next \in Planning /\ UNCHANGED <<cleanups, tested, doubts>>
  BY <1>1 DEF PlanningAttempt, Answered, Working, Stages, Cleaned, Planning
<1>3. /\ Types /\ active \in Runs /\ stage = s /\ tree = 0 /\ cleanups[active] = 0
      /\ status[active] \in {"queued", "running", "failed"}
      /\ (active \in doubts => "other" \in context.reasons)
      /\ context \in ContextType /\ files \in [Runs -> FilesType] /\ files[active] \in FilesType
  BY <1>2, WorkKnown DEF PatchOK
<1>4. tree' = 0
  BY <1>1, <1>3 DEF PlanningAttempt, TreeAfterValidation
<1>5. PICK patch \in Int, valid \in BOOLEAN :
        /\ files' = [files EXCEPT ![active].plan = TRUE, ![active].patch = patch]
        /\ \/ /\ valid /\ GoTo(next) /\ UNCHANGED status
              /\ context' = [context EXCEPT !.attempts = 0, !.prompting = FALSE]
           \/ /\ ~valid /\ context.attempts < 2
              /\ context' = [context EXCEPT !.attempts = @ + 1, !.prompting = FALSE]
              /\ UNCHANGED <<stage, status>>
           \/ /\ ~valid /\ GoTo("failed") /\ status' = [status EXCEPT ![active] = "failed"]
              /\ context' = [context EXCEPT !.prompting = FALSE]
  BY <1>1, <1>3, ConstantTypes DEF PlanningAttempt, FilesType
<1>6. /\ files' \in [Runs -> FilesType] /\ \A r \in Runs \ {active} : files'[r] = files[r]
  <2>1. files' = [files EXCEPT ![active] = [files[active] EXCEPT !.plan = TRUE, !.patch = patch]]
    BY <1>3, <1>5
  <2>2. [files[active] EXCEPT !.plan = TRUE, !.patch = patch] \in FilesType
    BY <1>3 DEF FilesType
  <2> QED BY <1>3, <2>1, <2>2
<1>7. /\ tree' \in Int /\ tested' \in [Runs -> Int \cup {Untested}]
      /\ cleanups' \in [Runs -> {0, 1}] /\ cleanups'[active] = 0 /\ active' = active
      /\ \A r \in Runs \ {active} : /\ tested'[r] = tested[r] /\ cleanups'[r] = cleanups[r]
                                    /\ r \in doubts' <=> r \in doubts
  BY <1>2, <1>3, <1>4 DEF Types, KeepsRest
<1>8. CASE /\ GoTo("failed") /\ status' = [status EXCEPT ![active] = "failed"]
           /\ context' = [context EXCEPT !.prompting = FALSE]
  <2> /\ context' \in ContextType /\ context'.init = context.init
      /\ context'.reasons = context.reasons
    BY <1>3, <1>8 DEF ContextType
  <2>1. /\ status' \in [Runs -> StatusType] /\ status'[active] = "failed"
        /\ \A r \in Runs \ {active} : status'[r] = status[r]
    BY <1>3, <1>8 DEF Types, StatusType
  <2>2. PatchOK'
    BY <1>8 DEF PatchOK, GoTo, Planning, Executed, Reported
  <2>3. "failed" \notin Working
    BY DEF Working
  <2> QED BY <1>2, <1>3, <1>6, <1>7, <1>8, <2>1, <2>2, <2>3, StageInv
<1>9. ASSUME NEW t \in {s, next}, GoTo(t), UNCHANGED status, NEW n \in Int,
             context' = [context EXCEPT !.attempts = n, !.prompting = FALSE]
      PROVE  OrchestratorInv'
  <2>1. /\ context' \in ContextType /\ context'.reasons = context.reasons
        /\ context'.init = context.init
    BY <1>3, <1>9 DEF ContextType
  <2>2. PatchOK'
    BY <1>2, <1>4, <1>9 DEF PatchOK, GoTo, Planning, Executed, Reported
  <2>3. status' \in [Runs -> StatusType] /\ \A r \in Runs \ {active} : status'[r] = status[r]
    BY <1>3, <1>9 DEF Types
  <2> QED BY <1>2, <1>3, <1>6, <1>7, <1>9, <2>1, <2>2, <2>3, StageInv
<1>10. /\ context.attempts \in Int /\ context.attempts + 1 \in Int /\ 0 \in Int
       /\ s \in {s, next} /\ next \in {s, next}
  BY <1>3 DEF ContextType
<1>11. CASE /\ GoTo(next) /\ UNCHANGED status
            /\ context' = [context EXCEPT !.attempts = 0, !.prompting = FALSE]
  BY <1>9, <1>10, <1>11
<1>12. CASE /\ context' = [context EXCEPT !.attempts = context.attempts + 1, !.prompting = FALSE]
            /\ UNCHANGED <<stage, status>>
  <2>1. GoTo(s) /\ UNCHANGED status
    BY <1>3, <1>12 DEF GoTo
  <2> QED BY <1>9, <1>10, <1>12, <2>1
<1> QED BY <1>5, <1>8, <1>11, <1>12

LEMMA ReconnaissanceInv == ASSUME OrchestratorInv, RunReconnaissance PROVE OrchestratorInv'
<1>1. /\ At("recon") /\ GoTo("candidate") /\ KeepsRest /\ "recon" \in Working
      /\ "candidate" \in Working /\ "candidate" \notin Cleaned /\ "recon" \notin Cleaned
      /\ files' = [files EXCEPT ![active].execution = "recon"]
      /\ UNCHANGED <<status, tree, cleanups, tested>> /\ "candidate" # "failed"
  BY DEF RunReconnaissance, Answered, Working, Stages, Cleaned
<1>2. PICK found \in SUBSET Reasons :
        /\ context' = [context EXCEPT !.reasons = Blocked(found), !.prompting = FALSE]
        /\ Doubting(found)
  BY DEF RunReconnaissance, RunnerFindings, Reasons
<1>3. /\ Types /\ active \in Runs /\ tree = 0 /\ cleanups[active] = 0 /\ stage = "recon"
      /\ status[active] \in {"queued", "running", "failed"}
      /\ (active \in doubts => "other" \in context.reasons)
      /\ context \in ContextType /\ files \in [Runs -> FilesType] /\ files[active] \in FilesType
  BY <1>1, WorkKnown DEF PatchOK, Planning
<1>4. /\ files' \in [Runs -> FilesType] /\ \A r \in Runs \ {active} : files'[r] = files[r]
  <2>1. files' = [files EXCEPT ![active] = [files[active] EXCEPT !.execution = "recon"]]
    BY <1>1, <1>3
  <2>2. [files[active] EXCEPT !.execution = "recon"] \in FilesType
    BY <1>3 DEF FilesType
  <2> QED BY <1>3, <2>1, <2>2
<1>5. PatchOK'
  BY <1>1, <1>3 DEF PatchOK, GoTo, Planning, Executed, Reported
<1>6. /\ status' \in [Runs -> StatusType] /\ tested' \in [Runs -> Int \cup {Untested}]
      /\ cleanups' \in [Runs -> {0, 1}] /\ tree' \in Int
      /\ status' = status /\ tested' = tested /\ cleanups' = cleanups
  BY <1>1, <1>3 DEF Types
<1> QED BY <1>1, <1>2, <1>3, <1>4, <1>5, <1>6, AddSessionReasons, StageInv

\* The patch is applied to the tree, or there is none, or a person must see it.
LEMMA ScenarioPatchInv == ASSUME OrchestratorInv, PrepareScenarioPatch PROVE OrchestratorInv'
<1>1. /\ At("patch") /\ KeepsRest /\ "patch" \in Working /\ "patch" \notin Cleaned
      /\ "runner" \in Working /\ "runner" \notin Cleaned
      /\ "review_close" \in Working /\ "review_close" \notin Cleaned
      /\ UNCHANGED <<status, files, cleanups, tested>> /\ active' = active
  BY DEF PrepareScenarioPatch, Working, Stages, Cleaned, KeepsRest
<1>2. /\ Types /\ tree = 0 /\ files[active].patch \in Int
      /\ (active \in doubts => "other" \in context.reasons) /\ context \in ContextType
  BY <1>1, WorkKnown DEF PatchOK, Planning, FilesType
<1>3. CASE /\ files[active].patch = 0 /\ GoTo("runner") /\ UNCHANGED tree
           /\ \E found \in SUBSET Reasons :
                context' = [context EXCEPT !.reasons = Blocked(found)] /\ Doubting(found)
  <2>1. PICK found \in SUBSET Reasons :
          context' = [context EXCEPT !.reasons = Blocked(found)] /\ Doubting(found)
    BY <1>3
  <2>2. PatchOK'
    BY <1>1, <1>2, <1>3 DEF PatchOK, GoTo, Planning, Executed, Reported
  <2> QED BY <1>1, <1>2, <1>3, <2>1, <2>2, AddReasons, ReasonStepInv DEF Types
<1>4. CASE tree' = files[active].patch /\ GoTo("runner") /\ UNCHANGED <<context, doubts>>
  <2>1. PatchOK'
    BY <1>1, <1>4 DEF PatchOK, GoTo, Planning, Executed, Reported
  <2> QED BY <1>1, <1>2, <1>4, <2>1, ReasonStepInv
<1>5. CASE /\ tree' \in {tree, 0} /\ GoTo("review_close") /\ Doubting({"other"})
           /\ context' = [context EXCEPT !.reasons = Blocked({"other"}), !.special = TRUE]
  <2>1. PatchOK'
    BY <1>5 DEF PatchOK, GoTo, Planning, Executed, Reported
  <2>2. {"other"} \in SUBSET Reasons /\ Blocked({"other"}) \in SUBSET Reasons
    BY <1>2 DEF Blocked, ContextType, Reasons
  <2>3. /\ context' \in ContextType /\ context'.reasons = Blocked({"other"})
        /\ context'.init = context.init
    BY <1>2, <1>5, <2>2 DEF ContextType
  <2>4. /\ active \in doubts' => "other" \in context'.reasons
        /\ \A r \in Runs \ {active} : r \in doubts' <=> r \in doubts
    BY <1>2, <1>5, <2>2, <2>3, ReasonsFound
  <2>5. tree' \in Int
    BY <1>2, <1>5
  <2> QED BY <1>1, <1>2, <1>5, <2>1, <2>3, <2>4, <2>5, ReasonStepInv
<1> QED BY <1>3, <1>4, <1>5 DEF PrepareScenarioPatch, Reasons

\* The formal Runner works on the tree, which is the patch of the directory.
LEMMA RunnerInv == ASSUME OrchestratorInv, RunRunner PROVE OrchestratorInv'
<1>1. /\ At("runner") /\ GoTo("finishing") /\ KeepsRest /\ "runner" \in Working
      /\ "finishing" \in Working /\ "finishing" \notin Cleaned /\ "runner" \notin Cleaned
      /\ tested' = [tested EXCEPT ![active] = tree] /\ UNCHANGED <<tree, cleanups>>
      /\ "finishing" # "failed" /\ active' = active
  BY DEF RunRunner, Answered, Working, Stages, Cleaned, KeepsRest
<1>2. /\ Types /\ active \in Runs /\ tree = files[active].patch /\ cleanups[active] = 0
      /\ status[active] \in {"queued", "running", "failed"} /\ tree \in Int
      /\ (active \in doubts => "other" \in context.reasons)
      /\ context \in ContextType /\ files \in [Runs -> FilesType] /\ files[active] \in FilesType
  BY <1>1, WorkKnown DEF PatchOK, Types
<1>3. PICK frozen \in BOOLEAN, wrote \in BOOLEAN, found \in RunnerFindings, failed \in BOOLEAN :
        /\ files' = [files EXCEPT ![active].execution = IF wrote THEN "formal" ELSE @]
        /\ context' = [context EXCEPT !.frozen = frozen, !.prompting = FALSE,
                                      !.reasons = Blocked(found \cup FreezeReasons(frozen))]
        /\ Doubting(found \cup FreezeReasons(frozen))
        /\ status' = IF failed THEN [status EXCEPT ![active] = "failed"] ELSE status
  BY DEF RunRunner
<1> DEFINE all == found \cup FreezeReasons(frozen)
<1>4. all \in SUBSET Reasons /\ Blocked(all) \in SUBSET Reasons
  BY <1>2 DEF RunnerFindings, FreezeReasons, Reasons, Blocked, ContextType
<1>5. /\ context' = [context EXCEPT !.frozen = frozen, !.prompting = FALSE,
                                     !.reasons = Blocked(all)]
      /\ Doubting(all)
  BY <1>3
<1> HIDE DEF all
<1>6. /\ context' \in ContextType /\ context'.reasons = Blocked(all)
      /\ context'.init = context.init
  BY <1>2, <1>4, <1>5 DEF ContextType
<1>7. /\ active \in doubts' => "other" \in context'.reasons
      /\ \A r \in Runs \ {active} : r \in doubts' <=> r \in doubts
  BY <1>2, <1>4, <1>5, <1>6, ReasonsFound
<1>8. /\ files' \in [Runs -> FilesType] /\ \A r \in Runs \ {active} : files'[r] = files[r]
      /\ files'[active].patch = files[active].patch
  <2> DEFINE e == IF wrote THEN "formal" ELSE files[active].execution
  <2>1. files' = [files EXCEPT ![active] = [files[active] EXCEPT !.execution = e]]
    BY <1>2, <1>3
  <2>2. e \in {None, "recon", "formal"}
    BY <1>2 DEF FilesType
  <2> HIDE DEF e
  <2>3. /\ [files[active] EXCEPT !.execution = e] \in FilesType
        /\ [files[active] EXCEPT !.execution = e].patch = files[active].patch
    BY <1>2, <2>2 DEF FilesType
  <2> QED BY <1>2, <2>1, <2>3
<1>9. /\ status' \in [Runs -> StatusType] /\ status'[active] \in {"queued", "running", "failed"}
      /\ \A r \in Runs \ {active} : status'[r] = status[r]
  <2>1. CASE failed
    BY <1>2, <1>3, <2>1 DEF Types, StatusType
  <2>2. CASE ~failed
    BY <1>2, <1>3, <2>2 DEF Types
  <2> QED BY <2>1, <2>2
<1>10. /\ tested' \in [Runs -> Int \cup {Untested}] /\ tested'[active] = tree
       /\ \A r \in Runs \ {active} : tested'[r] = tested[r]
       /\ cleanups' \in [Runs -> {0, 1}] /\ tree' \in Int
  BY <1>1, <1>2 DEF Types
<1>11. PatchOK'
  BY <1>1, <1>2, <1>8, <1>10 DEF PatchOK, GoTo, Planning, Executed, Reported
<1> QED BY <1>1, <1>2, <1>6, <1>7, <1>8, <1>9, <1>10, <1>11, StageInv

LEMMA FinishRunnerInv == ASSUME OrchestratorInv, FinishRunner PROVE OrchestratorInv'
<1>1. /\ At("finishing") /\ KeepsRest /\ "finishing" \in Working /\ "finishing" \notin Cleaned
      /\ "checking" \in Working /\ "checking" \notin Cleaned /\ "failed" \notin Working
      /\ UNCHANGED <<status, tree, files, cleanups, tested>>
  BY DEF FinishRunner, Working, Stages, Cleaned
<1>2. PICK found \in SUBSET Reasons :
        context' = [context EXCEPT !.reasons = Blocked(found)] /\ Doubting(found)
  BY DEF FinishRunner, Reasons
<1>3. /\ Types /\ context \in ContextType /\ PatchOK /\ stage = "finishing"
      /\ (active \in doubts => "other" \in context.reasons) /\ active' = active
  BY <1>1, WorkKnown DEF KeepsRest
<1>4. CASE status[active] = "failed"
  <2>1. GoTo("failed")
    BY <1>4 DEF FinishRunner
  <2>2. PatchOK'
    BY <2>1 DEF PatchOK, GoTo, Planning, Executed, Reported
  <2>3. /\ status' \in [Runs -> StatusType] /\ files' \in [Runs -> FilesType]
        /\ tested' \in [Runs -> Int \cup {Untested}] /\ cleanups' \in [Runs -> {0, 1}]
        /\ tree' \in Int /\ status'[active] = "failed"
    BY <1>1, <1>3, <1>4 DEF Types
  <2> QED BY <1>1, <1>2, <1>3, <2>1, <2>2, <2>3, AddReasons, StageInv
<1>5. CASE status[active] # "failed"
  <2>1. GoTo("checking")
    BY <1>5 DEF FinishRunner
  <2>2. PatchOK'
    BY <1>1, <1>3, <1>5, <2>1 DEF PatchOK, GoTo, Planning, Executed, Reported
  <2> QED BY <1>1, <1>2, <1>3, <2>1, <2>2, AddReasons, ReasonStepInv DEF Types
<1> QED BY <1>4, <1>5

LEMMA ValidatePatchInv ==
  ASSUME OrchestratorInv, ValidateScenarioPatchForReview PROVE OrchestratorInv'
<1>1. /\ At("checking") /\ GoTo("reviewer") /\ KeepsRest
      /\ "checking" \in Working /\ "checking" \notin Cleaned
      /\ "reviewer" \in Working /\ "reviewer" \notin Cleaned
      /\ UNCHANGED <<status, files, cleanups, tested>>
  BY DEF ValidateScenarioPatchForReview, Working, Stages, Cleaned
<1>2. /\ Types /\ context \in ContextType /\ PatchOK /\ stage = "checking"
      /\ (active \in doubts => "other" \in context.reasons) /\ active' = active
  BY <1>1, WorkKnown DEF KeepsRest
<1>3. PatchOK'
  BY <1>1, <1>2 DEF PatchOK, GoTo, Planning, Executed, Reported
<1>4. CASE files[active].patch = 0
  <2>1. UNCHANGED <<context, doubts, tree>>
    BY <1>4 DEF ValidateScenarioPatchForReview
  <2> QED BY <1>1, <1>2, <1>3, <2>1, ReasonStepInv DEF Types
<1>5. CASE files[active].patch # 0
  <2>1. PICK found \in SUBSET Reasons :
          context' = [context EXCEPT !.reasons = Blocked(found)] /\ Doubting(found)
    BY <1>5 DEF ValidateScenarioPatchForReview, Reasons
  <2>2. tree' \in Int
    BY <1>5 DEF ValidateScenarioPatchForReview
  <2> QED BY <1>1, <1>2, <1>3, <2>1, <2>2, AddReasons, ReasonStepInv
<1> QED BY <1>4, <1>5

LEMMA ReviewerInv == ASSUME OrchestratorInv, RunReviewer PROVE OrchestratorInv'
<1>1. /\ At("reviewer") /\ GoTo("retained") /\ KeepsRest
      /\ "reviewer" \in Working /\ "reviewer" \notin Cleaned
      /\ "retained" \in Working /\ "retained" \notin Cleaned /\ "retained" # "failed"
      /\ files' = [files EXCEPT ![active].review = TRUE]
      /\ UNCHANGED <<status, tree, cleanups, tested>> /\ active' = active
  BY DEF RunReviewer, Answered, Working, Stages, Cleaned, KeepsRest
<1>2. PICK found \in SUBSET Reasons :
        /\ context' = [context EXCEPT !.reasons = Blocked(found), !.prompting = FALSE]
        /\ Doubting(found)
  <2>1. PICK found \in SUBSET {"other"} :
          LET all == found \cup (IF context.frozen THEN {} ELSE {"other"}) IN
            /\ context' = [context EXCEPT !.reasons = Blocked(all), !.prompting = FALSE]
            /\ Doubting(all)
    BY DEF RunReviewer
  <2>2. found \cup (IF context.frozen THEN {} ELSE {"other"}) \in SUBSET Reasons
    BY DEF Reasons
  <2> QED BY <2>1, <2>2
<1>3. /\ Types /\ active \in Runs /\ cleanups[active] = 0 /\ PatchOK /\ stage = "reviewer"
      /\ status[active] \in {"queued", "running", "failed"}
      /\ (active \in doubts => "other" \in context.reasons)
      /\ context \in ContextType /\ files \in [Runs -> FilesType] /\ files[active] \in FilesType
  BY <1>1, WorkKnown
<1>4. /\ files' \in [Runs -> FilesType] /\ \A r \in Runs \ {active} : files'[r] = files[r]
      /\ files'[active].patch = files[active].patch
  <2>1. files' = [files EXCEPT ![active] = [files[active] EXCEPT !.review = TRUE]]
    BY <1>1, <1>3
  <2>2. /\ [files[active] EXCEPT !.review = TRUE] \in FilesType
        /\ [files[active] EXCEPT !.review = TRUE].patch = files[active].patch
    BY <1>3 DEF FilesType
  <2> QED BY <1>3, <2>1, <2>2
<1>5. PatchOK'
  BY <1>1, <1>3, <1>4 DEF PatchOK, GoTo, Planning, Executed, Reported
<1>6. /\ status' \in [Runs -> StatusType] /\ tested' \in [Runs -> Int \cup {Untested}]
      /\ cleanups' \in [Runs -> {0, 1}] /\ tree' \in Int
      /\ status' = status /\ tested' = tested /\ cleanups' = cleanups
  BY <1>1, <1>3 DEF Types
<1> QED BY <1>1, <1>2, <1>3, <1>4, <1>5, <1>6, AddSessionReasons, StageInv

\* The patch that was executed is remembered before the report is written.
LEMMA RetainedInv == ASSUME OrchestratorInv, CleanupRetainedEvidence PROVE OrchestratorInv'
<1>1. /\ At("retained") /\ GoTo("final") /\ KeepsRest
      /\ "retained" \in Working /\ "retained" \notin Cleaned
      /\ "final" \in Working /\ "final" \notin Cleaned
      /\ UNCHANGED <<status, tree, files, cleanups, tested>>
  BY DEF CleanupRetainedEvidence, Working, Stages, Cleaned
<1>2. PICK found \in SUBSET Reasons :
        /\ context' = [context EXCEPT !.reasons = Blocked(found), !.before = files[active].patch]
        /\ Doubting(found)
  BY DEF CleanupRetainedEvidence, Reasons
<1>3. /\ Types /\ context \in ContextType /\ PatchOK /\ stage = "retained"
      /\ files[active].patch \in Int
      /\ (active \in doubts => "other" \in context.reasons) /\ active' = active
  BY <1>1, WorkKnown DEF KeepsRest, FilesType
<1>4. Blocked(found) \in SUBSET Reasons
  BY <1>3 DEF Blocked, ContextType
<1>5. /\ context' \in ContextType /\ context'.reasons = Blocked(found)
      /\ context'.before = files[active].patch /\ context'.init = context.init
  BY <1>2, <1>3, <1>4 DEF ContextType
<1>6. /\ active \in doubts' => "other" \in context'.reasons
      /\ \A r \in Runs \ {active} : r \in doubts' <=> r \in doubts
  BY <1>2, <1>3, <1>5, ReasonsFound
<1>7. PatchOK'
  BY <1>1, <1>3, <1>5 DEF PatchOK, GoTo, Planning, Executed, Reported
<1> QED BY <1>1, <1>3, <1>5, <1>6, <1>7, ReasonStepInv DEF Types

\* In an initialization the report may come with another patch than was executed.
LEMMA MainBInv == ASSUME OrchestratorInv, RunMainB PROVE OrchestratorInv'
<1>1. /\ At("final") /\ GoTo("force") /\ KeepsRest
      /\ "final" \in Working /\ "final" \notin Cleaned
      /\ "force" \in Working /\ "force" \notin Cleaned /\ "force" # "failed"
      /\ UNCHANGED <<status, tree, cleanups, tested, doubts>> /\ active' = active
  BY DEF RunMainB, Answered, Working, Stages, Cleaned, KeepsRest
<1>2. /\ Types /\ active \in Runs /\ cleanups[active] = 0 /\ PatchOK /\ stage = "final"
      /\ status[active] \in {"queued", "running", "failed"}
      /\ (active \in doubts => "other" \in context.reasons)
      /\ context \in ContextType /\ files \in [Runs -> FilesType] /\ files[active] \in FilesType
  BY <1>1, WorkKnown
<1>3. PICK result \in Results, patch \in Int :
        /\ ~context.init => patch = files[active].patch
        /\ files' = [files EXCEPT ![active].report = result, ![active].patch = patch]
        /\ context' = [context EXCEPT !.prompting = FALSE]
  <2>1. PICK result \in Results,
             patch \in (IF context.init THEN Patches ELSE {files[active].patch}) :
          /\ files' = [files EXCEPT ![active].report = result, ![active].patch = patch]
          /\ context' = [context EXCEPT !.prompting = FALSE]
    BY DEF RunMainB
  <2>2. patch \in Int /\ (~context.init => patch = files[active].patch)
    BY <1>2, ConstantTypes DEF FilesType
  <2> QED BY <2>1, <2>2
<1>4. /\ files' \in [Runs -> FilesType] /\ \A r \in Runs \ {active} : files'[r] = files[r]
      /\ files'[active].patch = patch
  <2> DEFINE f == [files[active] EXCEPT !.report = result, !.patch = patch]
  <2>1. files' = [files EXCEPT ![active] = f]
    BY <1>2, <1>3
  <2>2. f \in FilesType /\ f.patch = patch
    BY <1>2 DEF FilesType
  <2> HIDE DEF f
  <2> QED BY <1>2, <2>1, <2>2
<1>5. /\ context' \in ContextType /\ context'.init = context.init
      /\ context'.before = context.before /\ context'.reasons = context.reasons
  BY <1>2, <1>3 DEF ContextType
<1>6. PatchOK'
  BY <1>1, <1>2, <1>3, <1>4, <1>5 DEF PatchOK, GoTo, Planning, Executed, Reported
<1> QED BY <1>1, <1>2, <1>4, <1>5, <1>6, StageInv DEF Types

\* The report says passed only if there is no reason against it, also not the patch, or
\* its result is missed.
LEMMA ForceBlockedInv == ASSUME OrchestratorInv, ForceBlocked PROVE OrchestratorInv'
<1> DEFINE reasons == Blocked(FinalPatchReasons)
<1>1. /\ At("force") /\ KeepsRest /\ "force" \in Working /\ "force" \notin Cleaned
      /\ "closing" \in Working /\ "closing" \notin Cleaned /\ "closing" # "failed"
      /\ "failed" \notin Working
      /\ context' = [context EXCEPT !.reasons = reasons]
      /\ Doubting(FinalPatchReasons)
      /\ UNCHANGED <<cleanups, tested>> /\ active' = active
  BY DEF ForceBlocked, Working, Stages, Cleaned, KeepsRest
<1>2. /\ Types /\ active \in Runs /\ cleanups[active] = 0 /\ PatchOK /\ stage = "force"
      /\ status[active] \in {"queued", "running", "failed"}
      /\ (active \in doubts => "other" \in context.reasons)
      /\ context.init = (active \in Initializations)
      /\ context \in ContextType /\ files \in [Runs -> FilesType] /\ files[active] \in FilesType
  BY <1>1, WorkKnown
<1>3. FinalPatchReasons \in SUBSET Reasons
  BY DEF FinalPatchReasons, Reasons
<1>4. /\ context' \in ContextType /\ context'.init = context.init
      /\ active \in doubts' => "other" \in context'.reasons
      /\ \A r \in Runs \ {active} : r \in doubts' <=> r \in doubts
      /\ context'.reasons = reasons
  <2>1. reasons \in SUBSET Reasons
    BY <1>2, <1>3 DEF Blocked, ContextType
  <2> HIDE DEF reasons
  <2>2. /\ context' \in ContextType /\ context'.init = context.init
        /\ context'.reasons = reasons
    BY <1>1, <1>2, <2>1 DEF ContextType
  <2> QED BY <1>1, <1>2, <1>3, <2>2, ReasonsFound DEF reasons
<1>5. tree' \in Int /\ tested' = tested /\ cleanups' = cleanups
  BY <1>1, <1>2 DEF ForceBlocked, Types
<1>6. active \notin Initializations => tested[active] = files[active].patch
  BY <1>2 DEF PatchOK
<1>7. ASSUME reasons = {}
      PROVE  tested[active] = files[active].patch /\ active \notin doubts'
  <2>1. FinalPatchReasons = {} /\ context'.reasons = {}
    BY <1>4, <1>7 DEF Blocked
  <2>2. context.before = files[active].patch
    BY <1>2, <2>1 DEF PatchOK, FinalPatchReasons
  <2> QED BY <1>2, <1>4, <2>1, <2>2 DEF PatchOK
<1> HIDE DEF reasons
<1>8. CASE reasons = {} /\ GoTo("closing") /\ UNCHANGED <<status, files>>
  <2>1. PassedOnlyIf(active)'
    BY <1>1, <1>5, <1>7, <1>8 DEF PassedOnlyIf
  <2>2. PatchOK'
    BY <1>1, <1>8, <2>1 DEF PatchOK, GoTo, Planning, Executed, Reported
  <2> QED BY <1>1, <1>2, <1>4, <1>5, <1>8, <2>2, StageInv DEF Types
<1>9. ASSUME NEW f \in FilesType, files' = [files EXCEPT ![active] = f],
             f.report # "passed" \/ (f.missed /\ f.patch = files[active].patch),
             GoTo("closing"), UNCHANGED status
      PROVE  OrchestratorInv'
  <2>1. /\ files' \in [Runs -> FilesType] /\ \A r \in Runs \ {active} : files'[r] = files[r]
        /\ files'[active] = f
    BY <1>2, <1>9
  <2>2. PassedOnlyIf(active)'
    BY <1>1, <1>5, <1>6, <1>9, <2>1 DEF PassedOnlyIf
  <2>3. PatchOK'
    BY <1>1, <1>9, <2>2 DEF PatchOK, GoTo, Planning, Executed, Reported
  <2> QED BY <1>1, <1>2, <1>4, <1>5, <1>9, <2>1, <2>3, StageInv DEF Types
<1>10. CASE /\ status' = [status EXCEPT ![active] = "failed"]
            /\ GoTo("failed") /\ UNCHANGED files
  <2>1. /\ status' \in [Runs -> StatusType] /\ status'[active] = "failed"
        /\ \A r \in Runs \ {active} : status'[r] = status[r]
    BY <1>2, <1>10 DEF Types, StatusType
  <2>2. PatchOK'
    BY <1>10 DEF PatchOK, GoTo, Planning, Executed, Reported
  <2> QED BY <1>1, <1>2, <1>4, <1>5, <1>10, <2>1, <2>2, StageInv DEF Types
<1>11. CASE /\ files' = [files EXCEPT ![active].report = "blocked"]
            /\ GoTo("closing") /\ UNCHANGED status
  <2> DEFINE f == [files[active] EXCEPT !.report = "blocked"]
  <2>1. files' = [files EXCEPT ![active] = f] /\ f \in FilesType /\ f.report # "passed"
    BY <1>2, <1>11 DEF FilesType, Results
  <2> HIDE DEF f
  <2> QED BY <1>9, <1>11, <2>1
<1>12. CASE /\ files' = [files EXCEPT ![active].missed = (files[active].report = "passed")]
            /\ GoTo("closing") /\ UNCHANGED status
  <2> DEFINE f == [files[active] EXCEPT !.missed = (files[active].report = "passed")]
  <2>1. files' = [files EXCEPT ![active] = f]
    BY <1>2, <1>12
  <2>2. f \in FilesType /\ f.report = files[active].report /\ f.patch = files[active].patch
    BY <1>2 DEF FilesType
  <2>3. f.report = "passed" => f.missed
    BY <1>2 DEF FilesType
  <2> HIDE DEF f
  <2> QED BY <1>9, <1>12, <2>1, <2>2, <2>3
<1> QED BY <1>8, <1>10, <1>11, <1>12 DEF ForceBlocked, reasons

\* The clean-up counts once, whoever comes first.
LEMMA CleanupInv ==
  ASSUME OrchestratorInv, CleanupBeforeReport \/ CleanupInReview PROVE OrchestratorInv'
<1>1. PICK s \in {"closing", "review_clean"}, t \in {"report", "review_report"} :
        FinishCleanup(s, t) /\ (s = "closing" <=> t = "report")
  BY DEF CleanupBeforeReport, CleanupInReview
<1>2. /\ At(s) /\ GoTo(t) /\ KeepsRest /\ s \in Working /\ s \notin Cleaned
      /\ t \in Working /\ t \in Cleaned /\ t # "failed"
      /\ cleanups' = [cleanups EXCEPT ![active] = IF @ = 0 THEN 1 ELSE @]
      /\ UNCHANGED <<status, context, tree, files, tested, doubts>> /\ active' = active
  BY <1>1 DEF FinishCleanup, Working, Stages, Cleaned, KeepsRest
<1>3. /\ Types /\ active \in Runs /\ cleanups[active] = 0 /\ PatchOK /\ stage = s
      /\ status[active] \in {"queued", "running", "failed"}
      /\ (active \in doubts => "other" \in context.reasons)
  BY <1>2, WorkKnown
<1>4. /\ cleanups' \in [Runs -> {0, 1}] /\ cleanups'[active] = 1
      /\ \A r \in Runs \ {active} : cleanups'[r] = cleanups[r]
  BY <1>2, <1>3 DEF Types
<1>5. PatchOK'
  BY <1>1, <1>2, <1>3 DEF PatchOK, GoTo, Planning, Executed, Reported, PassedOnlyIf
<1> QED BY <1>2, <1>3, <1>4, <1>5, StageInv DEF Types

LEMMA FinalReportInv ==
  ASSUME OrchestratorInv, ValidateFinalReport \/ FinishScenarioReviewRunner
  PROVE  OrchestratorInv'
<1>1. PICK s \in {"report", "review_close"}, t \in {"finalize", "review_clean"} :
        /\ At(s) /\ GoTo(t) /\ KeepsRest /\ (s = "report" <=> t = "finalize")
        /\ UNCHANGED <<status, context, tree, files, cleanups, tested, doubts>>
  BY DEF ValidateFinalReport, FinishScenarioReviewRunner
<1>2. s \in Working /\ t \in Working /\ (t \in Cleaned <=> s \in Cleaned) /\ active' = active
  BY <1>1 DEF Working, Stages, Cleaned, KeepsRest
<1>3. /\ Types /\ PatchOK /\ stage = s /\ context \in ContextType
      /\ (active \in doubts => "other" \in context.reasons)
  BY <1>1, <1>2, WorkKnown
<1>4. PatchOK'
  BY <1>1, <1>2, <1>3 DEF PatchOK, GoTo, Planning, Executed, Reported, PassedOnlyIf
<1> QED BY <1>1, <1>2, <1>3, <1>4, ReasonStepInv DEF Types

\* The report of a patch a person must review says blocked.
LEMMA ReviewReportInv ==
  ASSUME OrchestratorInv, FinishScenarioReviewRun PROVE OrchestratorInv'
<1>1. /\ At("review_report") /\ GoTo("finalize") /\ KeepsRest
      /\ "review_report" \in Working /\ "review_report" \in Cleaned
      /\ "finalize" \in Working /\ "finalize" \in Cleaned /\ "finalize" # "failed"
      /\ files' = [files EXCEPT ![active].report = "blocked"]
      /\ UNCHANGED <<status, context, tree, cleanups, tested, doubts>> /\ active' = active
  BY DEF FinishScenarioReviewRun, Working, Stages, Cleaned, KeepsRest
<1>2. /\ Types /\ active \in Runs /\ cleanups[active] = 1
      /\ status[active] \in {"queued", "running", "failed"}
      /\ (active \in doubts => "other" \in context.reasons)
      /\ context \in ContextType /\ files \in [Runs -> FilesType] /\ files[active] \in FilesType
  BY <1>1, WorkKnown
<1>3. /\ files' \in [Runs -> FilesType] /\ \A r \in Runs \ {active} : files'[r] = files[r]
      /\ files'[active].report = "blocked"
  <2> DEFINE f == [files[active] EXCEPT !.report = "blocked"]
  <2>1. files' = [files EXCEPT ![active] = f]
    BY <1>1, <1>2
  <2>2. f \in FilesType /\ f.report = "blocked"
    BY <1>2 DEF FilesType, Results
  <2> HIDE DEF f
  <2> QED BY <1>2, <2>1, <2>2
<1>4. PatchOK'
  BY <1>1, <1>3 DEF PatchOK, GoTo, Planning, Executed, Reported, PassedOnlyIf
<1> QED BY <1>1, <1>2, <1>3, <1>4, StageInv DEF Types

-----------------------------------------------------------------------------
(***************************************************************************)
(* Completion, failure and the end of a Run.                               *)
(***************************************************************************)
\* After the rename, the directory holds what the report was checked against.
LEMMA FinalizeInv == ASSUME OrchestratorInv, Finalize PROVE OrchestratorInv'
<1>1. /\ At("finalize") /\ GoTo("persist") /\ "finalize" \in Working /\ "finalize" \in Cleaned
      /\ place' = [place EXCEPT ![active] = "completed"]
      /\ status' = [status EXCEPT ![active] = "completed"]
      /\ UNCHANGED <<active, context, tree, answered, cleanups, tested, doubts>>
  BY DEF Finalize, Working, Stages, Cleaned, facts
<1>2. /\ Types /\ active \in Runs /\ cleanups[active] = 1 /\ PatchOK /\ stage = "finalize"
      /\ answered[active] = None
      /\ (active \in doubts => "other" \in context.reasons)
      /\ context.init = (active \in Initializations)
      /\ files \in [Runs -> FilesType] /\ files[active] \in FilesType
      /\ \A r \in Runs : RunOK(r)
  BY <1>1, WorkKnown DEF OrchestratorInv
<1>3. /\ files' \in [Runs -> FilesType] /\ \A r \in Runs \ {active} : files'[r] = files[r]
      /\ files'[active].report = files[active].report
      /\ files'[active].patch = files[active].patch /\ files'[active].missed = files[active].missed
  <2> DEFINE f == IF context.special
                  THEN [files[active] EXCEPT !.plan = FALSE, !.execution = None, !.review = FALSE]
                  ELSE files[active]
  <2>1. files' = [files EXCEPT ![active] = f]
    BY <1>2 DEF Finalize
  <2>2. /\ f \in FilesType /\ f.report = files[active].report
        /\ f.patch = files[active].patch /\ f.missed = files[active].missed
    BY <1>2 DEF FilesType, None
  <2> HIDE DEF f
  <2> QED BY <1>2, <2>1, <2>2
<1>4. /\ place' \in [Runs -> {None, "running", "completed"}] /\ place'[active] = "completed"
      /\ status' \in [Runs -> StatusType] /\ status'[active] = "completed"
      /\ \A r \in Runs \ {active} : status'[r] = status[r] /\ place'[r] = place[r]
  BY <1>1, <1>2 DEF Types, StatusType
<1>5. Types' /\ Others
  BY <1>1, <1>2, <1>3, <1>4 DEF Types, Others, GoTo, Stages
<1>6. PassedOnlyIf(active)'
  BY <1>1, <1>2, <1>3 DEF PatchOK, Reported, PassedOnlyIf
<1>7. RunOK(active)'
  BY <1>1, <1>2, <1>4, <1>6 DEF RunOK, None
<1>8. ActiveOK'
  <2>1. SlotOK'
    BY <1>1, <1>2, <1>4 DEF SlotOK, Working, GoTo
  <2>2. PatchOK'
    BY <1>1 DEF PatchOK, GoTo, Planning, Executed, Reported
  <2> QED BY <1>1, <1>2, <2>1, <2>2 DEF ActiveOK
<1>9. \A r \in Runs \ {active} : RunOK(r)'
  BY <1>2, <1>5, OthersKeep
<1> QED BY <1>1, <1>5, <1>7, <1>8, <1>9 DEF OrchestratorInv

\* What is known of a Run that has completed or failed.
LEMMA EndKnown ==
  ASSUME OrchestratorInv, NEW s \in {"persist", "failed", "leaving"}, At(s)
  PROVE  /\ Types /\ active \in Runs /\ active # None /\ stage = s
         /\ answered[active] = None
         /\ \/ place[active] = "running" /\ status[active] = "failed" /\ s # "persist"
            \/ place[active] = "completed" /\ status[active] = "completed"
         /\ s = "leaving" => cleanups[active] = 1
         /\ (active \in doubts => "other" \in context.reasons)
         /\ context.init = (active \in Initializations)
         /\ \A r \in Runs : RunOK(r)
BY DEF OrchestratorInv, Types, ActiveOK, SlotOK, At

LEMMA PersistInv == ASSUME OrchestratorInv, PersistCompletedRun PROVE OrchestratorInv'
<1>1. /\ At("persist") /\ GoTo("failed")
      /\ UNCHANGED <<active, status, context, tree, place, files, answered, cleanups, tested,
                     doubts>>
  BY DEF PersistCompletedRun, facts
<1>2. Types' /\ \A r \in Runs : RunOK(r)'
  BY <1>1, EndKnown DEF Types, RunOK, PassedOnlyIf, GoTo, Stages
<1>3. SlotOK' /\ PatchOK'
  BY <1>1, EndKnown DEF SlotOK, PatchOK, GoTo, Working, Planning, Executed, Reported
<1> QED BY <1>1, <1>2, <1>3, EndKnown DEF OrchestratorInv, ActiveOK

LEMMA CleanupAtEndInv == ASSUME OrchestratorInv, CleanupAtEnd PROVE OrchestratorInv'
<1>1. /\ At("failed") /\ GoTo("leaving") /\ KeepsRest
      /\ cleanups' = [cleanups EXCEPT ![active] = IF @ = 0 THEN 1 ELSE @]
      /\ UNCHANGED <<status, context, tree, files, tested, doubts>>
      /\ UNCHANGED <<active, place, answered>>
  BY DEF CleanupAtEnd, FinishCleanup, KeepsRest
<1>2. /\ cleanups' \in [Runs -> {0, 1}] /\ cleanups'[active] = 1
      /\ \A r \in Runs \ {active} : cleanups'[r] = cleanups[r]
  BY <1>1, EndKnown DEF Types
<1>3. Types' /\ Others
  BY <1>1, <1>2, EndKnown DEF Types, Others, GoTo, Stages
<1>4. RunOK(active)'
  BY <1>1, <1>2, EndKnown DEF RunOK, None, PassedOnlyIf
<1>5. SlotOK' /\ PatchOK'
  BY <1>1, <1>2, EndKnown DEF SlotOK, PatchOK, GoTo, Working, Planning, Executed, Reported
<1>6. \A r \in Runs \ {active} : RunOK(r)'
  BY <1>1, <1>3, EndKnown, OthersKeep
<1>7. ActiveOK'
  BY <1>1, <1>5, EndKnown DEF ActiveOK
<1>8. \A r \in Runs : RunOK(r)'
  BY <1>1, <1>4, <1>6
<1> QED BY <1>3, <1>7, <1>8 DEF OrchestratorInv

LEMMA LeaveInv == ASSUME OrchestratorInv, Leave PROVE OrchestratorInv'
<1>1. /\ At("leaving") /\ active' = None /\ stage' = "idle" /\ context' = NoContext
      /\ tree' \in {tree, 0} /\ answered' = [answered EXCEPT ![active] = status[active]]
      /\ UNCHANGED <<status, place, files, cleanups, tested, doubts>>
  BY DEF Leave, disk
<1>2. /\ answered' \in [Runs -> {None, "completed", "failed"}]
      /\ answered'[active] = status[active]
      /\ \A r \in Runs \ {active} : answered'[r] = answered[r]
  BY <1>1, EndKnown DEF Types
<1>3. Types' /\ Others
  <2>1. Types /\ NoContext \in ContextType /\ tree' \in Int
    BY <1>1, EndKnown, ConstantTypes DEF Types
  <2>2. Types'
    BY <1>1, <1>2, <2>1 DEF Types, Stages
  <2> QED BY <1>1, <1>2, <2>2 DEF Others
<1>4. \A r \in Runs : RunOK(r)'
  <2>1. CASE place[active] = "running" /\ status[active] = "failed"
    BY <1>1, <1>2, <2>1, EndKnown DEF RunOK, None, PassedOnlyIf
  <2>2. CASE place[active] = "completed" /\ status[active] = "completed"
    BY <1>1, <1>2, <2>2, EndKnown DEF RunOK, None, PassedOnlyIf
  <2> QED BY <1>1, <2>1, <2>2, EndKnown
<1> QED BY <1>1, <1>3, <1>4 DEF OrchestratorInv, ActiveOK

\* Whatever throws before the rename fails the Run; after it, nothing changes.
LEMMA ExecutionFailsInv == ASSUME OrchestratorInv, ExecutionFails PROVE OrchestratorInv'
<1>1. /\ active # None /\ stage \in (Working \ {"finishing"}) \cup {"persist"} /\ KeepsRest
      /\ status' = Marked
      /\ GoTo(IF stage = "runner" THEN "finishing" ELSE "failed")
      /\ context' = [context EXCEPT !.prompting = FALSE] /\ context \in ContextType
      /\ UNCHANGED <<tree, files, cleanups, tested, doubts, active, place, answered>>
  BY DEF ExecutionFails, Working, KeepsRest, OrchestratorInv, Types
<1> /\ context' \in ContextType /\ context'.init = context.init
    /\ context'.reasons = context.reasons
  BY <1>1 DEF ContextType
<1>2. CASE stage \in Working \ {"finishing"}
  <2> DEFINE t == IF stage = "runner" THEN "finishing" ELSE "failed"
  <2>1. At(stage)
    BY <1>1 DEF At
  <2>2. /\ Types /\ active \in Runs /\ status[active] \in {"queued", "running", "failed"}
        /\ cleanups[active] = IF stage \in Cleaned THEN 1 ELSE 0
        /\ (active \in doubts => "other" \in context.reasons)
    BY <1>2, <2>1, WorkKnown
  <2>3. status' = [status EXCEPT ![active] = "failed"]
    BY <1>1, <2>2 DEF Marked
  <2>4. /\ status' \in [Runs -> StatusType] /\ status'[active] = "failed"
        /\ \A r \in Runs \ {active} : status'[r] = status[r]
    BY <2>2, <2>3 DEF Types, StatusType
  <2>5. /\ t \in Working \cup {"failed"} /\ t \notin Cleaned /\ GoTo(t)
        /\ t \in Working => stage = "runner"
        /\ stage = "runner" => stage \notin Cleaned
    BY <1>1 DEF Working, Stages, Cleaned
  <2>6. PatchOK'
    BY <1>1, <2>4 DEF PatchOK, GoTo, Planning, Executed, Reported
  <2> HIDE DEF t
  <2> QED BY <1>1, <1>2, <2>1, <2>2, <2>4, <2>5, <2>6, StageInv DEF Types
<1>3. CASE stage = "persist"
  <2>1. At("persist") /\ GoTo("failed")
    BY <1>1, <1>3 DEF At
  <2>2. status' = status
    BY <1>1, <2>1, EndKnown DEF Marked
  <2>3. Types' /\ \A r \in Runs : RunOK(r)'
    BY <1>1, <2>1, <2>2, EndKnown DEF Types, RunOK, PassedOnlyIf, GoTo, Stages
  <2>4. SlotOK' /\ PatchOK'
    BY <1>1, <2>1, <2>2, EndKnown
       DEF SlotOK, PatchOK, GoTo, Working, Planning, Executed, Reported
  <2> QED BY <1>1, <2>1, <2>3, <2>4, EndKnown DEF OrchestratorInv, ActiveOK
<1> QED BY <1>1, <1>2, <1>3

LEMMA PipelineInv == ASSUME OrchestratorInv, PipelineStep PROVE OrchestratorInv'
<1>1. CASE \/ Prompt \/ PrepareRun \/ AssessInitializationPreflight \/ RunMainA \/ BrowserForPlan
           \/ RunReconnaissance \/ RunInitializationCandidateMain \/ BrowserForCandidate
           \/ PrepareScenarioPatch
  BY <1>1, PromptInv, PrepareRunInv, PreflightInv, PlanningInv, BrowserInv, ReconnaissanceInv,
     ScenarioPatchInv
<1>2. CASE \/ RunRunner \/ FinishRunner \/ ValidateScenarioPatchForReview
           \/ RunReviewer \/ CleanupRetainedEvidence \/ RunMainB \/ ForceBlocked
  BY <1>2, RunnerInv, FinishRunnerInv, ValidatePatchInv, ReviewerInv, RetainedInv, MainBInv,
     ForceBlockedInv
<1>3. CASE \/ CleanupBeforeReport \/ ValidateFinalReport \/ Finalize \/ PersistCompletedRun
           \/ FinishScenarioReviewRunner \/ CleanupInReview \/ FinishScenarioReviewRun
           \/ CleanupAtEnd \/ Leave
  BY <1>3, CleanupInv, FinalReportInv, FinalizeInv, PersistInv, ReviewReportInv,
     CleanupAtEndInv, LeaveInv
<1> QED BY <1>1, <1>2, <1>3 DEF PipelineStep

-----------------------------------------------------------------------------
(***************************************************************************)
(* Starts, crashes and the recovery.                                       *)
(***************************************************************************)
\* A start takes a Run that has no directory, and so no history.
LEMMA StartInv ==
  ASSUME OrchestratorInv, NEW r \in Runs, StartRequested(r) \/ StartCreated(r) \/ StartFails(r)
  PROVE  OrchestratorInv'
<1>1. CASE StartRequested(r)
  <2>1. UNCHANGED <<active, stage, status, context, tree, place, files, answered, cleanups,
                    tested, doubts>>
    BY <1>1 DEF StartRequested, disk, facts
  <2>2. Types' /\ \A q \in Runs : RunOK(q)'
    BY <2>1 DEF OrchestratorInv, Types, RunOK, PassedOnlyIf
  <2>3. ActiveOK'
    BY <2>1 DEF OrchestratorInv, ActiveOK, SlotOK, PatchOK, PassedOnlyIf
  <2> QED BY <2>1, <2>2, <2>3 DEF OrchestratorInv
<1>2. CASE StartCreated(r)
  <2>1. /\ place[r] = None /\ place' = [place EXCEPT ![r] = "running"]
        /\ status' = [status EXCEPT ![r] = "queued"] /\ active' = r /\ stage' = "prepare"
        /\ UNCHANGED <<tree, files, answered, cleanups, tested, doubts>>
    BY <1>2 DEF StartCreated, facts
  <2>2. context' \in ContextType /\ context'.init = (r \in Initializations)
    <3>1. PICK reviewMode \in BOOLEAN :
            context' = [NoContext EXCEPT !.init = r \in Initializations,
                                         !.reviewMode = reviewMode]
      BY <1>2 DEF StartCreated
    <3>2. (r \in Initializations) \in BOOLEAN
      OBVIOUS
    <3> QED BY <3>1, <3>2, ConstantTypes DEF ContextType
  <2>3. /\ Types /\ status[r] = None /\ cleanups[r] = 0 /\ answered[r] = None /\ r \notin doubts
        /\ \A q \in Runs : RunOK(q)
    BY <2>1 DEF OrchestratorInv, RunOK
  <2>4. /\ place' \in [Runs -> {None, "running", "completed"}] /\ place'[r] = "running"
        /\ status' \in [Runs -> StatusType] /\ status'[r] = "queued"
        /\ \A q \in Runs \ {r} : status'[q] = status[q] /\ place'[q] = place[q]
    BY <2>1, <2>3 DEF Types, StatusType
  <2>5. Types'
    BY <2>1, <2>2, <2>3, <2>4 DEF Types, Stages
  <2>6. \A q \in Runs : RunOK(q)'
    BY <2>1, <2>3, <2>4 DEF RunOK, PassedOnlyIf, None
  <2>7. ActiveOK'
    BY <2>1, <2>2, <2>3, <2>4 DEF ActiveOK, SlotOK, PatchOK, Working, Stages, Cleaned, Planning,
       Executed, Reported
  <2> QED BY <2>5, <2>6, <2>7 DEF OrchestratorInv
<1>3. CASE StartFails(r)
  <2>1. UNCHANGED <<active, stage, status, context, tree, files, answered, cleanups, tested,
                    doubts>>
    BY <1>3 DEF StartFails, facts
  <2>2. \/ place[r] = None /\ place' = [place EXCEPT ![r] = "running"]
        \/ UNCHANGED place
    BY <1>3 DEF StartFails
  <2>3. /\ place' \in [Runs -> {None, "running", "completed"}]
        /\ \A q \in Runs : place'[q] # place[q] => place[q] = None /\ place'[q] = "running"
    <3>1. place \in [Runs -> {None, "running", "completed"}]
      BY DEF OrchestratorInv, Types
    <3>2. CASE place[r] = None /\ place' = [place EXCEPT ![r] = "running"]
      BY <3>1, <3>2
    <3>3. CASE UNCHANGED place
      BY <3>1, <3>3
    <3> QED BY <2>2, <3>2, <3>3
  <2>4. Types' /\ \A q \in Runs : RunOK(q)'
    BY <2>1, <2>3 DEF OrchestratorInv, Types, RunOK, PassedOnlyIf, None
  <2>5. active # None => active \in Runs /\ place[active] # None /\ place'[active] = place[active]
    BY <2>3 DEF OrchestratorInv, Types, ActiveOK, SlotOK, RunOK, Working, None
  <2>6. ActiveOK'
    BY <2>1, <2>5 DEF OrchestratorInv, ActiveOK, SlotOK, PatchOK, PassedOnlyIf
  <2> QED BY <2>4, <2>6 DEF OrchestratorInv
<1> QED BY <1>1, <1>2, <1>3

LEMMA CrashInv == ASSUME OrchestratorInv, Crash PROVE OrchestratorInv'
<1>1. /\ active' = None /\ stage' = "idle" /\ status' = [r \in Runs |-> None]
      /\ context' = NoContext
      /\ UNCHANGED <<tree, place, files, answered, cleanups, tested, doubts>>
  BY DEF Crash, disk, facts
<1>2. Types
  BY DEF OrchestratorInv
<1>3. Types'
  BY <1>1, <1>2, ConstantTypes DEF Types, Stages, StatusType
<1>4. \A r \in Runs : RunOK(r)'
  BY <1>1 DEF OrchestratorInv, RunOK, PassedOnlyIf
<1> QED BY <1>1, <1>3, <1>4 DEF OrchestratorInv, ActiveOK

LEMMA RecoverInv == ASSUME OrchestratorInv, Recover PROVE OrchestratorInv'
<1>1. /\ active = None
      /\ status' = [r \in Runs |-> IF r \in Recovered THEN "interrupted" ELSE status[r]]
      /\ UNCHANGED <<active, stage, context, tree, place, files, answered, cleanups, tested,
                     doubts>>
  BY DEF Recover, facts
<1>2. Types
  BY DEF OrchestratorInv
<1>3. Types'
  BY <1>1, <1>2 DEF Types, StatusType
<1>4. \A r \in Runs : RunOK(r)'
  BY <1>1 DEF OrchestratorInv, RunOK, PassedOnlyIf, Recovered, None
<1> QED BY <1>1, <1>3, <1>4 DEF OrchestratorInv, ActiveOK

LEMMA OrchestratorStep == OrchestratorInv /\ [RunOrchestratorNext]_vars => OrchestratorInv'
<1> SUFFICES ASSUME OrchestratorInv, [RunOrchestratorNext]_vars PROVE OrchestratorInv'
  OBVIOUS
<1>1. CASE UNCHANGED vars
  <2>1. UNCHANGED <<active, stage, status, context, tree, place, files, answered, cleanups,
                    tested, doubts>>
    BY <1>1 DEF vars, memory, disk, facts
  <2>2. Types' /\ \A q \in Runs : RunOK(q)'
    BY <2>1 DEF OrchestratorInv, Types, RunOK, PassedOnlyIf
  <2>3. ActiveOK'
    BY <2>1 DEF OrchestratorInv, ActiveOK, SlotOK, PatchOK, PassedOnlyIf
  <2> QED BY <2>1, <2>2, <2>3 DEF OrchestratorInv
<1> QED BY <1>1, StartInv, PipelineInv, ExecutionFailsInv, CrashInv, RecoverInv
        DEF RunOrchestratorNext

-----------------------------------------------------------------------------
LEMMA OrchestratorInvHolds == RunOrchestratorSpec => []OrchestratorInv
BY InvInit, OrchestratorStep, PTL DEF RunOrchestratorSpec

\* A Run that is completed as passed was executed with the patch of its directory and
\* without a doubt, unless the downgrade missed its result; a Run that is no
\* initialization was executed with its patch whatever its report looks like.
THEOREM PassedAsExecutedCorrect == RunOrchestratorSpec => []PassedAsExecuted
<1>1. OrchestratorInv => PassedAsExecuted
  BY DEF OrchestratorInv, RunOK, PassedOnlyIf, PassedAsExecuted
<1> QED BY <1>1, OrchestratorInvHolds, PTL

\* The test data is cleaned up once, before anybody is told.
THEOREM CleanedBeforeToldCorrect == RunOrchestratorSpec => []CleanedBeforeTold
<1>1. OrchestratorInv => CleanedBeforeTold
  BY DEF OrchestratorInv, Types, RunOK, CleanedBeforeTold
<1> QED BY <1>1, OrchestratorInvHolds, PTL

\* What is completed is never called failed, in memory or to the caller.
THEOREM CompletedStaysCorrect == RunOrchestratorSpec => []CompletedStays
<1>1. OrchestratorInv => CompletedStays
  BY DEF OrchestratorInv, Types, RunOK, CompletedStays, None
<1> QED BY <1>1, OrchestratorInvHolds, PTL

LEMMA CompletedAsToldInv == ASSUME OrchestratorInv PROVE CompletedAsTold
<1>1. PassedAsExecuted
  BY DEF OrchestratorInv, RunOK, PassedOnlyIf, PassedAsExecuted
<1>2. CleanedBeforeTold
  BY DEF OrchestratorInv, Types, RunOK, CleanedBeforeTold
<1>3. CompletedStays
  BY DEF OrchestratorInv, Types, RunOK, CompletedStays, None
<1> QED BY <1>1, <1>2, <1>3 DEF CompletedAsTold

\* A passed Run whose result the downgrade did not miss was executed with the patch it holds; every
\* Run is cleaned up once before anybody is told, and stays completed: what a run checks, for any
\* Runs, patches and crashes.
THEOREM CompletedIsAsTold == RunOrchestratorSpec => []CompletedAsTold
<1>1. OrchestratorInv => CompletedAsTold
  BY CompletedAsToldInv
<1> QED BY <1>1, OrchestratorInvHolds, PTL
=============================================================================
