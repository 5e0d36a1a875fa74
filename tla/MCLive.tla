-------------------------------- MODULE MCLive ---------------------------------
(***************************************************************************)
(* Instances for the liveness of three components.  They share no state,   *)
(* so one run serves for all: part is the component whose behaviour is     *)
(* explored, the others rest in an initial state.                          *)
(***************************************************************************)
EXTENDS Naturals

VARIABLES
    part,  \* the component this behaviour is of
    pollerHead, pollerCommits, pollerPlace, onCommit, pollerActive, pollerChanges, lastPoll,
    minute, lastCron, seenPlace, seen, progress, tick, poll, pollerFailures, pollerCrashes,
    requested, watched, cronPolls,
    starting, orchestratorActive, stage, orchestratorStatus, context, tree, orchestratorPlace,
    files, interrupted, orchestratorStored, answered, cleanups, tested, doubts,
    orchestratorCrashes,
    legacyStatus, linked, rowArchive, run, legacyStored, present, legacyActive, dispatch,
    monitor, archiving, scan, recovery, legacyCrashes, legacyFailures

pollerVars == <<pollerHead, pollerCommits, pollerPlace, onCommit, pollerActive, pollerChanges,
    lastPoll, minute, lastCron, seenPlace, seen, progress, tick, poll, pollerFailures,
    pollerCrashes, requested, watched, cronPolls>>
orchestratorVars == <<starting, orchestratorActive, stage, orchestratorStatus, context, tree,
    orchestratorPlace, files, interrupted, orchestratorStored, answered, cleanups, tested,
    doubts, orchestratorCrashes>>
legacyVars == <<legacyStatus, linked, rowArchive, run, legacyStored, present, legacyActive,
    dispatch, monitor, archiving, scan, recovery, legacyCrashes, legacyFailures>>
vars == <<part, pollerVars, orchestratorVars, legacyVars>>

Poller == INSTANCE GitPoller WITH Places <- {"p1", "p2"}, MaxPollerCommit <- 3,
    Testable <- {3}, MaxPollerFailure <- 0, MaxPollerChange <- 1, MaxPollerCrash <- 1,
    place <- pollerPlace
Orchestrator == INSTANCE RunOrchestrator WITH Runs <- {"r1"}, Initializations <- {"r1"},
    MaxPatch <- 1, MaxCrash <- 1, active <- orchestratorActive, status <- orchestratorStatus,
    place <- orchestratorPlace, stored <- orchestratorStored, crashes <- orchestratorCrashes
Legacy == INSTANCE LegacyAutomation WITH Scanners <- {"timer"}, MaxRequest <- 2,
    MaxLegacyCrash <- 1, MaxLegacyFailure <- 1, status <- legacyStatus, stored <- legacyStored,
    active <- legacyActive

Parts == {"poller", "orchestrator", "legacy"}

Init ==
  /\ part \in Parts
  /\ Poller!PollerInit
  /\ part # "poller" => pollerPlace = "p1" /\ progress = <<1>>
  /\ Orchestrator!RunOrchestratorInit
  /\ Legacy!LegacyInit

PollerStep ==
  /\ part = "poller" /\ Poller!PollerNext
  /\ UNCHANGED <<part, orchestratorVars, legacyVars>>
OrchestratorStep ==
  /\ part = "orchestrator" /\ Orchestrator!RunOrchestratorNext
  /\ UNCHANGED <<part, pollerVars, legacyVars>>
LegacyStep ==
  /\ part = "legacy" /\ Legacy!LegacyNext
  /\ UNCHANGED <<part, pollerVars, orchestratorVars>>

Next ==
  \/ PollerStep \/ OrchestratorStep \/ LegacyStep

\* The fairness each component states, of the component that runs.
Fairness ==
  /\ WF_pollerVars(part = "poller" /\ Poller!TickStep)
  /\ WF_pollerVars(part = "poller" /\ Poller!IntervalPasses)
  /\ WF_orchestratorVars(/\ part = "orchestrator" /\ ~context.prompting
                         /\ Orchestrator!PipelineStep \/ Orchestrator!ExecutionFails)
  /\ WF_legacyVars(part = "legacy" /\ Legacy!ServiceStep)
  /\ \A r \in 1 .. 2 : /\ WF_legacyVars(part = "legacy" /\ Legacy!MonitorStep(r))
                       /\ WF_legacyVars(part = "legacy" /\ Legacy!ArchiveEnds(r))

LiveSpec == Init /\ [][Next]_vars /\ Fairness

-----------------------------------------------------------------------------
(* A testable commit that was pushed while its branch is observed is       *)
(* requested in the end (automation/poller.ts).                            *)
PushRequested == Poller!PushRequested

(* A Run that never leaves the slot hangs in one prompt that is never      *)
(* answered (runs/orchestrator.ts).                                        *)
SlotFreeUnlessHung == Orchestrator!SlotFreeUnlessHung

(* Every request of the v0.6 service ends (automation/service.ts).         *)
LegacyRequestEnds == Legacy!LegacyRequestEnds
===============================================================================
