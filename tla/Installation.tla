----------------------------- MODULE Installation ------------------------------
(***************************************************************************)
(* The components around a Run: what polls Git, what prepares images,      *)
(* activates projects, publishes merges, indexes the branch, serves v0.6,  *)
(* upgrades it, and the console.  They share no state in the model, so a   *)
(* behaviour of theirs is one behaviour of each: part is the component     *)
(* whose steps are explored, the others rest in an initial state.          *)
(***************************************************************************)
EXTENDS GitPoller, ProjectImages, ProjectReadiness, MergeRequest, RepositoryIndex,
        LegacyAutomation, Upgrade, WebConsole

VARIABLE part  \* the component this behaviour is of

Parts == {"poller", "images", "readiness", "merge", "index", "legacy", "upgrade", "console"}
installationVars == <<part, pollerVars, imageVars, readinessVars, mergeVars, indexVars,
    legacyVars, upgradeVars, consoleVars>>

-----------------------------------------------------------------------------
(* What rests does so in one of its initial states. *)
PollerRests    == place = (CHOOSE p \in Places : TRUE) /\ progress = <<1>>
ReadinessRests == exists /\ work = "none"
MergeRests     == head["scenario"] = 0 /\ \A q \in Requests : row[q].initialization
UpgradeRests   == db.applied # {}
ConsoleRests   == consoleHistory = <<ListPage>>

InstallationInit ==
  /\ part \in Parts
  /\ PollerInit /\ (part # "poller" => PollerRests)
  /\ ImagesInit
  /\ ReadinessInit /\ (part # "readiness" => ReadinessRests)
  /\ MergeInit /\ (part # "merge" => MergeRests)
  /\ IndexInit
  /\ LegacyInit
  /\ UpgradeInit /\ (part # "upgrade" => UpgradeRests)
  /\ ConsoleInit /\ (part # "console" => ConsoleRests)

PollerPart ==
  /\ part = "poller" /\ PollerNext
  /\ UNCHANGED <<part, imageVars, readinessVars, mergeVars, indexVars, legacyVars, upgradeVars,
                   consoleVars>>
ImagesPart ==
  /\ part = "images" /\ ImagesNext
  /\ UNCHANGED <<part, pollerVars, readinessVars, mergeVars, indexVars, legacyVars, upgradeVars,
                   consoleVars>>
ReadinessPart ==
  /\ part = "readiness" /\ ReadinessNext
  /\ UNCHANGED <<part, pollerVars, imageVars, mergeVars, indexVars, legacyVars, upgradeVars,
                   consoleVars>>
MergePart ==
  /\ part = "merge" /\ MergeNext
  /\ UNCHANGED <<part, pollerVars, imageVars, readinessVars, indexVars, legacyVars, upgradeVars,
                   consoleVars>>
IndexPart ==
  /\ part = "index" /\ IndexNext
  /\ UNCHANGED <<part, pollerVars, imageVars, readinessVars, mergeVars, legacyVars, upgradeVars,
                   consoleVars>>
LegacyPart ==
  /\ part = "legacy" /\ LegacyNext
  /\ UNCHANGED <<part, pollerVars, imageVars, readinessVars, mergeVars, indexVars, upgradeVars,
                   consoleVars>>
UpgradePart ==
  /\ part = "upgrade" /\ UpgradeNext
  /\ UNCHANGED <<part, pollerVars, imageVars, readinessVars, mergeVars, indexVars, legacyVars,
                   consoleVars>>
ConsolePart ==
  /\ part = "console" /\ ConsoleNext
  /\ UNCHANGED <<part, pollerVars, imageVars, readinessVars, mergeVars, indexVars, legacyVars,
                   upgradeVars>>

InstallationNext ==
  \/ PollerPart \/ ImagesPart \/ ReadinessPart \/ MergePart
  \/ IndexPart \/ LegacyPart \/ UpgradePart \/ ConsolePart

InstallationSpec == InstallationInit /\ [][InstallationNext]_installationVars

-----------------------------------------------------------------------------
\* Type invariant: that of every component.
InstallationTypeOK ==
  /\ GitPollerTypeOK /\ ImagesTypeOK /\ ReadinessTypeOK /\ MergeTypeOK
  /\ IndexTypeOK /\ LegacyTypeOK /\ UpgradeTypeOK /\ ConsoleTypeOK
================================================================================
