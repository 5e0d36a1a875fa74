-------------------------------- MODULE RunWork --------------------------------
(***************************************************************************)
(* The components inside a Run: the orchestrator, the test data it cleans  *)
(* up, the evidence it stores, the source it reads and the rules of its    *)
(* scenarios.  They share no state in the model, so a behaviour of theirs  *)
(* is one behaviour of each: part is the component whose steps are         *)
(* explored, the others rest in an initial state.                          *)
(***************************************************************************)
EXTENDS RunOrchestrator, TestData, Evidence, SourceReads, ScenarioRules

VARIABLE part  \* the component this behaviour is of

WorkParts == {"orchestrator", "data", "evidence", "sources", "rules"}
workVars == <<part, vars, dataVars, evidenceVars, sourceVars, ruleVars>>

-----------------------------------------------------------------------------
(* What rests does so in one of its initial states. *)
SourcesRest == text = 1
RulesRest   == /\ patch /\ images = {} /\ changed = Scenarios
               /\ rulesTree = [s \in Scenarios |-> "approved"]

RunWorkInit ==
  /\ part \in WorkParts
  /\ RunOrchestratorInit
  /\ TestDataInit /\ (part # "data" => adapter)
  /\ EvidenceInit
  /\ SourceInit /\ (part # "sources" => SourcesRest)
  /\ RulesInit /\ (part # "rules" => RulesRest)

OrchestratorPart ==
  /\ part = "orchestrator" /\ RunOrchestratorNext
  /\ UNCHANGED <<part, dataVars, evidenceVars, sourceVars, ruleVars>>
DataPart ==
  /\ part = "data" /\ TestDataNext
  /\ UNCHANGED <<part, vars, evidenceVars, sourceVars, ruleVars>>
EvidencePart ==
  /\ part = "evidence" /\ EvidenceNext
  /\ UNCHANGED <<part, vars, dataVars, sourceVars, ruleVars>>
SourcesPart ==
  /\ part = "sources" /\ SourceNext
  /\ UNCHANGED <<part, vars, dataVars, evidenceVars, ruleVars>>
RulesPart ==
  /\ part = "rules" /\ RulesNext
  /\ UNCHANGED <<part, vars, dataVars, evidenceVars, sourceVars>>

RunWorkNext ==
  \/ OrchestratorPart \/ DataPart \/ EvidencePart \/ SourcesPart
  \/ RulesPart

RunWorkSpec == RunWorkInit /\ [][RunWorkNext]_workVars

-----------------------------------------------------------------------------
\* Type invariant: that of every component.
RunWorkTypeOK ==
  /\ RunOrchestratorTypeOK /\ TestDataTypeOK /\ EvidenceTypeOK /\ SourceTypeOK /\ RulesTypeOK
================================================================================
