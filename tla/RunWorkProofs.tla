---------------------------- MODULE RunWorkProofs -----------------------------
(***************************************************************************)
(* Proofs about the components inside a Run, for any identifiers, files,   *)
(* texts, scenarios and calls, and for RunWork as a whole: a behaviour of  *)
(* RunWork is a behaviour of each component.                               *)
(*                                                                         *)
(* The argument is the same for each component.  Its invariant joins the   *)
(* types of its state to what is checked, strengthened by what the         *)
(* program counter of a call under way knows, and each action keeps it:    *)
(* one lemma per action.  TestData, Evidence, SourceReads, ScenarioRules   *)
(* follow in this order, then the bounds of every component's types, which *)
(* those invariants leave out, and RunWork.                                *)
(***************************************************************************)
EXTENDS RunWork, RunOrchestratorProofs, FiniteSetTheorems, WellFoundedInduction

-----------------------------------------------------------------------------
(***************************************************************************)
(* TestData: the clean-up forgets nothing.  What a call for an isolated    *)
(* account may have left, one that failed or is under way left; what is    *)
(* entered as verified is gone and nothing late can bring it back.         *)
(***************************************************************************)
\* The steps of a scope call, and its call when one is under way.
ScopeStages == {"register", "before", "delete", "after", "control-delete", "control-recheck",
                "capture"}
DataOpType  == [at : {"none", "query"} \cup ScopeStages, call : Nat, id : Ids \cup {"none"},
                reported : Nat, failed : BOOLEAN]

DataTyped ==
  /\ accounts \subseteq Ids /\ unanswered \subseteq Ids /\ controls \subseteq Calls
  /\ dataLate \in [accounts : SUBSET Ids, controls : SUBSET Calls] /\ adapter \in BOOLEAN
  /\ entries \in [Ids -> [status : {"none", "registered", "verified-cleaned", "rejected"},
                          scoped : BOOLEAN]]
  /\ harmed \subseteq Calls /\ verdict \in [Calls -> {"none", "passed", "failed"}]
  /\ dataOp \in DataOpType
  /\ dataPhase \in {"sessions", "cleanup", "end"} /\ told \in {"none", "clean", "incomplete"}
  /\ dataLosses \in Nat

\* A creation that may still be done was never confirmed.
LateIsUnanswered == dataLate.accounts \subseteq unanswered

\* Entries are verified by the clean-up alone, and the Run is told at its end.
PhaseOK ==
  /\ dataPhase = "sessions" =>
       \A i \in Ids : entries[i].status \in {"none", "registered"}
  /\ dataPhase # "end" => told = "none"
  /\ dataPhase # "sessions" => dataOp.at \in {"none", "query"}
  /\ dataPhase = "end" => dataOp = NoDataOp
  /\ dataPhase = "sessions" => dataOp.at # "query"

\* The call under way is one that has no verdict.
CallOK ==
  /\ dataOp.at \in ScopeStages => dataOp.call \in Calls /\ verdict[dataOp.call] = "none"
  /\ dataOp.at \notin ScopeStages => dataOp.call = 0
  /\ dataOp.at = "query" => dataOp.id \in Ids /\ entries[dataOp.id].status = "registered"

\* A control account that may still be created, one that was harmed and one that is there are of
\* calls that failed or will; until the DELETE the call under way has one.
ControlsOK ==
  /\ \A c \in dataLate.controls :
       verdict[c] = "failed" \/ (dataOp.call = c /\ dataOp.failed)
  /\ \A c \in harmed :
       \/ verdict[c] = "failed"
       \/ dataOp.call = c /\ (dataOp.failed \/ (dataOp.at = "after" /\ c \notin controls))
  /\ dataOp.at \in {"register", "before", "delete", "after"} => ~dataOp.failed
  /\ dataOp.at = "capture" /\ ~dataOp.failed => dataOp.call \notin controls

DataInv ==
  /\ DataTyped /\ LateIsUnanswered /\ PhaseOK /\ CallOK /\ ControlsOK
  /\ CleanedIsAbsent /\ ControlLeftIsTold

-----------------------------------------------------------------------------
LEMMA DataInit == TestDataInit => DataInv
  BY DEF TestDataInit, DataInv, DataTyped, DataOpType, LateIsUnanswered, PhaseOK, CallOK,
     ControlsOK,
         CleanedIsAbsent, ControlLeftIsTold, NoDataOp, ScopeStages, Calls

\* What a call in progress becomes is one.
LEMMA OpsAreTyped ==
  ASSUME NEW o \in DataOpType, NEW s \in ScopeStages
  PROVE  /\ [o EXCEPT !.at = s] \in DataOpType
         /\ \A f \in BOOLEAN : [o EXCEPT !.failed = f, !.at = s] \in DataOpType
         /\ \A n \in Nat : [o EXCEPT !.reported = n, !.at = s] \in DataOpType
  BY DEF DataOpType

\* What a step of a scope call does to the call and to the accounts is in order.
LEMMA ScopeStepData ==
  ASSUME DataInv, dataPhase = "sessions", dataOp.at \in ScopeStages,
         NEW new \in DataOpType, dataOp' = new, new.at \in ScopeStages, new.call = dataOp.call,
         accounts' \subseteq accounts, controls' \subseteq controls \cup {dataOp.call},
         dataLate' \in [accounts : SUBSET Ids, controls : SUBSET Calls],
         dataLate'.accounts = dataLate.accounts,
         \A c \in dataLate'.controls : c \in dataLate.controls \/ (c = new.call /\ new.failed),
         harmed' \subseteq harmed \cup {dataOp.call},
         new.call \in harmed' => new.failed \/ (new.at = "after" /\ new.call \notin controls'),
         dataOp.failed => new.failed,
         new.at \in {"register", "before", "delete", "after"} => ~new.failed,
         new.at = "capture" /\ ~new.failed => new.call \notin controls',
         dataLosses' \in Nat, UNCHANGED <<unanswered, adapter, entries, verdict, endVars>>
  PROVE  DataInv'
<1>1. dataOp.call \in Calls /\ UNCHANGED <<dataPhase, told>>
  BY DEF DataInv, CallOK, endVars
<1>2. DataTyped'
  BY <1>1 DEF DataInv, DataTyped
<1>3. LateIsUnanswered' /\ PhaseOK' /\ CallOK'
  BY <1>1 DEF DataInv, LateIsUnanswered, PhaseOK, CallOK, ScopeStages
<1>4. ControlsOK'
  BY <1>1 DEF DataInv, ControlsOK
<1>5. CleanedIsAbsent' /\ ControlLeftIsTold'
  BY <1>1 DEF DataInv, CleanedIsAbsent, ControlLeftIsTold
<1> QED BY <1>2, <1>3, <1>4, <1>5 DEF DataInv

\* The try block of a scope call fails: its finally block follows.
LEMMA GivesData ==
  ASSUME DataInv, dataPhase = "sessions",
         dataOp.at \in {"register", "before", "delete", "after"}, dataOp' = Gives,
         accounts' \subseteq accounts, controls' \subseteq controls \cup {dataOp.call},
         dataLate' \in [accounts : SUBSET Ids, controls : SUBSET Calls],
         dataLate'.accounts = dataLate.accounts,
         dataLate'.controls \subseteq dataLate.controls \cup {dataOp.call},
         harmed' \subseteq harmed \cup {dataOp.call}, dataLosses' \in Nat,
         UNCHANGED <<unanswered, adapter, entries, verdict, endVars>>
  PROVE  DataInv'
<1>1. dataOp \in DataOpType /\ dataOp.at \in ScopeStages /\ "control-delete" \in ScopeStages
  BY DEF DataInv, DataTyped, ScopeStages
<1>2. /\ Gives \in DataOpType /\ Gives.at = "control-delete" /\ Gives.call = dataOp.call
      /\ Gives.failed
  BY <1>1, OpsAreTyped DEF DataOpType, Gives
<1>3. \A c \in dataLate'.controls : c \in dataLate.controls \/ (c = Gives.call /\ Gives.failed)
  BY <1>2
<1> QED BY <1>1, <1>2, <1>3, ScopeStepData

LEMMA ScopeRegistersData == ASSUME DataInv, ScopeRegisters PROVE DataInv'
<1>1. /\ dataPhase = "sessions" /\ dataOp.at = "register" /\ "before" \in ScopeStages
      /\ dataOp \in DataOpType /\ dataLosses \in Nat /\ dataOp.call \in Calls
      /\ ~dataOp.failed /\ dataOp.call \notin harmed /\ dataOp.at \in ScopeStages
      /\ dataLate \in [accounts : SUBSET Ids, controls : SUBSET Calls]
      /\ UNCHANGED <<unanswered, adapter, entries, harmed, verdict, endVars>>
  BY DEF ScopeRegisters, ScopeAt, DataInv, DataTyped, CallOK, ControlsOK, ScopeStages, scopeVars
<1>2. CASE /\ controls' = controls \cup {dataOp.call} /\ dataOp' = [dataOp EXCEPT !.at = "before"]
           /\ UNCHANGED <<accounts, dataLate, dataLosses>>
  <2> DEFINE new == [dataOp EXCEPT !.at = "before"]
  <2>1. /\ new \in DataOpType /\ new.at = "before" /\ new.call = dataOp.call
        /\ ~new.failed
    BY <1>1, OpsAreTyped DEF DataOpType
  <2>2. dataOp' = new /\ dataLate'.accounts = dataLate.accounts
    BY <1>2
  <2> HIDE DEF new
  <2> QED BY <1>1, <1>2, <2>1, <2>2, ScopeStepData
<1>3. CASE dataOp' = Gives /\ UNCHANGED <<accounts, controls, dataLate, dataLosses>>
  BY <1>1, <1>3, GivesData
<1>4. CASE CreationLost({}, {dataOp.call}) /\ dataOp' = Gives
  <2>1. /\ accounts' \subseteq accounts /\ controls' \subseteq controls \cup {dataOp.call}
        /\ dataLate' \in [accounts : SUBSET Ids, controls : SUBSET Calls]
        /\ dataLate'.accounts = dataLate.accounts
        /\ dataLate'.controls \subseteq dataLate.controls \cup {dataOp.call}
        /\ dataLosses' \in Nat
    BY <1>1, <1>4 DEF CreationLost, NoAnswer, Created
  <2> QED BY <1>1, <1>4, <2>1, GivesData
<1> QED BY <1>2, <1>3, <1>4 DEF ScopeRegisters

LEMMA ScopeCountsBeforeData == ASSUME DataInv, ScopeCountsBefore PROVE DataInv'
<1>1. /\ dataPhase = "sessions" /\ dataOp.at = "before" /\ "delete" \in ScopeStages
      /\ dataOp \in DataOpType /\ dataLosses \in Nat /\ dataOp.call \in Calls
      /\ ~dataOp.failed /\ dataOp.call \notin harmed /\ dataOp.at \in ScopeStages
      /\ dataLate \in [accounts : SUBSET Ids, controls : SUBSET Calls] /\ dataLosses' \in Nat
      /\ UNCHANGED <<accounts, controls, dataLate, unanswered, adapter, entries, harmed, verdict,
                     endVars>>
  BY DEF ScopeCountsBefore, ScopeAt, NoAnswer, DataInv, DataTyped, CallOK, ControlsOK,
         ScopeStages, scopeVars
<1>2. CASE dataOp' = [dataOp EXCEPT !.at = "delete"]
  <2> DEFINE new == [dataOp EXCEPT !.at = "delete"]
  <2>1. new \in DataOpType /\ new.at = "delete" /\ new.call = dataOp.call /\ ~new.failed
    BY <1>1, OpsAreTyped DEF DataOpType
  <2>2. dataOp' = new /\ dataLate'.accounts = dataLate.accounts
    BY <1>1, <1>2
  <2> HIDE DEF new
  <2> QED BY <1>1, <2>1, <2>2, ScopeStepData
<1>3. CASE dataOp' = Gives
  BY <1>1, <1>3, GivesData
<1> QED BY <1>2, <1>3 DEF ScopeCountsBefore

LEMMA ScopeDeletesData == ASSUME DataInv, ScopeDeletes PROVE DataInv'
<1>1. /\ dataPhase = "sessions" /\ dataOp.at = "delete" /\ "after" \in ScopeStages
      /\ dataOp \in DataOpType /\ dataOp.call \in Calls
      /\ ~dataOp.failed /\ dataOp.call \notin harmed /\ dataOp.at \in ScopeStages
      /\ dataLate \in [accounts : SUBSET Ids, controls : SUBSET Calls]
      /\ UNCHANGED <<dataLate, unanswered, adapter, entries, verdict, endVars>>
  BY DEF ScopeDeletes, ScopeAt, DataInv, DataTyped, CallOK, ControlsOK, ScopeStages
<1>2. /\ accounts' \subseteq accounts /\ controls' \subseteq controls
      /\ harmed' = IF dataOp.call \in controls' THEN harmed ELSE harmed \cup {dataOp.call}
  BY DEF ScopeDeletes, DeleteOfRun
<1>3. dataLosses' \in Nat
  <2>1. dataLosses' = dataLosses \/ dataLosses' = dataLosses + 1
    BY DEF ScopeDeletes, NoAnswer
  <2> QED BY <2>1 DEF DataInv, DataTyped
<1>4. ASSUME NEW n \in 0 .. Cardinality(accounts'),
             dataOp' = [dataOp EXCEPT !.reported = n, !.at = "after"]
      PROVE  DataInv'
  <2> DEFINE new == [dataOp EXCEPT !.reported = n, !.at = "after"]
  <2>1. n \in Nat
    OBVIOUS
  <2>2. new \in DataOpType /\ new.at = "after" /\ new.call = dataOp.call /\ ~new.failed
    BY <1>1, <2>1, OpsAreTyped DEF DataOpType
  <2>3. dataOp' = new /\ dataLate'.accounts = dataLate.accounts
    BY <1>1, <1>4
  <2> HIDE DEF new
  <2> QED BY <1>1, <1>2, <1>3, <2>2, <2>3, ScopeStepData
<1>5. CASE dataOp' = Gives
  BY <1>1, <1>2, <1>3, <1>5, GivesData
<1> QED BY <1>4, <1>5 DEF ScopeDeletes

LEMMA ScopeCountsAfterData == ASSUME DataInv, ScopeCountsAfter PROVE DataInv'
<1>1. /\ dataPhase = "sessions" /\ dataOp.at = "after" /\ "control-delete" \in ScopeStages
      /\ dataOp \in DataOpType /\ dataLosses \in Nat /\ dataOp.call \in Calls
      /\ ~dataOp.failed /\ dataOp.at \in ScopeStages /\ verdict[dataOp.call] = "none"
      /\ dataLate \in [accounts : SUBSET Ids, controls : SUBSET Calls] /\ dataLosses' \in Nat
      /\ UNCHANGED <<accounts, controls, dataLate, unanswered, adapter, entries, harmed, verdict,
                     endVars>>
  BY DEF ScopeCountsAfter, ScopeAt, NoAnswer, DataInv, DataTyped, CallOK, ControlsOK,
         ScopeStages, scopeVars
<1>2. CASE dataOp' = [dataOp EXCEPT !.at = "control-delete"] /\ dataOp.call \in controls
  <2> DEFINE new == [dataOp EXCEPT !.at = "control-delete"]
  <2>1. new \in DataOpType /\ new.at = "control-delete" /\ new.call = dataOp.call
    BY <1>1, OpsAreTyped DEF DataOpType
  <2>2. dataOp' = new /\ dataLate'.accounts = dataLate.accounts
    BY <1>1, <1>2
  <2>3. dataOp.call \notin harmed
    BY <1>1, <1>2 DEF DataInv, ControlsOK
  <2> HIDE DEF new
  <2> QED BY <1>1, <2>1, <2>2, <2>3, ScopeStepData
<1>3. CASE dataOp' = Gives
  BY <1>1, <1>3, GivesData
<1> QED BY <1>2, <1>3 DEF ScopeCountsAfter

\* The finally block: it changes the controls and the call alone.
LEMMA FinallyStepData ==
  ASSUME DataInv, dataPhase = "sessions", dataOp.at \in {"control-delete", "control-recheck"},
         NEW at \in {"control-recheck", "capture"}, NEW failed \in BOOLEAN,
         dataOp' = [dataOp EXCEPT !.failed = failed, !.at = at], dataOp.failed => failed,
         controls' \subseteq controls,
         at = "capture" /\ ~failed => dataOp.call \notin controls', dataLosses' \in Nat,
         UNCHANGED <<accounts, dataLate, unanswered, adapter, entries, harmed, verdict, endVars>>
  PROVE  DataInv'
<1> DEFINE new == [dataOp EXCEPT !.failed = failed, !.at = at]
<1>1. /\ dataOp \in DataOpType /\ at \in ScopeStages /\ dataOp.at \in ScopeStages
      /\ dataLate \in [accounts : SUBSET Ids, controls : SUBSET Calls]
      /\ dataOp.call \in Calls /\ verdict[dataOp.call] = "none"
  BY DEF DataInv, DataTyped, CallOK, ScopeStages
<1>2. new \in DataOpType /\ new.at = at /\ new.call = dataOp.call /\ new.failed = failed
  BY <1>1, OpsAreTyped DEF DataOpType
<1>3. dataOp' = new /\ dataLate'.accounts = dataLate.accounts
  OBVIOUS
<1>4. dataOp.call \in harmed => dataOp.failed
  BY <1>1 DEF DataInv, ControlsOK
<1> HIDE DEF new
<1>5. \A c \in dataLate'.controls : c \in dataLate.controls \/ (c = new.call /\ new.failed)
  OBVIOUS
<1>6. new.call \in harmed' => new.failed \/ (new.at = "after" /\ new.call \notin controls')
  BY <1>2, <1>4
<1>7. /\ new.at \in {"register", "before", "delete", "after"} => ~new.failed
      /\ dataOp.failed => new.failed
      /\ new.at = "capture" /\ ~new.failed => new.call \notin controls'
  BY <1>2
<1> QED BY <1>1, <1>2, <1>3, <1>5, <1>6, <1>7, ScopeStepData

LEMMA ScopeDeletesControlData == ASSUME DataInv, ScopeDeletesControl PROVE DataInv'
<1>1. /\ dataPhase = "sessions" /\ dataOp.at = "control-delete" /\ dataOp \in DataOpType
      /\ controls' \subseteq controls /\ dataLosses' \in Nat
      /\ UNCHANGED <<accounts, dataLate, unanswered, adapter, entries, harmed, verdict, endVars>>
  BY DEF ScopeDeletesControl, ScopeAt, NoAnswer, DataInv, DataTyped, scopeVars
<1>2. CASE dataOp' = [dataOp EXCEPT !.at = "control-recheck"]
  <2>1. dataOp.failed \in BOOLEAN
        /\ dataOp' = [dataOp EXCEPT !.failed = dataOp.failed, !.at = "control-recheck"]
    BY <1>1, <1>2 DEF DataOpType
  <2> QED BY <1>1, <2>1, FinallyStepData
<1>3. CASE dataOp' = [dataOp EXCEPT !.failed = TRUE, !.at = "capture"]
  BY <1>1, <1>3, FinallyStepData
<1> QED BY <1>2, <1>3 DEF ScopeDeletesControl

LEMMA ScopeRechecksControlData == ASSUME DataInv, ScopeRechecksControl PROVE DataInv'
<1>1. /\ dataPhase = "sessions" /\ dataOp.at = "control-recheck" /\ dataOp \in DataOpType
      /\ controls' \subseteq controls /\ dataLosses' \in Nat
      /\ UNCHANGED <<accounts, controls, dataLate, unanswered, adapter, entries, harmed, verdict,
                     endVars>>
  BY DEF ScopeRechecksControl, ScopeAt, NoAnswer, DataInv, DataTyped, scopeVars
<1>2. CASE dataOp' = [dataOp EXCEPT !.at = "capture", !.failed = @ \/ dataOp.call \in controls]
  <2> DEFINE failed == dataOp.failed \/ dataOp.call \in controls
  <2>1. failed \in BOOLEAN /\ dataOp' = [dataOp EXCEPT !.failed = failed, !.at = "capture"]
    BY <1>1, <1>2 DEF DataOpType
  <2>2. dataOp.failed => failed
    OBVIOUS
  <2>3. ~failed => dataOp.call \notin controls'
    BY <1>1
  <2> HIDE DEF failed
  <2> QED BY <1>1, <2>1, <2>2, <2>3, FinallyStepData
<1>3. CASE dataOp' = [dataOp EXCEPT !.failed = TRUE, !.at = "capture"]
  BY <1>1, <1>3, FinallyStepData
<1> QED BY <1>2, <1>3 DEF ScopeRechecksControl

LEMMA ScopeBeginsData == ASSUME DataInv, NEW c \in Calls, ScopeBegins(c) PROVE DataInv'
<1> DEFINE new == [NoDataOp EXCEPT !.at = "register", !.call = c]
<1>1. /\ new \in DataOpType /\ new.at = "register" /\ new.call = c /\ ~new.failed
      /\ NoDataOp.at = "none" /\ NoDataOp.call = 0 /\ ~NoDataOp.failed
  <2>1. c \in Nat
    BY DEF Calls
  <2> QED BY <2>1 DEF DataOpType, NoDataOp, ScopeStages
<1>2. /\ dataPhase = "sessions" /\ dataOp = NoDataOp /\ verdict[c] = "none" /\ dataOp' = new
      /\ UNCHANGED <<accounts, controls, dataLate, unanswered, dataLosses, adapter, entries,
                     harmed, verdict, dataPhase, told>>
  BY DEF ScopeBegins, Session, siteVars, scopeVars, endVars
<1> HIDE DEF new
<1>3. DataTyped' /\ LateIsUnanswered' /\ CleanedIsAbsent'
  BY <1>1, <1>2 DEF DataInv, DataTyped, LateIsUnanswered, CleanedIsAbsent
<1>4. PhaseOK' /\ CallOK'
  BY <1>1, <1>2 DEF DataInv, PhaseOK, CallOK, ScopeStages
<1>5. 0 \notin Calls
  BY DEF Calls
<1>6. ControlsOK' /\ ControlLeftIsTold'
  BY <1>1, <1>2, <1>5 DEF DataInv, DataTyped, ControlsOK, ControlLeftIsTold
<1> QED BY <1>3, <1>4, <1>6 DEF DataInv

LEMMA ScopeEndsData == ASSUME DataInv, ScopeEnds PROVE DataInv'
<1> USE DEF ScopeEnds, ScopeAt, siteVars, endVars
<1>1. NoDataOp \in DataOpType /\ NoDataOp.at = "none" /\ NoDataOp.call = 0 /\ ~NoDataOp.failed
  BY DEF DataOpType, NoDataOp
<1>2. DataTyped'
  BY <1>1 DEF DataInv, DataTyped
<1>3. LateIsUnanswered' /\ PhaseOK' /\ CallOK' /\ CleanedIsAbsent'
  BY <1>1 DEF DataInv, DataTyped, LateIsUnanswered, PhaseOK, CallOK, CleanedIsAbsent, ScopeStages
<1>4. ControlsOK' /\ ControlLeftIsTold'
  BY <1>1 DEF DataInv, DataTyped, CallOK, ControlsOK, ControlLeftIsTold, ScopeStages
<1> QED BY <1>2, <1>3, <1>4 DEF DataInv

-----------------------------------------------------------------------------
LEMMA LateCreationData == ASSUME DataInv, LateCreation PROVE DataInv'
<1>1. PICK as \in SUBSET dataLate.accounts, cs \in SUBSET dataLate.controls :
        /\ dataLate' = [accounts |-> dataLate.accounts \ as, controls |-> dataLate.controls \ cs]
        /\ accounts' = accounts \cup as /\ controls' = controls \cup cs
  BY DEF LateCreation, Created
<1>2. UNCHANGED <<unanswered, adapter, entries, dataOp, dataLosses, harmed, verdict, dataPhase,
                  told>>
  BY DEF LateCreation, scopeVars, endVars
<1>3. /\ dataLate.accounts \subseteq Ids /\ dataLate.controls \subseteq Calls
      /\ dataLate'.accounts \subseteq dataLate.accounts
      /\ dataLate'.controls \subseteq dataLate.controls
      /\ dataLate' \in [accounts : SUBSET Ids, controls : SUBSET Calls]
  BY <1>1 DEF DataInv, DataTyped
<1>4. DataTyped'
  BY <1>1, <1>2, <1>3 DEF DataInv, DataTyped
<1>5. LateIsUnanswered' /\ PhaseOK' /\ CallOK' /\ CleanedIsAbsent'
  BY <1>1, <1>2, <1>3 DEF DataInv, LateIsUnanswered, PhaseOK, CallOK, CleanedIsAbsent
<1>6. ControlsOK' /\ ControlLeftIsTold'
  BY <1>1, <1>2, <1>3 DEF DataInv, CallOK, ControlsOK, ControlLeftIsTold, ScopeStages
<1> QED BY <1>4, <1>5, <1>6 DEF DataInv

LEMMA CreateAccountData == ASSUME DataInv, NEW i \in Ids, CreateAccount(i) PROVE DataInv'
<1> USE DEF CreateAccount, Session, CreationLost, NoAnswer, Created, scopeVars, endVars
<1>1. DataTyped'
  BY DEF DataInv, DataTyped, DataOpType, ScopeStages, NoDataOp
<1>2. LateIsUnanswered' /\ CleanedIsAbsent'
  BY DEF DataInv, DataTyped, LateIsUnanswered, PhaseOK, CallOK, CleanedIsAbsent
<1>3. PhaseOK' /\ CallOK'
  BY DEF DataInv, DataTyped, PhaseOK, CallOK, ScopeStages, NoDataOp
<1>4. UNCHANGED <<controls, harmed, verdict, dataOp>> /\ dataLate'.controls = dataLate.controls
  BY DEF DataInv, DataTyped
<1>5. ControlsOK' /\ ControlLeftIsTold'
  BY <1>4 DEF DataInv, ControlsOK, ControlLeftIsTold
<1> QED BY <1>1, <1>2, <1>3, <1>5 DEF DataInv

LEMMA RegisterTestDataData ==
  ASSUME DataInv, NEW i \in Ids, NEW scoped \in BOOLEAN, RegisterTestData(i, scoped)
  PROVE  DataInv'
<1> USE DEF RegisterTestData, Session, siteVars, scopeVars, endVars
<1>1. DataTyped'
  BY DEF DataInv, DataTyped, DataOpType, ScopeStages, NoDataOp
<1>2. LateIsUnanswered' /\ CleanedIsAbsent'
  BY DEF DataInv, DataTyped, LateIsUnanswered, PhaseOK, CallOK, CleanedIsAbsent
<1>3. PhaseOK' /\ CallOK'
  BY DEF DataInv, DataTyped, PhaseOK, CallOK, ScopeStages, NoDataOp
<1>4. ControlsOK' /\ ControlLeftIsTold'
  BY DEF DataInv, DataTyped, CallOK, ControlsOK, ControlLeftIsTold, ScopeStages, Calls, NoDataOp
<1> QED BY <1>1, <1>2, <1>3, <1>4 DEF DataInv

LEMMA ProbeRunCleanupData == ASSUME DataInv, ProbeRunCleanup PROVE DataInv'
<1> USE DEF ProbeRunCleanup, Session, DeleteOfRun, scopeVars, endVars
<1>1. DataTyped'
  BY DEF DataInv, DataTyped, DataOpType, ScopeStages, NoDataOp
<1>2. LateIsUnanswered' /\ CleanedIsAbsent'
  BY DEF DataInv, DataTyped, LateIsUnanswered, PhaseOK, CallOK, CleanedIsAbsent
<1>3. PhaseOK' /\ CallOK'
  BY DEF DataInv, DataTyped, PhaseOK, CallOK, ScopeStages, NoDataOp
<1>4. ControlsOK' /\ ControlLeftIsTold'
  BY DEF DataInv, DataTyped, CallOK, ControlsOK, ControlLeftIsTold, ScopeStages, Calls, NoDataOp
<1> QED BY <1>1, <1>2, <1>3, <1>4 DEF DataInv

LEMMA CleanupBeginsData == ASSUME DataInv, CleanupBegins PROVE DataInv'
<1> USE DEF CleanupBegins, Session, siteVars, scopeVars
<1>1. DataTyped'
  BY DEF DataInv, DataTyped, DataOpType, ScopeStages, NoDataOp
<1>2. LateIsUnanswered' /\ CleanedIsAbsent'
  BY DEF DataInv, DataTyped, LateIsUnanswered, PhaseOK, CallOK, CleanedIsAbsent
<1>3. PhaseOK' /\ CallOK'
  BY DEF DataInv, DataTyped, PhaseOK, CallOK, ScopeStages, NoDataOp
<1>4. ControlsOK' /\ ControlLeftIsTold'
  BY DEF DataInv, DataTyped, CallOK, ControlsOK, ControlLeftIsTold, ScopeStages, Calls, NoDataOp
<1> QED BY <1>1, <1>2, <1>3, <1>4 DEF DataInv

LEMMA CleanupRefusesData == ASSUME DataInv, NEW i \in Ids, CleanupRefuses(i) PROVE DataInv'
<1> USE DEF CleanupRefuses, InCleanup, MarkedEntry, siteVars, scopeVars, endVars
<1>1. DataTyped'
  BY DEF DataInv, DataTyped, DataOpType, ScopeStages, NoDataOp
<1>2. LateIsUnanswered' /\ CleanedIsAbsent'
  BY DEF DataInv, DataTyped, LateIsUnanswered, PhaseOK, CallOK, CleanedIsAbsent
<1>3. PhaseOK' /\ CallOK'
  BY DEF DataInv, DataTyped, PhaseOK, CallOK, ScopeStages, NoDataOp
<1>4. ControlsOK' /\ ControlLeftIsTold'
  BY DEF DataInv, DataTyped, CallOK, ControlsOK, ControlLeftIsTold, ScopeStages, Calls, NoDataOp
<1> QED BY <1>1, <1>2, <1>3, <1>4 DEF DataInv

LEMMA CleanupDeletesData == ASSUME DataInv, NEW i \in Ids, CleanupDeletes(i) PROVE DataInv'
<1> USE DEF CleanupDeletes, InCleanup, MarkedEntry, DeleteOfRun, NoAnswer, scopeVars, endVars
<1>1. DataTyped'
  <2>1. [NoDataOp EXCEPT !.at = "query", !.id = i] \in DataOpType
    BY DEF DataOpType, NoDataOp
  <2>2. dataOp' \in DataOpType
    BY <2>1 DEF DataInv, DataTyped
  <2>3. dataLosses' \in Nat
    BY DEF DataInv, DataTyped
  <2> QED BY <2>2, <2>3 DEF DataInv, DataTyped
<1>2. LateIsUnanswered' /\ CleanedIsAbsent'
  BY DEF DataInv, DataTyped, LateIsUnanswered, PhaseOK, CallOK, CleanedIsAbsent
<1>3. PhaseOK' /\ CallOK'
  BY DEF DataInv, DataTyped, PhaseOK, CallOK, ScopeStages, NoDataOp
<1>4. ControlsOK' /\ ControlLeftIsTold'
  BY DEF DataInv, DataTyped, CallOK, ControlsOK, ControlLeftIsTold, ScopeStages, Calls, NoDataOp
<1> QED BY <1>1, <1>2, <1>3, <1>4 DEF DataInv

LEMMA CleanupQueriesData == ASSUME DataInv, CleanupQueries PROVE DataInv'
<1> USE DEF CleanupQueries, MarkedEntry, NoAnswer, scopeVars, endVars
<1>1. DataTyped'
  BY DEF DataInv, DataTyped, DataOpType, ScopeStages, NoDataOp
<1>2. LateIsUnanswered' /\ CleanedIsAbsent'
  BY DEF DataInv, DataTyped, LateIsUnanswered, PhaseOK, CallOK, CleanedIsAbsent
<1>3. PhaseOK' /\ CallOK'
  BY DEF DataInv, DataTyped, PhaseOK, CallOK, ScopeStages, NoDataOp
<1>4. ControlsOK' /\ ControlLeftIsTold'
  BY DEF DataInv, DataTyped, CallOK, ControlsOK, ControlLeftIsTold, ScopeStages, Calls, NoDataOp
<1> QED BY <1>1, <1>2, <1>3, <1>4 DEF DataInv

LEMMA CleanupEndsData == ASSUME DataInv, CleanupEnds PROVE DataInv'
<1> USE DEF CleanupEnds, Pending, siteVars, scopeVars
<1>1. DataTyped'
  BY DEF DataInv, DataTyped, DataOpType, ScopeStages, NoDataOp
<1>2. LateIsUnanswered' /\ CleanedIsAbsent'
  BY DEF DataInv, DataTyped, LateIsUnanswered, PhaseOK, CallOK, CleanedIsAbsent
<1>3. PhaseOK' /\ CallOK'
  BY DEF DataInv, DataTyped, PhaseOK, CallOK, ScopeStages, NoDataOp
<1>4. ControlsOK' /\ ControlLeftIsTold'
  BY DEF DataInv, DataTyped, CallOK, ControlsOK, ControlLeftIsTold, ScopeStages, Calls, NoDataOp
<1> QED BY <1>1, <1>2, <1>3, <1>4 DEF DataInv

-----------------------------------------------------------------------------
LEMMA DataStep == DataInv /\ [TestDataNext]_dataVars => DataInv'
<1> SUFFICES ASSUME DataInv, [TestDataNext]_dataVars PROVE DataInv'
  OBVIOUS
<1>1. CASE UNCHANGED dataVars
  BY <1>1 DEF DataInv, DataTyped, LateIsUnanswered, PhaseOK, CallOK, ControlsOK, CleanedIsAbsent,
              ControlLeftIsTold, dataVars
<1>2. CASE ScopeStep
  BY <1>2, ScopeRegistersData, ScopeCountsBeforeData, ScopeDeletesData, ScopeCountsAfterData,
     ScopeDeletesControlData, ScopeRechecksControlData, ScopeEndsData DEF ScopeStep
<1>3. CASE \E c \in Calls : ScopeBegins(c)
  BY <1>3, ScopeBeginsData
<1>4. CASE LateCreation \/ ProbeRunCleanup \/ CleanupBegins \/ CleanupQueries \/ CleanupEnds
  BY <1>4, LateCreationData, ProbeRunCleanupData, CleanupBeginsData, CleanupQueriesData,
     CleanupEndsData
<1>5. CASE \E i \in Ids :
             CreateAccount(i) \/ (\E scoped \in BOOLEAN : RegisterTestData(i, scoped))
                          \/ CleanupRefuses(i) \/ CleanupDeletes(i)
  BY <1>5, CreateAccountData, RegisterTestDataData, CleanupRefusesData, CleanupDeletesData
<1> QED BY <1>1, <1>2, <1>3, <1>4, <1>5 DEF TestDataNext

LEMMA DataInvHolds == TestDataSpec => []DataInv
<1>1. TestDataInit => DataInv
  BY DataInit
<1>2. DataInv /\ [TestDataNext]_dataVars => DataInv'
  BY DataStep
<1> QED BY <1>1, <1>2, PTL DEF TestDataSpec

\* What is called clean is gone, what is called isolated is, and no control account is forgotten,
\* for any accounts, scope calls and lost requests (runs/test-data.ts, runs/controlled-http.ts).
THEOREM DataIsCleanedAsTold == TestDataSpec => []DataCleanedAsTold
<1>1. DataInv => DataCleanedAsTold
  BY DEF DataInv, DataTyped, CallOK, ControlsOK, DataCleanedAsTold, PassedIsIsolated, ScopeStages,
         Calls
<1> QED BY <1>1, DataInvHolds, PTL

-----------------------------------------------------------------------------
(***************************************************************************)
(* Evidence: nothing typed gets out, and what the Reviewer saw stays.  Each*)
(* file in the folder, in the memory of the session, on its way and in the *)
(* store is without typed values; what was kept is what was shown.         *)
(***************************************************************************)
ContentType == [v : Nat, clean : BOOLEAN]
OpType      == [at : {"none", "capture", "read", "put"}, file : Files \cup {"none"},
                body : ContentType, attempt : Nat, upload : BOOLEAN]

EvidenceTyped ==
  /\ versions \in Nat /\ parsed \subseteq Nat
  /\ folder \in [Files -> ContentType] /\ kept \in [Files -> ContentType]
  /\ object \in [Files -> ContentType] /\ reference \in [Files -> ContentType]
  /\ distrusted \subseteq {"page"} /\ removed \subseteq Browser /\ todo \subseteq Files
  /\ late \subseteq [file : Files, body : ContentType]
  /\ seen \in [Files -> [body : ContentType, of : ContentType]]
  /\ op \in OpType
  /\ phase \in {"runner", "upload", "review", "delete", "end"}
  /\ blocked \in BOOLEAN /\ losses \in Nat

\* An operation is of a file that is still to be taken once everything is uploaded, and it is
\* over before a review; a snapshot is captured before it is read for its upload.
OpOK ==
  /\ op.at # "none" => op.file \in Files /\ phase \in {"runner", "upload"}
  /\ op.at = "none" => op = NoOp
  /\ op.at # "none" /\ phase = "upload" => op.file \in todo
  /\ op.at = "capture" => op.file = "page"
  /\ op.at = "read" /\ op.file = "page" => kept["page"] # NoFile
  /\ op.at = "put" => op.body.v # 0

\* What is sent, was sent and may still arrive is without typed values, and so are the files that
\* are no snapshot; what the Harness vouches for of a snapshot had its values registered.
RedactedOK ==
  /\ \A f \in Files \ {"page"} : folder[f].clean
  /\ op.at = "put" => op.body.clean
  /\ \A p \in late : p.body.clean
  /\ kept["page"] # NoFile => kept["page"].v \in parsed

\* A record of a command is sent, referred to and read as it was captured.
CommandOK ==
  /\ op.at = "put" /\ op.file = "command" =>
       op.body = kept["command"] /\ kept["command"] # NoFile
  /\ reference["command"] \in {NoFile, kept["command"]}
  /\ seen["command"].body \in {NoFile, kept["command"]}

\* A file of the browser that is vouched for is there, or was removed; while all is uploaded what
\* is vouched for is still to be taken, or has its reference.
KeptOK ==
  /\ \A f \in Browser : kept[f] # NoFile => folder[f] # NoFile \/ f \in removed
  /\ phase \in {"upload", "review"} =>
       \A f \in Files : \/ kept[f] = NoFile \/ reference[f] # NoFile \/ f \in removed \/ blocked
                        \/ (phase = "upload" /\ f \in todo)

SeenIsVouched == \A f \in Files : seen[f].body = seen[f].of

EvidenceInv ==
  /\ EvidenceTyped /\ OpOK /\ RedactedOK /\ CommandOK /\ KeptOK
  /\ StoredIsRedacted /\ SeenIsVouched

LEMMA LatePutEvidence == ASSUME EvidenceInv, LatePut PROVE EvidenceInv'
<1> USE DEF LatePut, localVars
<1>1. EvidenceTyped'
  BY DEF EvidenceInv, EvidenceTyped, ContentType, OpType
<1>2. OpOK'
  BY DEF EvidenceInv, EvidenceTyped, OpType, OpOK
<1>3. RedactedOK' /\ StoredIsRedacted'
  BY DEF EvidenceInv, EvidenceTyped, ContentType, OpType, OpOK, RedactedOK, StoredIsRedacted
<1>4. CommandOK'
  BY DEF EvidenceInv, EvidenceTyped, OpOK, CommandOK, RedactedOK, ContentType
<1>5. KeptOK'
  BY DEF EvidenceInv, EvidenceTyped, OpOK, KeptOK
<1>6. SeenIsVouched'
  BY DEF EvidenceInv, EvidenceTyped, SeenIsVouched
<1> QED BY <1>1, <1>2, <1>3, <1>4, <1>5, <1>6 DEF EvidenceInv

LEMMA CaptureCommandEvidence == ASSUME EvidenceInv, CaptureCommand PROVE EvidenceInv'
<1> USE DEF CaptureCommand, NextVersion, storeVars, NoFile, Files, Browser
<1>1. EvidenceTyped'
  BY DEF EvidenceInv, EvidenceTyped, ContentType, OpType
<1>2. OpOK'
  BY DEF EvidenceInv, EvidenceTyped, OpType, OpOK
<1>3. RedactedOK' /\ StoredIsRedacted'
  BY DEF EvidenceInv, EvidenceTyped, ContentType, OpType, OpOK, RedactedOK, StoredIsRedacted
<1>4. CommandOK'
  BY DEF EvidenceInv, EvidenceTyped, OpOK, CommandOK, RedactedOK, ContentType
<1>5. KeptOK'
  BY DEF EvidenceInv, EvidenceTyped, OpOK, KeptOK
<1>6. SeenIsVouched'
  BY DEF EvidenceInv, EvidenceTyped, SeenIsVouched
<1> QED BY <1>1, <1>2, <1>3, <1>4, <1>5, <1>6 DEF EvidenceInv

LEMMA CaptureSnapshotEvidence == ASSUME EvidenceInv, CaptureSnapshot PROVE EvidenceInv'
<1> USE DEF CaptureSnapshot, CaptureBegins, storeVars, NoOp, NoFile, Files
<1>1. EvidenceTyped'
  BY DEF EvidenceInv, EvidenceTyped, ContentType, OpType
<1>2. OpOK'
  BY DEF EvidenceInv, EvidenceTyped, OpType, OpOK
<1>3. RedactedOK' /\ StoredIsRedacted'
  BY DEF EvidenceInv, EvidenceTyped, ContentType, OpType, OpOK, RedactedOK, StoredIsRedacted
<1>4. CommandOK'
  BY DEF EvidenceInv, EvidenceTyped, OpOK, CommandOK, RedactedOK, ContentType
<1>5. KeptOK'
  BY DEF EvidenceInv, EvidenceTyped, OpOK, KeptOK
<1>6. SeenIsVouched'
  BY DEF EvidenceInv, EvidenceTyped, SeenIsVouched
<1> QED BY <1>1, <1>2, <1>3, <1>4, <1>5, <1>6 DEF EvidenceInv

\* What stands for no file and for no operation.
LEMMA NothingOK ==
  /\ NoFile \in ContentType /\ NoFile.v = 0 /\ NoFile.clean
  /\ NoOp \in OpType /\ NoOp.at = "none"
  BY DEF NoFile, NoOp, ContentType, OpType

LEMMA CaptureSucceedsEvidence == ASSUME EvidenceInv, CaptureSucceeds PROVE EvidenceInv'
<1> DEFINE new == [op.body EXCEPT !.clean = TRUE]
<1>1. /\ op \in OpType /\ op.body \in ContentType /\ op.at = "capture" /\ op.body.v # 0
      /\ new \in ContentType /\ new.v = op.body.v /\ new.clean /\ new # NoFile
      /\ op.file = "page" /\ phase \in {"runner", "upload"}
      /\ phase = "upload" => "page" \in todo
  BY DEF CaptureSucceeds, EvidenceInv, EvidenceTyped, OpOK, OpType, ContentType, NoFile
<1>2. \/ kept["page"] = op.body /\ kept["page"] # NoFile /\ UNCHANGED <<parsed, folder, kept>>
      \/ /\ kept["page"] = NoFile /\ parsed' = parsed \cup {op.body.v}
         /\ folder' = [folder EXCEPT !["page"] = new] /\ kept' = [kept EXCEPT !["page"] = new]
  BY <1>1 DEF CaptureSucceeds, EvidenceInv, EvidenceTyped, Files, NoFile
<1>3. /\ distrusted' = distrusted \ {"page"}
      /\ op' = IF op.upload THEN [op EXCEPT !.at = "read"] ELSE NoOp
      /\ UNCHANGED <<versions, removed, object, late, losses, reference, seen, todo, phase,
                      blocked>>
  BY DEF CaptureSucceeds, storeVars
<1>4. op' \in OpType /\ op'.at \in {"none", "read"} /\ (op'.at = "none" => op' = NoOp)
      /\ (op'.at = "read" => op'.file = "page")
  <2>1. CASE op.upload
    <3>1. op' = [op EXCEPT !.at = "read"]
      BY <1>3, <2>1
    <3>2. [op EXCEPT !.at = "read"] \in OpType
      BY <1>1 DEF OpType
    <3> QED BY <1>1, <3>1, <3>2 DEF OpType
  <2>2. CASE ~op.upload
    <3>1. op' = NoOp
      BY <1>3, <2>2
    <3> QED BY <3>1, NothingOK
  <2> QED BY <2>1, <2>2
<1> HIDE DEF new
<1>5. EvidenceTyped'
  <2>1. op.body.v \in Nat
    BY <1>1 DEF ContentType
  <2> QED BY <1>1, <1>2, <1>3, <1>4, <2>1 DEF EvidenceInv, EvidenceTyped
<1>6. OpOK'
  BY <1>1, <1>2, <1>3, <1>4 DEF EvidenceInv, EvidenceTyped, OpOK, Files
<1>7. RedactedOK' /\ StoredIsRedacted' /\ CommandOK' /\ SeenIsVouched'
  BY <1>1, <1>2, <1>3, <1>4
     DEF EvidenceInv, EvidenceTyped, RedactedOK, StoredIsRedacted, CommandOK, SeenIsVouched, Files
<1>8. KeptOK'
  <2>1. CASE UNCHANGED <<folder, kept>>
    BY <1>3, <2>1 DEF EvidenceInv, KeptOK
  <2>2. CASE /\ folder' = [folder EXCEPT !["page"] = new]
             /\ kept' = [kept EXCEPT !["page"] = new]
    BY <1>1, <1>3, <2>2 DEF EvidenceInv, EvidenceTyped, KeptOK, Files, Browser
  <2> QED BY <1>2, <2>1, <2>2
<1> QED BY <1>5, <1>6, <1>7, <1>8 DEF EvidenceInv

LEMMA CaptureFailsEvidence == ASSUME EvidenceInv, CaptureFails PROVE EvidenceInv'
<1>1. /\ op \in OpType /\ op.at = "capture" /\ op.file = "page" /\ "page" \in Files
      /\ kept' = [kept EXCEPT !["page"] = NoFile] /\ op' = NoOp /\ todo' = todo \ {"page"}
      /\ blocked' = TRUE /\ folder' \in {folder, [folder EXCEPT !["page"] = NoFile]}
      /\ UNCHANGED <<versions, parsed, removed, distrusted, object, late, losses, reference, seen,
                     phase>>
  BY DEF CaptureFails, Done, EvidenceInv, EvidenceTyped, OpOK, storeVars, Files
<1>2. EvidenceTyped'
  BY <1>1, NothingOK DEF EvidenceInv, EvidenceTyped
<1>3. OpOK' /\ RedactedOK' /\ StoredIsRedacted' /\ CommandOK' /\ SeenIsVouched'
  BY <1>1, NothingOK
     DEF EvidenceInv, EvidenceTyped, OpOK, RedactedOK, StoredIsRedacted, CommandOK, SeenIsVouched,
         Files
<1>4. KeptOK'
  BY <1>1 DEF EvidenceInv, EvidenceTyped, KeptOK, Files, Browser
<1> QED BY <1>2, <1>3, <1>4 DEF EvidenceInv

LEMMA UploadReadsEvidence == ASSUME EvidenceInv, UploadReads PROVE EvidenceInv'
<1> DEFINE body == Redacted(folder[op.file])
           new  == [op EXCEPT !.at = "put", !.body = body]
<1>1. /\ op \in OpType /\ op.at = "read" /\ op.file \in Files /\ phase \in {"runner", "upload"}
      /\ phase = "upload" => op.file \in todo
      /\ op.file = "page" => kept["page"] # NoFile
      /\ UNCHANGED <<versions, parsed, removed, distrusted, object, late, losses, reference, seen,
                     phase>>
  BY DEF UploadReads, EvidenceInv, EvidenceTyped, OpOK, storeVars
<1>2. CASE Done(phase = "upload") /\ UNCHANGED <<folder, kept>>
  <2>1. /\ op' = NoOp /\ todo' = todo \ {op.file} /\ blocked' = (blocked \/ phase = "upload")
        /\ UNCHANGED <<folder, kept>>
    BY <1>2 DEF Done
  <2>2. EvidenceTyped'
    BY <1>1, <2>1, NothingOK DEF EvidenceInv, EvidenceTyped
  <2>3. OpOK' /\ RedactedOK' /\ StoredIsRedacted' /\ CommandOK' /\ SeenIsVouched'
    BY <1>1, <2>1, NothingOK
       DEF EvidenceInv, OpOK, RedactedOK, StoredIsRedacted, CommandOK, SeenIsVouched
  <2>4. KeptOK'
    BY <1>1, <2>1 DEF EvidenceInv, EvidenceTyped, KeptOK
  <2> QED BY <2>2, <2>3, <2>4 DEF EvidenceInv
<1>3. CASE /\ folder[op.file].v # 0 /\ (kept[op.file] # NoFile => folder[op.file] = kept[op.file])
           /\ (op.file = "command" => kept[op.file] # NoFile) /\ op' = new
           /\ IF op.file = "page"
                THEN /\ folder' = [folder EXCEPT ![op.file] = body]
                     /\ kept' = [kept EXCEPT ![op.file] = body]
                ELSE UNCHANGED <<folder, kept>>
           /\ UNCHANGED <<todo, blocked>>
  <2>1. folder[op.file] \in ContentType /\ folder[op.file].clean \in BOOLEAN
    BY <1>1 DEF EvidenceInv, EvidenceTyped, ContentType
  <2>2. body \in ContentType /\ body.v = folder[op.file].v /\ body # NoFile
    <3> DEFINE c == folder[op.file].clean \/ folder[op.file].v \in parsed
    <3>1. c \in BOOLEAN /\ body = [folder[op.file] EXCEPT !.clean = c]
      BY <2>1 DEF Redacted
    <3> HIDE DEF c, body
    <3> QED BY <1>3, <2>1, <3>1 DEF ContentType, NoFile
  <2>3. op.file # "page" => folder[op.file].clean
    BY <1>1 DEF EvidenceInv, RedactedOK
  <2>4. op.file = "page" => folder[op.file].v \in parsed
    BY <1>1, <1>3 DEF EvidenceInv, RedactedOK
  <2>5. body.clean
    BY <2>1, <2>3, <2>4 DEF Redacted, ContentType
  <2>6. op.file # "page" => body = folder[op.file]
    BY <2>1, <2>2, <2>3, <2>5 DEF ContentType
  <2> HIDE DEF body
  <2>7. /\ new \in OpType /\ new.at = "put" /\ new.file = op.file /\ new.body = body
    BY <1>1, <2>2 DEF OpType
  <2> HIDE DEF new
  <2>8. EvidenceTyped'
    BY <1>1, <1>3, <2>2, <2>7 DEF EvidenceInv, EvidenceTyped
  <2>9. OpOK'
    BY <1>1, <1>3, <2>2, <2>7 DEF EvidenceInv, OpOK
  <2>10. RedactedOK' /\ StoredIsRedacted'
    BY <1>1, <1>3, <2>2, <2>4, <2>5, <2>7
       DEF EvidenceInv, EvidenceTyped, RedactedOK, StoredIsRedacted, Files
  <2>11. CommandOK' /\ SeenIsVouched'
    BY <1>1, <1>3, <2>6, <2>7 DEF EvidenceInv, EvidenceTyped, CommandOK, SeenIsVouched, Files
  <2>12. KeptOK'
    BY <1>1, <1>3, <2>2 DEF EvidenceInv, EvidenceTyped, KeptOK, Browser, Files
  <2> QED BY <2>8, <2>9, <2>10, <2>11, <2>12 DEF EvidenceInv
<1> QED BY <1>2, <1>3 DEF UploadReads

LEMMA UploadSucceedsEvidence == ASSUME EvidenceInv, UploadSucceeds PROVE EvidenceInv'
<1> USE DEF UploadSucceeds, Done, localVars, NoOp, NoFile, Files
<1>1. EvidenceTyped'
  BY DEF EvidenceInv, EvidenceTyped, ContentType, OpType
<1>2. OpOK'
  BY DEF EvidenceInv, EvidenceTyped, OpType, OpOK
<1>3. RedactedOK' /\ StoredIsRedacted'
  BY DEF EvidenceInv, EvidenceTyped, ContentType, OpType, OpOK, RedactedOK, StoredIsRedacted
<1>4. CommandOK'
  BY DEF EvidenceInv, EvidenceTyped, OpOK, CommandOK, RedactedOK, ContentType
<1>5. KeptOK'
  BY DEF EvidenceInv, EvidenceTyped, OpOK, KeptOK
<1>6. SeenIsVouched'
  BY DEF EvidenceInv, EvidenceTyped, SeenIsVouched
<1> QED BY <1>1, <1>2, <1>3, <1>4, <1>5, <1>6 DEF EvidenceInv

LEMMA UploadFailsEvidence == ASSUME EvidenceInv, UploadFails PROVE EvidenceInv'
<1>1. /\ op \in OpType /\ op.at = "put" /\ op.file \in Files /\ phase \in {"runner", "upload"}
      /\ phase = "upload" => op.file \in todo
      /\ op.body \in ContentType /\ op.body.clean /\ op.attempt \in Nat /\ losses' \in Nat
      /\ UNCHANGED <<versions, parsed, folder, removed, kept, distrusted, reference, seen, phase>>
  BY DEF UploadFails, EvidenceInv, EvidenceTyped, OpOK, OpType, RedactedOK, localVars
<1>2. /\ object' \in {object, [object EXCEPT ![op.file] = op.body]}
      /\ late' \subseteq late \cup {[file |-> op.file, body |-> op.body]}
  BY DEF UploadFails
<1>3. /\ \A f \in Files : object'[f].clean
      /\ \A p \in late' : p.body.clean
      /\ object' \in [Files -> ContentType] /\ late' \subseteq [file : Files, body : ContentType]
  BY <1>1, <1>2 DEF EvidenceInv, EvidenceTyped, RedactedOK, StoredIsRedacted
<1>4. CASE op' = [op EXCEPT !.attempt = @ + 1] /\ UNCHANGED <<todo, blocked>>
  <2>1. /\ op' \in OpType /\ op'.at = "put" /\ op'.file = op.file /\ op'.body = op.body
    BY <1>1, <1>4 DEF OpType
  <2>2. EvidenceTyped'
    BY <1>1, <1>3, <1>4, <2>1 DEF EvidenceInv, EvidenceTyped
  <2>3. OpOK' /\ RedactedOK' /\ StoredIsRedacted' /\ CommandOK' /\ SeenIsVouched' /\ KeptOK'
    BY <1>1, <1>3, <1>4, <2>1
       DEF EvidenceInv, OpOK, RedactedOK, StoredIsRedacted, CommandOK, SeenIsVouched, KeptOK
  <2> QED BY <2>2, <2>3 DEF EvidenceInv
<1>5. CASE Done(phase = "upload")
  <2>1. /\ op' = NoOp /\ todo' = todo \ {op.file} /\ blocked' = (blocked \/ phase = "upload")
    BY <1>5 DEF Done
  <2>2. EvidenceTyped'
    BY <1>1, <1>3, <2>1, NothingOK DEF EvidenceInv, EvidenceTyped
  <2>3. OpOK' /\ RedactedOK' /\ StoredIsRedacted' /\ CommandOK' /\ SeenIsVouched'
    BY <1>1, <1>3, <2>1, NothingOK
       DEF EvidenceInv, OpOK, RedactedOK, StoredIsRedacted, CommandOK, SeenIsVouched
  <2>4. KeptOK'
    BY <1>1, <2>1 DEF EvidenceInv, EvidenceTyped, KeptOK
  <2> QED BY <2>2, <2>3, <2>4 DEF EvidenceInv
<1> QED BY <1>4, <1>5 DEF UploadFails

LEMMA UploadAllBeginsEvidence == ASSUME EvidenceInv, UploadAllBegins PROVE EvidenceInv'
<1> USE DEF UploadAllBegins, localVars, storeVars, NoOp, NoFile, Files, Browser
<1>1. EvidenceTyped'
  BY DEF EvidenceInv, EvidenceTyped, ContentType, OpType
<1>2. OpOK'
  BY DEF EvidenceInv, EvidenceTyped, OpType, OpOK
<1>3. RedactedOK' /\ StoredIsRedacted'
  BY DEF EvidenceInv, EvidenceTyped, ContentType, OpType, OpOK, RedactedOK, StoredIsRedacted
<1>4. CommandOK'
  BY DEF EvidenceInv, EvidenceTyped, OpOK, CommandOK, RedactedOK, ContentType
<1>5. KeptOK'
  BY DEF EvidenceInv, EvidenceTyped, OpOK, KeptOK
<1>6. SeenIsVouched'
  BY DEF EvidenceInv, EvidenceTyped, SeenIsVouched
<1> QED BY <1>1, <1>2, <1>3, <1>4, <1>5, <1>6 DEF EvidenceInv

LEMMA UploadAllEndsEvidence == ASSUME EvidenceInv, UploadAllEnds PROVE EvidenceInv'
<1> USE DEF UploadAllEnds, localVars, storeVars, NoOp, NoFile
<1>1. EvidenceTyped'
  BY DEF EvidenceInv, EvidenceTyped, ContentType, OpType
<1>2. OpOK'
  BY DEF EvidenceInv, EvidenceTyped, OpType, OpOK
<1>3. RedactedOK' /\ StoredIsRedacted'
  BY DEF EvidenceInv, EvidenceTyped, ContentType, OpType, OpOK, RedactedOK, StoredIsRedacted
<1>4. CommandOK'
  BY DEF EvidenceInv, EvidenceTyped, OpOK, CommandOK, RedactedOK, ContentType
<1>5. KeptOK'
  BY DEF EvidenceInv, EvidenceTyped, OpOK, KeptOK
<1>6. SeenIsVouched'
  BY DEF EvidenceInv, EvidenceTyped, SeenIsVouched
<1> QED BY <1>1, <1>2, <1>3, <1>4, <1>5, <1>6 DEF EvidenceInv

LEMMA ReviewerReadFailsEvidence == ASSUME EvidenceInv, ReviewerReadFails PROVE EvidenceInv'
<1> USE DEF ReviewerReadFails, localVars, storeVars
<1>1. EvidenceTyped'
  BY DEF EvidenceInv, EvidenceTyped, ContentType, OpType
<1>2. OpOK'
  BY DEF EvidenceInv, EvidenceTyped, OpType, OpOK
<1>3. RedactedOK' /\ StoredIsRedacted'
  BY DEF EvidenceInv, EvidenceTyped, ContentType, OpType, OpOK, RedactedOK, StoredIsRedacted
<1>4. CommandOK'
  BY DEF EvidenceInv, EvidenceTyped, OpOK, CommandOK, RedactedOK, ContentType
<1>5. KeptOK'
  BY DEF EvidenceInv, EvidenceTyped, OpOK, KeptOK
<1>6. SeenIsVouched'
  BY DEF EvidenceInv, EvidenceTyped, SeenIsVouched
<1> QED BY <1>1, <1>2, <1>3, <1>4, <1>5, <1>6 DEF EvidenceInv

LEMMA DeletionEndsEvidence == ASSUME EvidenceInv, DeletionEnds PROVE EvidenceInv'
<1> USE DEF DeletionEnds, localVars, storeVars
<1>1. EvidenceTyped'
  BY DEF EvidenceInv, EvidenceTyped, ContentType, OpType
<1>2. OpOK'
  BY DEF EvidenceInv, EvidenceTyped, OpType, OpOK
<1>3. RedactedOK' /\ StoredIsRedacted'
  BY DEF EvidenceInv, EvidenceTyped, ContentType, OpType, OpOK, RedactedOK, StoredIsRedacted
<1>4. CommandOK'
  BY DEF EvidenceInv, EvidenceTyped, OpOK, CommandOK, RedactedOK, ContentType
<1>5. KeptOK'
  BY DEF EvidenceInv, EvidenceTyped, OpOK, KeptOK
<1>6. SeenIsVouched'
  BY DEF EvidenceInv, EvidenceTyped, SeenIsVouched
<1> QED BY <1>1, <1>2, <1>3, <1>4, <1>5, <1>6 DEF EvidenceInv

LEMMA CaptureScreenshotEvidence ==
  ASSUME EvidenceInv, NEW v \in 1 .. versions, CaptureScreenshot(v)
  PROVE  EvidenceInv'
<1>1. UNCHANGED <<versions, parsed, folder, removed, distrusted, object, late, losses, reference,
                  seen, op, todo, phase>>
  BY DEF CaptureScreenshot, storeVars
<1>2. "image" \in Files /\ op = NoOp /\ phase = "runner"
  BY DEF Files, CaptureScreenshot
<1>3. \/ blocked' = TRUE /\ kept' = kept
      \/ /\ blocked' = blocked /\ folder["image"] # NoFile
         /\ kept' = [kept EXCEPT !["image"] = folder["image"]]
  BY DEF CaptureScreenshot, NoFile
<1>4. EvidenceTyped'
  BY <1>1, <1>2, <1>3 DEF EvidenceInv, EvidenceTyped
<1>5. OpOK' /\ RedactedOK' /\ StoredIsRedacted' /\ CommandOK' /\ SeenIsVouched'
  BY <1>1, <1>2, <1>3, NothingOK
     DEF EvidenceInv, EvidenceTyped, OpOK, RedactedOK, StoredIsRedacted, CommandOK, SeenIsVouched,
         Files
<1>6. KeptOK'
  BY <1>1, <1>2, <1>3 DEF EvidenceInv, EvidenceTyped, KeptOK, Files, Browser
<1> QED BY <1>4, <1>5, <1>6 DEF EvidenceInv

LEMMA FileWrittenEvidence == ASSUME EvidenceInv, NEW f \in Files, FileWritten(f) PROVE EvidenceInv'
<1> USE DEF FileWritten, NextVersion, storeVars, NoFile, Files, Browser
<1>1. EvidenceTyped'
  BY DEF EvidenceInv, EvidenceTyped, ContentType, OpType
<1>2. OpOK'
  BY DEF EvidenceInv, EvidenceTyped, OpType, OpOK
<1>3. RedactedOK' /\ StoredIsRedacted'
  BY DEF EvidenceInv, EvidenceTyped, ContentType, OpType, OpOK, RedactedOK, StoredIsRedacted
<1>4. CommandOK'
  BY DEF EvidenceInv, EvidenceTyped, OpOK, CommandOK, RedactedOK, ContentType
<1>5. KeptOK'
  BY DEF EvidenceInv, EvidenceTyped, OpOK, KeptOK
<1>6. SeenIsVouched'
  BY DEF EvidenceInv, EvidenceTyped, SeenIsVouched
<1> QED BY <1>1, <1>2, <1>3, <1>4, <1>5, <1>6 DEF EvidenceInv

LEMMA FileRemovedEvidence == ASSUME EvidenceInv, NEW f \in Files, FileRemoved(f) PROVE EvidenceInv'
<1> USE DEF FileRemoved, NextVersion, storeVars, NoFile, Files, Browser
<1>1. EvidenceTyped'
  BY DEF EvidenceInv, EvidenceTyped, ContentType, OpType
<1>2. OpOK'
  BY DEF EvidenceInv, EvidenceTyped, OpType, OpOK
<1>3. RedactedOK' /\ StoredIsRedacted'
  BY DEF EvidenceInv, EvidenceTyped, ContentType, OpType, OpOK, RedactedOK, StoredIsRedacted
<1>4. CommandOK'
  BY DEF EvidenceInv, EvidenceTyped, OpOK, CommandOK, RedactedOK, ContentType
<1>5. KeptOK'
  BY DEF EvidenceInv, EvidenceTyped, OpOK, KeptOK
<1>6. SeenIsVouched'
  BY DEF EvidenceInv, EvidenceTyped, SeenIsVouched
<1> QED BY <1>1, <1>2, <1>3, <1>4, <1>5, <1>6 DEF EvidenceInv

LEMMA ObjectWrittenEvidence ==
  ASSUME EvidenceInv, NEW f \in Files, ObjectWritten(f)
  PROVE  EvidenceInv'
<1> USE DEF ObjectWritten, NextVersion, NoFile
<1>1. EvidenceTyped'
  BY DEF EvidenceInv, EvidenceTyped, ContentType, OpType
<1>2. OpOK'
  BY DEF EvidenceInv, EvidenceTyped, OpType, OpOK
<1>3. RedactedOK' /\ StoredIsRedacted'
  BY DEF EvidenceInv, EvidenceTyped, ContentType, OpType, OpOK, RedactedOK, StoredIsRedacted
<1>4. CommandOK'
  BY DEF EvidenceInv, EvidenceTyped, OpOK, CommandOK, RedactedOK, ContentType
<1>5. KeptOK'
  BY DEF EvidenceInv, EvidenceTyped, OpOK, KeptOK
<1>6. SeenIsVouched'
  BY DEF EvidenceInv, EvidenceTyped, SeenIsVouched
<1> QED BY <1>1, <1>2, <1>3, <1>4, <1>5, <1>6 DEF EvidenceInv

LEMMA UploadBeginsEvidence ==
  ASSUME EvidenceInv, NEW f \in Files, UploadBegins(f)
  PROVE  EvidenceInv'
<1>1. /\ op = NoOp /\ reference[f] = NoFile /\ (f = "page" => phase = "upload")
      /\ phase \in {"runner", "upload"} /\ (phase = "upload" => f \in todo)
      /\ UNCHANGED <<versions, parsed, folder, removed, kept, object, late, losses, reference, seen,
                     phase>>
  BY DEF UploadBegins, storeVars
<1>2. \/ /\ op' = NoOp /\ blocked' = TRUE /\ todo' = todo \ {f} /\ UNCHANGED distrusted
      \/ /\ UNCHANGED <<todo, blocked>> /\ distrusted' \subseteq {"page"}
         /\ op' \in OpType /\ op'.at \in {"capture", "read"} /\ op'.file = f
         /\ op'.at = "capture" => f = "page"
         /\ op'.at = "read" /\ f = "page" => kept["page"] # NoFile
  <2>1. CASE f = "page" /\ f \in distrusted
    BY <1>1, <2>1 DEF UploadBegins
  <2>2. CASE ~(f = "page" /\ f \in distrusted) /\ f = "page" /\ kept[f] = NoFile
    <3>1. /\ distrusted' = distrusted \cup {"page"} /\ UNCHANGED <<todo, blocked>>
          /\ op' = [at |-> "capture", file |-> "page", body |-> folder["page"], attempt |-> 0,
                    upload |-> TRUE]
      BY <2>2 DEF UploadBegins, CaptureBegins
    <3>2. folder["page"] \in ContentType /\ distrusted \subseteq {"page"}
      BY DEF EvidenceInv, EvidenceTyped, Files
    <3> QED BY <2>2, <3>1, <3>2 DEF OpType, Files
  <2>3. CASE ~(f = "page" /\ f \in distrusted) /\ ~(f = "page" /\ kept[f] = NoFile)
    <3>1. /\ op' = [NoOp EXCEPT !.at = "read", !.file = f]
          /\ UNCHANGED <<todo, blocked, distrusted>>
      BY <2>3 DEF UploadBegins
    <3>2. distrusted \subseteq {"page"}
      BY DEF EvidenceInv, EvidenceTyped
    <3> QED BY <2>3, <3>1, <3>2 DEF OpType, NoOp, NoFile, ContentType
  <2> QED BY <2>1, <2>2, <2>3
<1>3. EvidenceTyped'
  BY <1>1, <1>2, NothingOK DEF EvidenceInv, EvidenceTyped
<1>4. OpOK' /\ RedactedOK' /\ StoredIsRedacted' /\ CommandOK' /\ SeenIsVouched'
  BY <1>1, <1>2, NothingOK
     DEF EvidenceInv, OpOK, RedactedOK, StoredIsRedacted, CommandOK, SeenIsVouched
<1>5. KeptOK'
  BY <1>1, <1>2 DEF EvidenceInv, EvidenceTyped, KeptOK
<1> QED BY <1>3, <1>4, <1>5 DEF EvidenceInv

LEMMA UploadKnownEvidence == ASSUME EvidenceInv, NEW f \in Files, UploadKnown(f) PROVE EvidenceInv'
<1>1. /\ op = NoOp /\ reference[f] # NoFile /\ todo' = todo \ {f}
      /\ UNCHANGED <<versions, parsed, folder, removed, kept, distrusted, object, late, losses,
                     reference, seen, op, phase, blocked>>
  BY DEF UploadKnown, localVars, storeVars
<1>2. EvidenceTyped'
  BY <1>1 DEF EvidenceInv, EvidenceTyped
<1>3. OpOK' /\ RedactedOK' /\ StoredIsRedacted' /\ CommandOK' /\ SeenIsVouched' /\ KeptOK'
  BY <1>1, NothingOK
     DEF EvidenceInv, OpOK, RedactedOK, StoredIsRedacted, CommandOK, SeenIsVouched, KeptOK
<1> QED BY <1>2, <1>3 DEF EvidenceInv

LEMMA ReviewerReadsEvidence ==
  ASSUME EvidenceInv, NEW f \in Files, ReviewerReads(f)
  PROVE  EvidenceInv'
<1> USE DEF ReviewerReads, Reads, Returned, Vouched, localVars, storeVars, NoFile, Files
<1>1. EvidenceTyped'
  BY DEF EvidenceInv, EvidenceTyped, ContentType, OpType
<1>2. OpOK'
  BY DEF EvidenceInv, EvidenceTyped, OpType, OpOK
<1>3. RedactedOK' /\ StoredIsRedacted'
  BY DEF EvidenceInv, EvidenceTyped, ContentType, OpType, OpOK, RedactedOK, StoredIsRedacted
<1>4. CommandOK'
  BY DEF EvidenceInv, EvidenceTyped, OpOK, CommandOK, RedactedOK, ContentType
<1>5. KeptOK'
  BY DEF EvidenceInv, EvidenceTyped, OpOK, KeptOK
<1>6. SeenIsVouched'
  BY DEF EvidenceInv, EvidenceTyped, SeenIsVouched
<1> QED BY <1>1, <1>2, <1>3, <1>4, <1>5, <1>6 DEF EvidenceInv

LEMMA DeletesObjectEvidence ==
  ASSUME EvidenceInv, NEW f \in Files, DeletesObject(f)
  PROVE  EvidenceInv'
<1>1. /\ phase = "delete" /\ NoFile \in ContentType /\ NoFile.clean
      /\ object' \in {object, [object EXCEPT ![f] = NoFile]}
      /\ reference' \in {reference, [reference EXCEPT ![f] = NoFile]}
      /\ todo' \subseteq Files /\ blocked' \in BOOLEAN
      /\ UNCHANGED <<versions, parsed, folder, removed, kept, distrusted, late, seen, op, phase>>
  BY NothingOK DEF DeletesObject, EvidenceInv, EvidenceTyped, localVars
<1>2. losses' \in Nat
  BY DEF DeletesObject, EvidenceInv, EvidenceTyped
<1>3. EvidenceTyped'
  BY <1>1, <1>2 DEF EvidenceInv, EvidenceTyped
<1>4. RedactedOK' /\ StoredIsRedacted' /\ CommandOK' /\ SeenIsVouched'
  BY <1>1
     DEF EvidenceInv, EvidenceTyped, RedactedOK, StoredIsRedacted, CommandOK, SeenIsVouched, Files
<1>5. OpOK' /\ KeptOK'
  BY <1>1 DEF EvidenceInv, OpOK, KeptOK
<1> QED BY <1>3, <1>4, <1>5 DEF EvidenceInv

-----------------------------------------------------------------------------
LEMMA EvidenceStart == EvidenceInit => EvidenceInv
<1> SUFFICES ASSUME EvidenceInit PROVE EvidenceInv
  OBVIOUS
<1>1. EvidenceTyped
  BY NothingOK DEF EvidenceInit, EvidenceTyped
<1>2. OpOK /\ RedactedOK /\ StoredIsRedacted /\ CommandOK /\ SeenIsVouched /\ KeptOK
  BY NothingOK DEF EvidenceInit, OpOK, RedactedOK, StoredIsRedacted, CommandOK, SeenIsVouched,
                   KeptOK, Files, Browser
<1> QED BY <1>1, <1>2 DEF EvidenceInv

LEMMA EvidenceStep == EvidenceInv /\ [EvidenceNext]_evidenceVars => EvidenceInv'
<1> SUFFICES ASSUME EvidenceInv, [EvidenceNext]_evidenceVars PROVE EvidenceInv'
  OBVIOUS
<1>1. CASE UNCHANGED evidenceVars
  BY <1>1 DEF EvidenceInv, EvidenceTyped, OpOK, RedactedOK, StoredIsRedacted, CommandOK,
              SeenIsVouched, KeptOK, evidenceVars
<1>2. CASE \/ LatePut \/ CaptureCommand \/ CaptureSnapshot \/ CaptureSucceeds \/ CaptureFails
           \/ UploadReads \/ UploadSucceeds \/ UploadFails \/ UploadAllBegins \/ UploadAllEnds
           \/ ReviewerReadFails \/ DeletionEnds
  BY <1>2, LatePutEvidence, CaptureCommandEvidence, CaptureSnapshotEvidence,
     CaptureSucceedsEvidence, CaptureFailsEvidence, UploadReadsEvidence, UploadSucceedsEvidence,
     UploadFailsEvidence, UploadAllBeginsEvidence, UploadAllEndsEvidence,
     ReviewerReadFailsEvidence, DeletionEndsEvidence
<1>3. CASE \E v \in 1 .. versions : CaptureScreenshot(v)
  BY <1>3, CaptureScreenshotEvidence
<1>4. CASE \E f \in Files : \/ FileWritten(f) \/ FileRemoved(f) \/ ObjectWritten(f)
                            \/ UploadBegins(f) \/ UploadKnown(f) \/ ReviewerReads(f)
                            \/ DeletesObject(f)
  BY <1>4, FileWrittenEvidence, FileRemovedEvidence, ObjectWrittenEvidence, UploadBeginsEvidence,
     UploadKnownEvidence, ReviewerReadsEvidence, DeletesObjectEvidence
<1> QED BY <1>1, <1>2, <1>3, <1>4 DEF EvidenceNext

LEMMA EvidenceInvHolds == EvidenceSpec => []EvidenceInv
<1>1. EvidenceInit => EvidenceInv
  BY EvidenceStart
<1>2. EvidenceInv /\ [EvidenceNext]_evidenceVars => EvidenceInv'
  BY EvidenceStep
<1> QED BY <1>1, <1>2, PTL DEF EvidenceSpec

\* What is stored has no typed values in it, what the Reviewer read is what the reference names,
\* and nothing the Harness vouches for drops out without blocking the Run, for any number of
\* writes to the files and of requests without an answer (runs/evidence.ts, storage/oss.ts).
THEOREM EvidenceIsKept == EvidenceSpec => []EvidenceKept
<1>1. EvidenceInv => EvidenceKept
  BY DEF EvidenceInv, CommandOK, KeptOK, SeenIsVouched, EvidenceKept, ReadIsAsUploaded,
         NothingDropsOut
<1> QED BY <1>1, EvidenceInvHolds, PTL

-----------------------------------------------------------------------------
(***************************************************************************)
(* SourceReads: the receipts.  Ranges without a gap that start at the      *)
(* first unit cover their text: of the ranges that end at a unit or behind *)
(* it, one that starts first must start before the unit, or another would. *)
(***************************************************************************)
\* A receipt is of a text, by a stage, of a range of units.
ReceiptType == [kind : {"read", "plan"}, stage : SourceStages, category : {"file", "list"},
                text : Texts, start : Nat, end : Nat, refs : SUBSET Nat, full : SUBSET Nat]

\* The calls and receipts are typed, the store keeps the receipts of source-reads.json, and the
\* plan in force is one that the store accepts.
SourceInv ==
  /\ text \in Texts /\ \A c \in cursors : c.offset \in Nat
  /\ pending \in Seq(ReceiptType) /\ receipts \in Seq(ReceiptType) /\ receipts = sourcesStored
  /\ ShownHasReceipt /\ sourcesPlan.full \subseteq sourcesPlan.refs
  /\ Accepted(sourcesPlan.refs, sourcesPlan.full)
  /\ \A i \in 1 .. Len(pending) : pending[i].full \subseteq pending[i].refs

-----------------------------------------------------------------------------
\* Some element of a set that has one measures least.
LEMMA LeastOf ==
  ASSUME NEW S, NEW m \in [S -> Nat], S # {}
  PROVE  \E x \in S : \A y \in S : m[x] <= m[y]
<1> DEFINE T == {m[x] : x \in S}
           R == OpToRel(<, Nat)
<1>1. T \subseteq Nat /\ T # {}
  OBVIOUS
<1>2. IsWellFoundedOn(R, Nat)
  BY NatLessThanWellFounded
<1>3. PICK n \in T : \A k \in T : ~(<<k, n>> \in R)
  BY <1>1, <1>2, WFMin
<1>4. \A k \in T : ~(k < n)
  BY <1>1, <1>3 DEF OpToRel
<1> QED BY <1>1, <1>4

\* Ranges without a gap that reach the end of their text cover it.
LEMMA FullTextIsCovered ==
  ASSUME NEW F, \A f \in F : f.start \in Nat /\ f.end \in Nat,
         NEW t, \A f \in F : f.text = t, Totals[t] \in Nat, FullSafeText(F)
  PROVE  \A u \in 1 .. Totals[t] : \E f \in F : f.start < u /\ u <= f.end
<1> SUFFICES ASSUME NEW u \in 1 .. Totals[t]
             PROVE  \E f \in F : f.start < u /\ u <= f.end
  OBVIOUS
<1>1. Totals[(CHOOSE f \in F : TRUE).text] = Totals[t] /\ F # {}
  BY DEF FullSafeText
<1>2. /\ \A f \in F : f.start = 0 \/ \E g \in F : g.start < f.start /\ f.start <= g.end
      /\ \E f \in F : f.end = Totals[t]
  BY <1>1 DEF FullSafeText
<1> DEFINE S == {f \in F : u <= f.end}
           m == [f \in S |-> f.start]
<1>3. S # {} /\ m \in [S -> Nat]
  BY <1>2
<1>4. PICK f \in S : \A g \in S : m[f] <= m[g]
  BY <1>3, LeastOf
<1>5. \A g \in S : f.start <= g.start
  BY <1>4
<1>6. f.start < u
  BY <1>2, <1>5
<1> QED BY <1>6

LEMMA FactIsReceipt ==
  ASSUME NEW st \in SourceStages, NEW category \in {"file", "list"}, NEW t \in Texts,
         NEW start \in Nat
  PROVE  Fact(st, category, t, start) \in ReceiptType
  BY SourcesAssumption DEF Fact, ReceiptType, Texts

\* A store that grows accepts what it accepted.
LEMMA AcceptedStays ==
  ASSUME NEW refs, NEW full, full \subseteq refs, receipts \in Seq(ReceiptType),
         Accepted(refs, full), NEW f \in ReceiptType, receipts' = Append(receipts, f)
  PROVE  Accepted(refs, full)'
<1>1. /\ refs \subseteq 1 .. Len(receipts) /\ Len(receipts') = Len(receipts) + 1
      /\ \A i \in refs : receipts'[i] = receipts[i]
  BY DEF Accepted
<1>2. Len(receipts) \in Nat /\ refs \subseteq 1 .. Len(receipts')
  BY <1>1
<1>3. ASSUME NEW i \in full
      PROVE  {receipts[j] : j \in {k \in refs : SameObject(receipts[k], receipts[i])}}
             = {receipts'[j] : j \in {k \in refs : SameObject(receipts'[k], receipts'[i])}}
  BY <1>1
<1>4. \A i \in full :
        /\ receipts'[i].category = "file"
        /\ FullSafeText({receipts'[j] :
                           j \in {k \in refs : SameObject(receipts'[k], receipts'[i])}})
  BY <1>1, <1>3 DEF Accepted
<1>5. \A i \in refs : receipts'[i].stage \in Allowed
  BY <1>1 DEF Accepted
<1> QED BY <1>2, <1>4, <1>5 DEF Accepted, FullSafeText, SameObject

\* A store that stays as it is accepts what it accepted.
LEMMA AcceptedSame ==
  ASSUME NEW refs, NEW full, receipts' = receipts, Accepted(refs, full)
  PROVE  Accepted(refs, full)'
<1>1. refs \subseteq 1 .. Len(receipts') /\ \A i \in refs : receipts'[i].stage \in Allowed
  BY DEF Accepted
<1>2. ASSUME NEW i \in full
      PROVE  {receipts[j] : j \in {k \in refs : SameObject(receipts[k], receipts[i])}}
             = {receipts'[j] : j \in {k \in refs : SameObject(receipts'[k], receipts'[i])}}
  OBVIOUS
<1>3. \A i \in full :
        /\ receipts'[i].category = "file"
        /\ FullSafeText({receipts'[j] :
                           j \in {k \in refs : SameObject(receipts'[k], receipts'[i])}})
  BY <1>2 DEF Accepted
<1> QED BY <1>1, <1>3 DEF Accepted, FullSafeText, SameObject

LEMMA SourceStart == SourceInit => SourceInv
<1> SUFFICES ASSUME SourceInit PROVE SourceInv
  OBVIOUS
<1>1. /\ receipts = <<>> /\ sourcesStored = <<>> /\ shown = {} /\ pending = <<>>
      /\ sourcesPlan.refs = {} /\ sourcesPlan.full = {} /\ text \in Texts /\ cursors = {}
  BY DEF SourceInit, NoPlan
<1>2. receipts \in Seq(ReceiptType) /\ pending \in Seq(ReceiptType)
  BY <1>1
<1>3. Accepted({}, {})
  BY DEF Accepted
<1> QED BY <1>1, <1>2, <1>3 DEF SourceInv, ShownHasReceipt

\* A call that is added to the chain is typed, as those before it.
LEMMA WaitsSource ==
  ASSUME SourceInv, NEW call \in ReceiptType, Waits(call), call.full \subseteq call.refs,
         \A c \in cursors' : c.offset \in Nat,
         UNCHANGED <<text, receipts, sourcesStored, shown, sourcesPlan>>
  PROVE  SourceInv'
<1>1. pending \in Seq(ReceiptType) /\ pending' = Append(pending, call)
  BY DEF SourceInv, Waits
<1>2. pending' \in Seq(ReceiptType)
  BY <1>1
<1>3. \A i \in 1 .. Len(pending') : pending'[i].full \subseteq pending'[i].refs
  BY <1>1 DEF SourceInv
<1>4. Accepted(sourcesPlan.refs, sourcesPlan.full)'
  BY AcceptedSame DEF SourceInv
<1> QED BY <1>2, <1>3, <1>4 DEF SourceInv, ShownHasReceipt, Shown

LEMMA ReadPageSource ==
  ASSUME SourceInv, NEW st \in SourceStages, ReadPage(st) PROVE SourceInv'
<1>1. PICK start \in {0} \cup {c.offset : c \in {d \in cursors : d.text = text}} :
        LET fact == Fact(st, "file", text, start) IN
        /\ Waits(fact)
        /\ cursors' = IF fact.end < Totals[text]
                        THEN cursors \cup {[text |-> text, offset |-> fact.end]} ELSE cursors
  BY DEF ReadPage
<1> DEFINE fact == Fact(st, "file", text, start)
<1>2. start \in Nat /\ text \in Texts
  BY <1>1 DEF SourceInv
<1>3. fact \in ReceiptType /\ fact.full \subseteq fact.refs
  BY <1>2, FactIsReceipt DEF Fact
<1>4. fact.end \in Nat
  BY <1>3 DEF ReceiptType
<1> HIDE DEF fact
<1>5. \A c \in cursors' : c.offset \in Nat
  BY <1>1, <1>4 DEF SourceInv, fact
<1>6. Waits(fact) /\ UNCHANGED <<text, receipts, sourcesStored, shown, sourcesPlan>>
  BY <1>1 DEF ReadPage, fact
<1> QED BY <1>3, <1>5, <1>6, WaitsSource

LEMMA ReadListSource ==
  ASSUME SourceInv, NEW st \in SourceStages, ReadList(st) PROVE SourceInv'
<1> DEFINE fact == Fact(st, "list", 1, 0)
<1>1. fact \in ReceiptType /\ fact.full \subseteq fact.refs
  BY FactIsReceipt, SourcesAssumption DEF Fact, Texts
<1>2. /\ Waits(fact) /\ UNCHANGED <<text, receipts, sourcesStored, shown, sourcesPlan, cursors>>
  BY DEF ReadList
<1> HIDE DEF fact
<1>3. \A c \in cursors' : c.offset \in Nat
  BY <1>2 DEF SourceInv
<1> QED BY <1>1, <1>2, <1>3, WaitsSource

LEMMA WritePlanSource ==
  ASSUME SourceInv, NEW refs \in SUBSET {s.id : s \in shown},
         NEW full \in {{}} \cup {{i} : i \in refs}, WritePlan(refs, full)
  PROVE  SourceInv'
<1> DEFINE old  == Fact("main-planning", "list", 1, 0)
           call == [old EXCEPT !.kind = "plan", !.refs = refs, !.full = full]
<1>1. refs \subseteq Nat /\ full \subseteq refs
  BY DEF SourceInv, ShownHasReceipt
<1>2. old \in ReceiptType
  BY FactIsReceipt, SourcesAssumption DEF Texts, SourceStages
<1>3. Waits(call) /\ UNCHANGED <<text, receipts, sourcesStored, shown, sourcesPlan, cursors>>
  BY DEF WritePlan
<1> HIDE DEF old
<1>4. call \in ReceiptType /\ call.full \subseteq call.refs
  BY <1>1, <1>2 DEF ReceiptType
<1> HIDE DEF call
<1>5. \A c \in cursors' : c.offset \in Nat
  BY <1>3 DEF SourceInv
<1> QED BY <1>3, <1>4, <1>5, WaitsSource

\* The call whose turn it is, and those that still wait.
LEMMA TurnSource ==
  ASSUME SourceInv, NEW kind, Turn(kind)
  PROVE  /\ Head(pending) \in ReceiptType /\ Head(pending).full \subseteq Head(pending).refs
         /\ pending' \in Seq(ReceiptType)
         /\ \A i \in 1 .. Len(pending') : pending'[i].full \subseteq pending'[i].refs
<1>1. pending \in Seq(ReceiptType) /\ pending # <<>> /\ pending' = Tail(pending)
  BY DEF SourceInv, Turn
<1>2. 1 \in 1 .. Len(pending) /\ Head(pending) = pending[1]
  BY <1>1
<1> QED BY <1>1, <1>2 DEF SourceInv

\* A receipt is written behind those there are.
LEMMA ReceiptWrittenSource == ASSUME SourceInv, ReceiptWritten PROVE SourceInv'
<1> DEFINE f == Head(pending)
<1>1. /\ sourcesStored' = Append(receipts, f) /\ receipts' = sourcesStored'
      /\ shown' = shown \cup {Shown(f, Len(sourcesStored'))}
      /\ UNCHANGED <<text, cursors, sourcesPlan>> /\ Turn("read")
  BY DEF ReceiptWritten
<1>2. /\ f \in ReceiptType /\ pending' \in Seq(ReceiptType)
      /\ \A i \in 1 .. Len(pending') : pending'[i].full \subseteq pending'[i].refs
  BY <1>1, TurnSource
<1> HIDE DEF f
<1>3. receipts \in Seq(ReceiptType) /\ Len(receipts) \in Nat /\ receipts = sourcesStored
  BY DEF SourceInv
<1>4. /\ sourcesStored' \in Seq(ReceiptType) /\ Len(sourcesStored') = Len(receipts) + 1
      /\ sourcesStored'[Len(receipts) + 1] = f
      /\ \A i \in 1 .. Len(receipts) : sourcesStored'[i] = receipts[i]
  BY <1>1, <1>2, <1>3
<1>5. ShownHasReceipt'
  <2> SUFFICES ASSUME NEW s \in shown'
               PROVE  /\ s.id \in 1 .. Len(sourcesStored')
                      /\ Shown(sourcesStored'[s.id], s.id) = s
    BY DEF ShownHasReceipt, Shown
  <2>1. CASE s \in shown
    <3>1. s.id \in 1 .. Len(receipts) /\ Shown(receipts[s.id], s.id) = s
      BY <2>1 DEF SourceInv, ShownHasReceipt
    <3>2. s.id \in 1 .. Len(sourcesStored') /\ sourcesStored'[s.id] = receipts[s.id]
      BY <1>3, <1>4, <3>1
    <3> QED BY <3>1, <3>2
  <2>2. CASE s = Shown(f, Len(sourcesStored'))
    <3>1. s.id = Len(receipts) + 1
      BY <1>4, <2>2 DEF Shown
    <3> QED BY <1>3, <1>4, <2>2, <3>1
  <2> QED BY <1>1, <2>1, <2>2
<1>6. Accepted(sourcesPlan.refs, sourcesPlan.full)'
  <2>1. Accepted(sourcesPlan.refs, sourcesPlan.full) /\ sourcesPlan.full \subseteq sourcesPlan.refs
    BY DEF SourceInv
  <2> DEFINE refs == sourcesPlan.refs
             full == sourcesPlan.full
  <2>2. receipts' = Append(receipts, f)
    BY <1>1
  <2>3. Accepted(sourcesPlan.refs, sourcesPlan.full)' <=> Accepted(refs, full)'
    OBVIOUS
  <2> QED BY <1>1, <1>2, <1>3, <2>1, <2>2, AcceptedStays
<1> QED BY <1>1, <1>2, <1>4, <1>5, <1>6 DEF SourceInv

LEMMA PlanWrittenSource == ASSUME SourceInv, PlanWritten PROVE SourceInv'
<1>1. /\ sourcesPlan'.refs = Head(pending).refs /\ sourcesPlan'.full = Head(pending).full
      /\ Accepted(Head(pending).refs, Head(pending).full) /\ Turn("plan")
      /\ UNCHANGED <<text, cursors, receipts, sourcesStored, shown>>
  BY DEF PlanWritten
<1>2. /\ Head(pending).full \subseteq Head(pending).refs
      /\ pending' \in Seq(ReceiptType)
      /\ \A i \in 1 .. Len(pending') : pending'[i].full \subseteq pending'[i].refs
  BY <1>1, TurnSource
<1>3. Accepted(sourcesPlan.refs, sourcesPlan.full)'
  BY <1>1, AcceptedSame
<1> QED BY <1>1, <1>2, <1>3 DEF SourceInv, ShownHasReceipt, Shown

LEMMA SourceStep == SourceInv /\ [SourceNext]_sourceVars => SourceInv'
<1> SUFFICES ASSUME SourceInv, [SourceNext]_sourceVars PROVE SourceInv'
  OBVIOUS
<1>1. ASSUME UNCHANGED <<cursors, receipts, sourcesStored, shown, sourcesPlan>>, text' \in Texts,
             pending' \in Seq(ReceiptType),
             \A i \in 1 .. Len(pending') : pending'[i].full \subseteq pending'[i].refs
      PROVE  SourceInv'
  <2>1. Accepted(sourcesPlan.refs, sourcesPlan.full)'
    BY <1>1, AcceptedSame DEF SourceInv
  <2> QED BY <1>1, <2>1 DEF SourceInv, ShownHasReceipt, Shown
<1>2. CASE UNCHANGED sourceVars \/ SecretChanges
  BY <1>1, <1>2 DEF sourceVars, SecretChanges, SourceInv
<1>3. CASE ReceiptFails \/ PlanFails
  <2>1. PICK kind \in {"read", "plan"} : Turn(kind)
    BY <1>3 DEF ReceiptFails, PlanFails
  <2>2. UNCHANGED <<text, cursors, receipts, sourcesStored, shown, sourcesPlan>>
    BY <1>3 DEF ReceiptFails, PlanFails
  <2> QED BY <1>1, <2>1, <2>2, TurnSource DEF SourceInv
<1>4. CASE \E st \in SourceStages : ReadPage(st) \/ ReadList(st)
  BY <1>4, ReadPageSource, ReadListSource
<1>5. CASE \E refs \in SUBSET {s.id : s \in shown} :
             \E full \in {{}} \cup {{i} : i \in refs} : WritePlan(refs, full)
  BY <1>5, WritePlanSource
<1>6. CASE ReceiptWritten \/ PlanWritten
  BY <1>6, ReceiptWrittenSource, PlanWrittenSource
<1> QED BY <1>2, <1>3, <1>4, <1>5, <1>6 DEF SourceNext

LEMMA SourceInvHolds == SourceSpec => []SourceInv
<1>1. SourceInit => SourceInv
  BY SourceStart
<1>2. SourceInv /\ [SourceNext]_sourceVars => SourceInv'
  BY SourceStep
<1> QED BY <1>1, <1>2, PTL DEF SourceSpec

\* What the plan in force calls a full file was returned unit by unit.
LEMMA FullFilesWereRead == ASSUME SourceInv PROVE FullFileWasRead
<1> SUFFICES ASSUME NEW i \in sourcesPlan.full, NEW u \in 1 .. Totals[sourcesStored[i].text]
             PROVE  \E j \in sourcesPlan.refs :
                      /\ sourcesStored[j].category = "file"
                      /\ sourcesStored[j].text = sourcesStored[i].text
                      /\ sourcesStored[j].stage \in Allowed
                      /\ sourcesStored[j].start < u /\ u <= sourcesStored[j].end
  BY DEF FullFileWasRead
<1> DEFINE J == {k \in sourcesPlan.refs : SameObject(receipts[k], receipts[i])}
           F == {receipts[j] : j \in J}
           t == receipts[i].text
<1>1. /\ receipts = sourcesStored /\ receipts \in Seq(ReceiptType)
      /\ sourcesPlan.refs \subseteq 1 .. Len(receipts) /\ i \in sourcesPlan.refs
      /\ \A j \in sourcesPlan.refs : receipts[j].stage \in Allowed
      /\ receipts[i].category = "file" /\ FullSafeText(F)
  BY DEF SourceInv, Accepted
<1>2. \A j \in sourcesPlan.refs : receipts[j] \in ReceiptType
  BY <1>1
<1>3. /\ \A f \in F : f.start \in Nat /\ f.end \in Nat /\ f.text = t
      /\ Totals[t] \in Nat
  BY <1>1, <1>2, SourcesAssumption DEF ReceiptType, SameObject, Texts
<1> HIDE DEF F, t
<1>4. \A v \in 1 .. Totals[t] : \E f \in F : f.start < v /\ v <= f.end
  BY <1>1, <1>3, FullTextIsCovered
<1>5. PICK f \in F : f.start < u /\ u <= f.end
  BY <1>1, <1>4 DEF t
<1>6. PICK j \in J : f = receipts[j]
  BY <1>5 DEF F
<1> QED BY <1>1, <1>5, <1>6 DEF SameObject

\* No page is returned without its receipt in source-reads.json, and what a plan calls a full file
\* was returned unit by unit of one text, for any texts, page size, calls that wait and writes
\* that fail (runs/source-reads.ts).
THEOREM ReadsAreRecorded == SourceSpec => []ReadsRecorded
<1>1. SourceInv => ReadsRecorded
  BY FullFilesWereRead DEF SourceInv, ReadsRecorded
<1> QED BY <1>1, SourceInvHolds, PTL

-----------------------------------------------------------------------------
(***************************************************************************)
(* ScenarioRules: the Runner completes a first part of the list, step after*)
(* step; the Reviewer reads the account last; the report follows both.     *)
(***************************************************************************)
RulesTyped ==
  /\ rulesTree \in [Scenarios -> Statuses] /\ changed \subseteq Scenarios
  /\ plan \in Seq(Scenarios) /\ rulesStage \in RuleStages /\ declared \in BOOLEAN
  /\ rulesActive \in Scenarios \cup {Nothing}
  /\ completed \subseteq Scenarios /\ IsFiniteSet(completed)
  /\ ran \in Seq({"start", "finish"} \X Scenarios)
  /\ images \subseteq Images /\ patch \in BOOLEAN /\ rulesBlocked \in BOOLEAN
  /\ calls \subseteq Artifacts \cup images /\ read \subseteq Artifacts
  /\ rulesSeen \subseteq attempted /\ attempted \subseteq images

\* Nothing has happened before the Runner starts.
BeforeRunner == rulesStage = "planning" =>
  /\ ~declared /\ rulesActive = Nothing /\ completed = {} /\ ran = <<>> /\ plan = <<>>
  /\ calls = {} /\ read = {} /\ attempted = {}

\* What the k-th step of the Runner is.
RunnerStep(k) ==
  IF k % 2 = 1 THEN <<"start", plan[(k + 1) \div 2]>> ELSE <<"finish", plan[k \div 2]>>

\* The Runner has completed a first part of a valid list, step after step, and is at the next.
Progress == rulesStage \notin {"planning", "failed"} =>
  /\ Cardinality(InList(plan)) = Len(plan) /\ Validated(plan)
  /\ Cardinality(completed) <= Len(plan)
  /\ completed = {plan[i] : i \in 1 .. Cardinality(completed)}
  /\ rulesActive # Nothing => /\ Cardinality(completed) < Len(plan)
                              /\ rulesActive = plan[Cardinality(completed) + 1]
  /\ Len(ran) = 2 * Cardinality(completed) + (IF rulesActive = Nothing THEN 0 ELSE 1)
  /\ \A k \in 1 .. Len(ran) : ran[k] = RunnerStep(k)

\* A review is of a complete execution, and a report is of a complete review.
StagesOK ==
  /\ rulesStage \in {"reviewing", "reporting", "reported"} =>
       rulesActive = Nothing /\ Cardinality(completed) = Len(plan)
  /\ rulesStage \in {"reporting", "reported"} => images \subseteq attempted

\* An image that was not shown is a blocking reason.
ShownOrBlocked == rulesBlocked \/ attempted \subseteq rulesSeen

AccountComesLast ==
  "execution" \in calls \cup read => PlanAndPatchRead /\ images \subseteq attempted

ReportOK ==
  report.result = "passed" =>
    /\ rulesStage = "reported" /\ (report.line # "body" => rulesSeen = images)
    /\ \A i \in 1 .. Len(plan) : report.results[i] = <<plan[i], "passed">>

RulesInv ==
  /\ RulesTyped /\ BeforeRunner /\ Progress /\ StagesOK
  /\ ShownOrBlocked /\ AccountComesLast /\ ReportOK

\* A list is a sequence of scenarios, and has a finite set of entries.
LEMMA ListsAreSeqs == ASSUME NEW l \in Lists PROVE l \in Seq(Scenarios)
  BY RulesAssumption DEF Lists

LEMMA ListsAreFinite ==
  ASSUME NEW l \in Seq(Scenarios) PROVE IsFiniteSet(InList(l)) /\ Cardinality(InList(l)) \in Nat
<1>1. IsFiniteSet(1 .. Len(l))
  BY FS_Interval
<1>2. l \in Surjection(1 .. Len(l), InList(l))
  BY DEF Surjection, InList
<1>3. IsFiniteSet(InList(l))
  BY <1>1, <1>2, FS_Surjection
<1> QED BY <1>3, FS_CardinalityType

\* The steps of the Runner are those of the plan, which stays.
LEMMA PlanStays ==
  ASSUME UNCHANGED <<plan, rulesTree, changed>>
  PROVE  /\ Validated(plan)' = Validated(plan) /\ InList(plan)' = InList(plan)
         /\ \A k \in Nat : RunnerStep(k)' = RunnerStep(k)
  BY DEF Validated, InList, RunnerStep

LEMMA RunnerSteps ==
  ASSUME NEW n \in Nat
  PROVE  /\ RunnerStep(2 * n + 1) = <<"start", plan[n + 1]>>
         /\ RunnerStep(2 * n + 2) = <<"finish", plan[n + 1]>>
<1>1. /\ (2 * n + 1) % 2 = 1 /\ (2 * n + 1 + 1) \div 2 = n + 1
      /\ (2 * n + 2) % 2 = 0 /\ (2 * n + 2) \div 2 = n + 1
  OBVIOUS
<1> QED BY <1>1 DEF RunnerStep

LEMMA RunnerStartsRules ==
  ASSUME RulesInv, NEW l \in Lists, NEW reason \in BOOLEAN, NEW safe \in BOOLEAN,
         RunnerStarts(l, reason, safe)
  PROVE  RulesInv'
<1> USE DEF RunnerStarts, givenVars, runnerVars
<1>1. l \in Seq(Scenarios)
  BY ListsAreSeqs
<1>2. RulesTyped'
  BY <1>1 DEF RulesInv, RulesTyped, Artifacts, RuleStages
<1>3. BeforeRunner'
  BY DEF RulesInv, RulesTyped, BeforeRunner
<1>4. ASSUME rulesStage' = "running" PROVE Progress'
  <2>1. /\ plan' = l /\ Parsed(l, reason) /\ Validated(l)
        /\ UNCHANGED <<rulesTree, changed, rulesActive, completed, ran>>
    BY <1>4
  <2>2. /\ completed = {} /\ Cardinality({}) = 0 /\ rulesActive = Nothing /\ ran = <<>>
    BY FS_EmptySet DEF RulesInv, BeforeRunner
  <2>3. Len(l) \in Nat /\ Len(ran') = 0 /\ Cardinality(completed') = 0
    BY <1>1, <2>1, <2>2
  <2>4. Validated(l)' /\ Cardinality(InList(l)) = Len(l) /\ InList(l)' = InList(l)
    BY <2>1 DEF Parsed, Validated, InList
  <2>5. completed' = {l[i] : i \in 1 .. 0}
    BY <2>1, <2>2
  <2>6. Len(ran') = 2 * 0 + 0 /\ \A k \in 1 .. Len(ran') : FALSE
    BY <2>3
  <2> QED BY <2>1, <2>2, <2>3, <2>4, <2>5, <2>6 DEF Progress
<1>5. Progress'
  BY <1>4 DEF Progress
<1>6. StagesOK' /\ ShownOrBlocked' /\ AccountComesLast' /\ ReportOK'
  BY DEF RulesInv, RulesTyped, StagesOK, ShownOrBlocked, AccountComesLast, PlanAndPatchRead,
         BeforeRunner, ReportOK
<1> QED BY <1>2, <1>3, <1>5, <1>6 DEF RulesInv

LEMMA BeginRules == ASSUME RulesInv, NEW l \in Lists, Begin(l) PROVE RulesInv'
<1> USE DEF Begin, givenVars, reviewVars
<1>1. RulesTyped'
  BY DEF RulesInv, RulesTyped, Artifacts, RuleStages
<1>2. BeforeRunner'
  BY DEF RulesInv, RulesTyped, BeforeRunner
<1>3. Progress'
  BY DEF RulesInv, RulesTyped, Progress, Validated, InList, RunnerStep
<1>4. StagesOK' /\ ShownOrBlocked' /\ AccountComesLast'
  BY DEF RulesInv, RulesTyped, StagesOK, ShownOrBlocked, AccountComesLast, PlanAndPatchRead,
     Artifacts, BeforeRunner
<1>5. ReportOK'
  BY DEF RulesInv, RulesTyped, ReportOK
<1> QED BY <1>1, <1>2, <1>3, <1>4, <1>5 DEF RulesInv

LEMMA StartRules == ASSUME RulesInv, NEW s \in Scenarios, Start(s) PROVE RulesInv'
<1>1. /\ rulesStage = "running" /\ s \in InList(plan) \ completed /\ rulesActive = Nothing
      /\ s = plan[Cardinality(completed) + 1] /\ rulesActive' = s
      /\ ran' = Append(ran, <<"start", s>>)
      /\ UNCHANGED <<rulesTree, changed, images, patch, plan, rulesStage, declared, completed,
                     calls, read, attempted, rulesSeen, rulesBlocked, report>>
  BY DEF Start, givenVars, reviewVars
<1>2. PICK n : n = Cardinality(completed)
  OBVIOUS
<1>3. /\ plan \in Seq(Scenarios) /\ n \in Nat /\ Len(plan) \in Nat
      /\ ran \in Seq({"start", "finish"} \X Scenarios) /\ IsFiniteSet(completed)
  BY <1>2, FS_CardinalityType DEF RulesInv, RulesTyped
<1>4. /\ Cardinality(InList(plan)) = Len(plan) /\ Validated(plan) /\ n <= Len(plan)
      /\ completed = {plan[i] : i \in 1 .. n} /\ Len(ran) = 2 * n
      /\ \A k \in 1 .. Len(ran) : ran[k] = RunnerStep(k)
  <2>1. Progress /\ Len(ran) = 2 * n + 0
    BY <1>1, <1>2 DEF RulesInv, Progress
  <2> QED BY <1>1, <1>2, <1>3, <2>1 DEF Progress
<1>5. n < Len(plan)
  <2>1. completed \subseteq InList(plan) /\ completed # InList(plan)
    <3>1. \A i \in 1 .. n : i \in 1 .. Len(plan)
      BY <1>3, <1>4
    <3>2. completed \subseteq InList(plan)
      BY <1>4, <3>1 DEF InList
    <3> QED BY <1>1, <3>2
  <2>2. IsFiniteSet(InList(plan)) /\ Cardinality(InList(plan)) \in Nat
    BY <1>3, ListsAreFinite
  <2>3. /\ Cardinality(completed) <= Cardinality(InList(plan))
        /\ Cardinality(InList(plan)) # Cardinality(completed)
    BY <2>1, <2>2, FS_Subset
  <2> QED BY <1>2, <1>3, <1>4, <2>3
<1>6. Progress'
  <2>1. s # Nothing
    BY RulesAssumption
  <2>2. /\ Len(ran') = 2 * n + 1 /\ ran'[2 * n + 1] = <<"start", s>>
        /\ \A k \in 1 .. Len(ran) : ran'[k] = ran[k]
    BY <1>1, <1>3, <1>4
  <2>3. RunnerStep(2 * n + 1) = <<"start", s>>
    BY <1>1, <1>2, <1>3, RunnerSteps
  <2>4. \A k \in 1 .. 2 * n + 1 : ran'[k] = RunnerStep(k)
    <3>1. Len(ran) \in Nat /\ Len(ran) = 2 * n
      BY <1>3, <1>4
    <3>2. \A k \in 1 .. Len(ran) + 1 : k \in 1 .. Len(ran) \/ k = Len(ran) + 1
      BY <3>1
    <3> QED BY <1>4, <2>2, <2>3, <3>1, <3>2
  <2>5. /\ Validated(plan)' /\ InList(plan)' = InList(plan)
        /\ \A k \in Nat : RunnerStep(k)' = RunnerStep(k)
    BY <1>1, <1>4, PlanStays
  <2>6. \A k \in 1 .. Len(ran') : ran'[k] = RunnerStep(k)'
    BY <1>3, <2>2, <2>4, <2>5
  <2>7. Cardinality(completed') = n /\ rulesActive' = plan'[n + 1] /\ rulesActive' # Nothing
    BY <1>1, <1>2, <2>1
  <2> QED BY <1>1, <1>3, <1>4, <1>5, <2>2, <2>5, <2>6, <2>7 DEF Progress
<1>7. RulesTyped'
  BY <1>1, <1>3 DEF RulesInv, RulesTyped, Artifacts, RuleStages
<1>8. BeforeRunner' /\ StagesOK' /\ ShownOrBlocked' /\ AccountComesLast' /\ ReportOK'
  BY <1>1 DEF RulesInv, RulesTyped, BeforeRunner, StagesOK, ShownOrBlocked, AccountComesLast,
              PlanAndPatchRead, ReportOK
<1> QED BY <1>6, <1>7, <1>8 DEF RulesInv

LEMMA FinishRules == ASSUME RulesInv, NEW s \in Scenarios, Finish(s) PROVE RulesInv'
<1>1. /\ rulesStage = "running" /\ rulesActive = s /\ s \notin completed
      /\ completed' = completed \cup {s} /\ rulesActive' = Nothing
      /\ ran' = Append(ran, <<"finish", s>>)
      /\ UNCHANGED <<rulesTree, changed, images, patch, plan, rulesStage, declared, calls, read,
                     attempted, rulesSeen, rulesBlocked, report>>
  BY DEF Finish, givenVars, reviewVars
<1>2. PICK n : n = Cardinality(completed)
  OBVIOUS
<1>3. /\ plan \in Seq(Scenarios) /\ n \in Nat /\ Len(plan) \in Nat
      /\ ran \in Seq({"start", "finish"} \X Scenarios) /\ IsFiniteSet(completed)
  BY <1>2, FS_CardinalityType DEF RulesInv, RulesTyped
<1>4. s # Nothing
  BY RulesAssumption
<1>5. /\ Cardinality(InList(plan)) = Len(plan) /\ Validated(plan) /\ n < Len(plan)
      /\ completed = {plan[i] : i \in 1 .. n} /\ Len(ran) = 2 * n + 1 /\ s = plan[n + 1]
      /\ \A k \in 1 .. Len(ran) : ran[k] = RunnerStep(k)
  BY <1>1, <1>2, <1>4 DEF RulesInv, Progress
<1>6. IsFiniteSet(completed') /\ Cardinality(completed') = n + 1
  BY <1>1, <1>2, <1>3, FS_AddElement
<1>7. Progress'
  <2>1. /\ Len(ran') = 2 * n + 2 /\ ran'[2 * n + 2] = <<"finish", s>>
        /\ \A k \in 1 .. Len(ran) : ran'[k] = ran[k]
    <3> DEFINE step == <<"finish", s>>
    <3>1. step \in {"start", "finish"} \X Scenarios /\ ran' = Append(ran, step)
      BY <1>1
    <3> HIDE DEF step
    <3>2. ran'[Len(ran) + 1] = step /\ Len(ran') = Len(ran) + 1
      BY <1>3, <3>1
    <3>3. \A k \in 1 .. Len(ran) : ran'[k] = ran[k]
      BY <1>3, <3>1
    <3> QED BY <1>3, <1>5, <3>2, <3>3 DEF step
  <2>2. RunnerStep(2 * n + 2) = <<"finish", s>>
    BY <1>3, <1>5, RunnerSteps
  <2>3. \A k \in 1 .. 2 * n + 2 : ran'[k] = RunnerStep(k)
    <3>1. \A k \in 1 .. 2 * n + 2 : k \in 1 .. Len(ran) \/ k = 2 * n + 2
      BY <1>3, <1>5
    <3> QED BY <1>5, <2>1, <2>2, <3>1
  <2>4. /\ Validated(plan)' /\ InList(plan)' = InList(plan)
        /\ \A k \in Nat : RunnerStep(k)' = RunnerStep(k)
    BY <1>1, <1>5, PlanStays
  <2>5. \A k \in 1 .. Len(ran') : ran'[k] = RunnerStep(k)'
    BY <1>3, <2>1, <2>3, <2>4
  <2>6. completed' = {plan[i] : i \in 1 .. n + 1}
    BY <1>1, <1>3, <1>5
  <2>7. Len(ran') = 2 * (n + 1) + 0 /\ n + 1 <= Len(plan)
    BY <1>3, <1>5, <2>1
  <2> QED BY <1>1, <1>5, <1>6, <2>4, <2>5, <2>6, <2>7 DEF Progress
<1>8. RulesTyped'
  BY <1>1, <1>3, <1>6 DEF RulesInv, RulesTyped, Artifacts, RuleStages
<1>9. BeforeRunner' /\ StagesOK' /\ ShownOrBlocked' /\ AccountComesLast' /\ ReportOK'
  BY <1>1 DEF RulesInv, RulesTyped, BeforeRunner, StagesOK, ShownOrBlocked, AccountComesLast,
              PlanAndPatchRead, ReportOK
<1> QED BY <1>7, <1>8, <1>9 DEF RulesInv

LEMMA RunnerEndsRules == ASSUME RulesInv, RunnerEnds PROVE RulesInv'
<1> USE DEF RunnerEnds, givenVars, runnerVars, reviewVars
<1>1. RulesTyped'
  BY DEF RulesInv, RulesTyped, Artifacts, RuleStages
<1>2. BeforeRunner'
  BY DEF RulesInv, RulesTyped, BeforeRunner
<1>3. Progress'
  BY DEF RulesInv, RulesTyped, Progress, Validated, InList, RunnerStep
<1>4. StagesOK' /\ ShownOrBlocked' /\ AccountComesLast'
  BY DEF RulesInv, RulesTyped, StagesOK, ShownOrBlocked, AccountComesLast, PlanAndPatchRead,
     Artifacts, BeforeRunner
<1>5. ReportOK'
  BY DEF RulesInv, RulesTyped, ReportOK
<1> QED BY <1>1, <1>2, <1>3, <1>4, <1>5 DEF RulesInv

LEMMA ReadArtifactRules ==
  ASSUME RulesInv, NEW name \in Artifacts, ReadArtifact(name)
  PROVE  RulesInv'
<1> USE DEF ReadArtifact, Ready, givenVars, runnerVars
<1>1. RulesTyped'
  BY DEF RulesInv, RulesTyped, Artifacts, RuleStages
<1>2. BeforeRunner'
  BY DEF RulesInv, RulesTyped, BeforeRunner
<1>3. Progress'
  BY DEF RulesInv, RulesTyped, Progress, Validated, InList, RunnerStep
<1>4. StagesOK' /\ ShownOrBlocked' /\ AccountComesLast'
  BY DEF RulesInv, RulesTyped, StagesOK, ShownOrBlocked, AccountComesLast, PlanAndPatchRead,
     Artifacts, BeforeRunner
<1>5. ReportOK'
  BY DEF RulesInv, RulesTyped, ReportOK
<1> QED BY <1>1, <1>2, <1>3, <1>4, <1>5 DEF RulesInv

LEMMA ArtifactAnsweredRules ==
  ASSUME RulesInv, NEW name \in Artifacts, NEW ok \in BOOLEAN, ArtifactAnswered(name, ok)
  PROVE  RulesInv'
<1> USE DEF ArtifactAnswered, givenVars, runnerVars
<1>1. RulesTyped'
  BY DEF RulesInv, RulesTyped, Artifacts, RuleStages
<1>2. BeforeRunner'
  BY DEF RulesInv, RulesTyped, BeforeRunner
<1>3. Progress'
  BY DEF RulesInv, RulesTyped, Progress, Validated, InList, RunnerStep
<1>4. StagesOK' /\ ShownOrBlocked' /\ AccountComesLast'
  BY DEF RulesInv, RulesTyped, StagesOK, ShownOrBlocked, AccountComesLast, PlanAndPatchRead,
     Artifacts, BeforeRunner
<1>5. ReportOK'
  BY DEF RulesInv, RulesTyped, ReportOK
<1> QED BY <1>1, <1>2, <1>3, <1>4, <1>5 DEF RulesInv

LEMMA ReadImageRules == ASSUME RulesInv, NEW i \in images, ReadImage(i) PROVE RulesInv'
<1> USE DEF ReadImage, givenVars, runnerVars
<1>1. RulesTyped'
  BY DEF RulesInv, RulesTyped, Artifacts, RuleStages
<1>2. BeforeRunner'
  BY DEF RulesInv, RulesTyped, BeforeRunner
<1>3. Progress'
  BY DEF RulesInv, RulesTyped, Progress, Validated, InList, RunnerStep
<1>4. StagesOK' /\ ShownOrBlocked' /\ AccountComesLast'
  <2>1. i # "execution"
    BY RulesAssumption DEF RulesInv, RulesTyped
  <2> QED BY <2>1 DEF RulesInv, StagesOK, ShownOrBlocked, AccountComesLast, PlanAndPatchRead
<1>5. ReportOK'
  BY DEF RulesInv, RulesTyped, ReportOK
<1> QED BY <1>1, <1>2, <1>3, <1>4, <1>5 DEF RulesInv

LEMMA ImageAnsweredRules ==
  ASSUME RulesInv, NEW i \in images, NEW answer \in {"image", "error", "invalid"},
         ImageAnswered(i, answer)
  PROVE  RulesInv'
<1> USE DEF ImageAnswered, givenVars, runnerVars
<1>1. RulesTyped'
  BY DEF RulesInv, RulesTyped, Artifacts, RuleStages
<1>2. BeforeRunner'
  BY DEF RulesInv, RulesTyped, BeforeRunner
<1>3. Progress'
  BY DEF RulesInv, RulesTyped, Progress, Validated, InList, RunnerStep
<1>4. StagesOK' /\ ShownOrBlocked' /\ AccountComesLast'
  BY DEF RulesInv, RulesTyped, StagesOK, ShownOrBlocked, AccountComesLast, PlanAndPatchRead,
     Artifacts, BeforeRunner
<1>5. ReportOK'
  BY DEF RulesInv, RulesTyped, ReportOK
<1> QED BY <1>1, <1>2, <1>3, <1>4, <1>5 DEF RulesInv

LEMMA WriteReviewRules == ASSUME RulesInv, WriteReview PROVE RulesInv'
<1> USE DEF WriteReview, Ready, givenVars, runnerVars, reviewVars
<1>1. RulesTyped'
  BY DEF RulesInv, RulesTyped, Artifacts, RuleStages
<1>2. BeforeRunner'
  BY DEF RulesInv, RulesTyped, BeforeRunner
<1>3. Progress'
  BY DEF RulesInv, RulesTyped, Progress, Validated, InList, RunnerStep
<1>4. StagesOK' /\ ShownOrBlocked' /\ AccountComesLast'
  BY DEF RulesInv, RulesTyped, StagesOK, ShownOrBlocked, AccountComesLast, PlanAndPatchRead,
     Artifacts, BeforeRunner
<1>5. ReportOK'
  BY DEF RulesInv, RulesTyped, ReportOK
<1> QED BY <1>1, <1>2, <1>3, <1>4, <1>5 DEF RulesInv

LEMMA ReviewerGivesUpRules == ASSUME RulesInv, ReviewerGivesUp PROVE RulesInv'
<1> USE DEF ReviewerGivesUp, givenVars, runnerVars, reviewVars
<1>1. RulesTyped'
  BY DEF RulesInv, RulesTyped, Artifacts, RuleStages
<1>2. BeforeRunner'
  BY DEF RulesInv, RulesTyped, BeforeRunner
<1>3. Progress'
  BY DEF RulesInv, RulesTyped, Progress, Validated, InList, RunnerStep
<1>4. StagesOK' /\ ShownOrBlocked' /\ AccountComesLast'
  BY DEF RulesInv, RulesTyped, StagesOK, ShownOrBlocked, AccountComesLast, PlanAndPatchRead,
     Artifacts, BeforeRunner
<1>5. ReportOK'
  BY DEF RulesInv, RulesTyped, ReportOK
<1> QED BY <1>1, <1>2, <1>3, <1>4, <1>5 DEF RulesInv

-----------------------------------------------------------------------------
LEMMA ReportWrittenRules ==
  ASSUME RulesInv, NEW kinds \in [1 .. Len(plan) -> {"passed", "failed", "blocked"}],
         NEW bug \in BOOLEAN, NEW cut \in BOOLEAN, NEW result \in {"passed", "failed", "blocked"},
         NEW line \in ReportLines,
         ReportWritten([i \in 1 .. Len(plan) - (IF cut /\ plan /= <<>> THEN 1 ELSE 0) |->
                          <<plan[i], kinds[i]>>], result, line, bug)
  PROVE  RulesInv'
<1> DEFINE short   == IF cut /\ plan /= <<>> THEN 1 ELSE 0
           results == [i \in 1 .. Len(plan) - short |-> <<plan[i], kinds[i]>>]
<1>1. ReportWritten(results, result, line, bug)
  OBVIOUS
<1>2. short \in {0, 1}
  OBVIOUS
<1> HIDE DEF short
<1>3. /\ rulesStage = "reporting" /\ rulesStage' \in {"reported", "failed"}
      /\ UNCHANGED <<rulesTree, changed, images, patch, plan, declared, rulesActive, completed, ran,
                     calls, read, attempted, rulesSeen, rulesBlocked>>
  BY <1>1 DEF ReportWritten, givenVars, runnerVars, reviewVars
<1>4. plan \in Seq(Scenarios) /\ Len(plan) \in Nat
  BY DEF RulesInv, RulesTyped
<1>5. RulesTyped' /\ BeforeRunner'
  BY <1>3 DEF RulesInv, RulesTyped, BeforeRunner, Artifacts, RuleStages
<1>6. Progress'
  BY <1>3 DEF RulesInv, Progress, Validated, InList, RunnerStep
<1>7. StagesOK' /\ ShownOrBlocked' /\ AccountComesLast'
  BY <1>3 DEF RulesInv, StagesOK, ShownOrBlocked, AccountComesLast, PlanAndPatchRead
<1>8. ReportOK'
  <2> SUFFICES ASSUME report'.result = "passed" PROVE ReportOK'
    BY DEF ReportOK
  <2>1. report.result # "passed"
    BY <1>3 DEF RulesInv, ReportOK
  <2> HIDE DEF results
  <2>2. /\ MatchesPlan(results) /\ rulesStage' = "reported" /\ report'.line = line
        /\ Aggregate(results, bug) = "passed" /\ report'.results = results
        /\ rulesBlocked => line = "body"
    BY <1>1, <2>1 DEF ReportWritten, Downgraded, ReportLines
  <2>3. Len(results) = Len(plan)
    BY <2>2 DEF MatchesPlan
  <2>5. short = 0
    <3>1. CASE short = 1
      <4>1. CASE Len(plan) = 0
        <5>1. plan = <<>>
          BY <1>4, <4>1
        <5> QED BY <3>1, <5>1 DEF short
      <4>2. CASE Len(plan) # 0
        <5>1. Len(results) = Len(plan) - 1
          BY <1>4, <3>1, <4>2 DEF results
        <5> QED BY <1>4, <2>3, <5>1
      <4> QED BY <4>1, <4>2
    <3> QED BY <1>2, <3>1
  <2>6. results = [i \in 1 .. Len(plan) |-> <<plan[i], kinds[i]>>]
    BY <1>4, <2>5 DEF results
  <2>7. ASSUME NEW i \in 1 .. Len(plan) PROVE results[i] = <<plan[i], "passed">>
    <3>1. results[i] = <<plan[i], kinds[i]>> /\ kinds[i] \in {"passed", "failed", "blocked"}
      BY <2>6
    <3>2. kinds[i] \in {results[j][2] : j \in 1 .. Len(results)}
      BY <2>3, <3>1
    <3>3. kinds[i] # "blocked" /\ kinds[i] # "failed"
      BY <2>2, <3>2 DEF Aggregate
    <3> QED BY <3>1, <3>3
  <2>8. report'.line # "body" => rulesSeen = images
    BY <1>3, <2>2 DEF RulesInv, RulesTyped, StagesOK, ShownOrBlocked
  <2> QED BY <1>3, <2>2, <2>7, <2>8 DEF ReportOK
<1> QED BY <1>5, <1>6, <1>7, <1>8 DEF RulesInv

LEMMA RulesStart == RulesInit => RulesInv
<1> SUFFICES ASSUME RulesInit PROVE RulesInv
  OBVIOUS
<1>1. RulesTyped
  <2>1. /\ completed = {} /\ IsFiniteSet({}) /\ plan = <<>> /\ ran = <<>>
        /\ calls = {} /\ read = {} /\ attempted = {} /\ rulesSeen = {}
    BY FS_EmptySet DEF RulesInit
  <2>2. /\ plan \in Seq(Scenarios) /\ ran \in Seq({"start", "finish"} \X Scenarios)
    BY <2>1
  <2> QED BY <2>1, <2>2 DEF RulesInit, RulesTyped, RuleStages
<1> QED BY <1>1 DEF RulesInit, RulesInv, BeforeRunner, Progress, StagesOK, ShownOrBlocked,
                    AccountComesLast, ReportOK, NoReport, Nothing

LEMMA RulesStep == RulesInv /\ [RulesNext]_ruleVars => RulesInv'
<1> SUFFICES ASSUME RulesInv, [RulesNext]_ruleVars PROVE RulesInv'
  OBVIOUS
<1>1. CASE UNCHANGED ruleVars
  <2>1. RulesTyped' /\ BeforeRunner'
    BY <1>1 DEF RulesInv, RulesTyped, BeforeRunner, Artifacts, ruleVars
  <2>2. Progress'
    BY <1>1 DEF RulesInv, Progress, Validated, InList, RunnerStep, ruleVars
  <2>3. StagesOK' /\ ShownOrBlocked' /\ AccountComesLast' /\ ReportOK'
    BY <1>1 DEF RulesInv, StagesOK, ShownOrBlocked, AccountComesLast, PlanAndPatchRead, ReportOK,
                ruleVars
  <2> QED BY <2>1, <2>2, <2>3 DEF RulesInv
<1>2. CASE \E l \in Lists, reason, safe \in BOOLEAN : RunnerStarts(l, reason, safe)
  BY <1>2, RunnerStartsRules
<1>3. CASE \E l \in Lists : Begin(l)
  BY <1>3, BeginRules
<1>4. CASE (\E s \in Scenarios : Start(s) \/ Finish(s)) \/ RunnerEnds
  BY <1>4, StartRules, FinishRules, RunnerEndsRules
<1>5. CASE \E n \in Artifacts : ReadArtifact(n) \/ \E ok \in BOOLEAN : ArtifactAnswered(n, ok)
  BY <1>5, ReadArtifactRules, ArtifactAnsweredRules
<1>6. CASE \E i \in images :
             ReadImage(i) \/ \E answer \in {"image", "error", "invalid"} : ImageAnswered(i, answer)
  BY <1>6, ReadImageRules, ImageAnsweredRules
<1>7. CASE WriteReview \/ ReviewerGivesUp
  BY <1>7, WriteReviewRules, ReviewerGivesUpRules
<1>8. CASE \E kinds \in [1 .. Len(plan) -> {"passed", "failed", "blocked"}], bug, cut \in BOOLEAN,
              result \in {"passed", "failed", "blocked"}, line \in ReportLines :
             ReportWritten([i \in 1 .. Len(plan) - (IF cut /\ plan /= <<>> THEN 1 ELSE 0) |->
                              <<plan[i], kinds[i]>>], result, line, bug)
  BY <1>8, ReportWrittenRules
<1> QED BY <1>1, <1>2, <1>3, <1>4, <1>5, <1>6, <1>7, <1>8 DEF RulesNext

LEMMA RulesInvHolds == RulesSpec => []RulesInv
<1>1. RulesInit => RulesInv
  BY RulesStart
<1>2. RulesInv /\ [RulesNext]_ruleVars => RulesInv'
  BY RulesStep
<1> QED BY <1>1, <1>2, PTL DEF RulesSpec

\* The Runner's steps, one after the other, are what the plan says, when the list is complete.
LEMMA CompleteRun ==
  ASSUME RulesInv, report.result = "passed"
  PROVE  PassedWasExecuted
<1>1. /\ rulesStage = "reported" /\ rulesActive = Nothing /\ Cardinality(completed) = Len(plan)
      /\ \A i \in 1 .. Len(plan) : report.results[i] = <<plan[i], "passed">>
  BY DEF RulesInv, ReportOK, StagesOK
<1>2. /\ Validated(plan) /\ completed = {plan[i] : i \in 1 .. Len(plan)}
      /\ Len(ran) = 2 * Len(plan) /\ \A k \in 1 .. Len(ran) : ran[k] = RunnerStep(k)
  BY <1>1 DEF RulesInv, RulesTyped, Progress
<1>3. ran \in Seq({"start", "finish"} \X Scenarios)
  BY DEF RulesInv, RulesTyped
<1>4. ran = [k \in 1 .. 2 * Len(plan) |-> RunnerStep(k)]
  BY <1>2, <1>3
<1> QED BY <1>1, <1>2, <1>4 DEF PassedWasExecuted, RunnerStep, Validated, InList

\* A Run reported as passed executed what it reports, in the order of the plan; its Reviewer read
\* or tried the originals before the Runner's account of them, and was shown them all if the
\* downgrade could rewrite the result: for any scenarios, images and plan
\* (runs/scenario-progress.ts, runs/review-order.ts).
THEOREM PassedIsAsReviewed == RulesSpec => []PassedAsReviewed
<1>1. RulesInv => PassedWasExecuted
  BY CompleteRun DEF PassedWasExecuted
<1>2. RulesInv => OriginalsComeFirst
  BY DEF RulesInv, AccountComesLast, ReportOK, OriginalsComeFirst
<1> QED BY <1>1, <1>2, RulesInvHolds, PTL DEF PassedAsReviewed

-----------------------------------------------------------------------------
(***************************************************************************)
(* The types of each component: with its invariant, the bounds its state   *)
(* stays within, each an invariant of its own.                             *)
(***************************************************************************)
\* Every step of the test data leaves the losses within their bound.
LEMMA DataLossesStep ==
  ASSUME dataLosses \in 0 .. MaxDataLoss, [TestDataNext]_dataVars
  PROVE  dataLosses' \in 0 .. MaxDataLoss
<1>1. dataLosses' = dataLosses \/ NoAnswer
  <2>1. CASE ScopeStep
    BY <2>1 DEF ScopeStep, ScopeRegisters, ScopeCountsBefore, ScopeDeletes, ScopeCountsAfter,
                ScopeDeletesControl, ScopeRechecksControl, ScopeEnds, CreationLost, siteVars
  <2>2. CASE LateCreation \/ ProbeRunCleanup \/ CleanupBegins \/ CleanupQueries \/ CleanupEnds
    BY <2>2 DEF LateCreation, ProbeRunCleanup, CleanupBegins, CleanupQueries, CleanupEnds, siteVars
  <2>3. ASSUME NEW i \in Ids,
               CreateAccount(i) \/ (\E scoped \in BOOLEAN : RegisterTestData(i, scoped))
               \/ CleanupRefuses(i) \/ CleanupDeletes(i)
        PROVE  dataLosses' = dataLosses \/ NoAnswer
    BY <2>3 DEF CreateAccount, RegisterTestData, CleanupRefuses, CleanupDeletes, CreationLost,
                siteVars
  <2>4. CASE \E c \in Calls : ScopeBegins(c)
    BY <2>4 DEF ScopeBegins, siteVars
  <2>5. CASE UNCHANGED dataVars
    BY <2>5 DEF dataVars
  <2> QED BY <2>1, <2>2, <2>3, <2>4, <2>5 DEF TestDataNext
<1> QED BY <1>1, DataAssumption DEF NoAnswer

LEMMA DataTypesHold == TestDataSpec => []TestDataTypeOK
<1>1. TestDataInit => dataLosses \in 0 .. MaxDataLoss
  BY DataAssumption DEF TestDataInit
<1>2. dataLosses \in 0 .. MaxDataLoss /\ [TestDataNext]_dataVars
        => (dataLosses \in 0 .. MaxDataLoss)'
  BY DataLossesStep
<1>3. DataInv /\ dataLosses \in 0 .. MaxDataLoss => TestDataTypeOK
  BY DEF DataInv, DataTyped, DataOpType, ScopeStages, TestDataTypeOK
<1> QED BY <1>1, <1>2, <1>3, DataInvHolds, PTL DEF TestDataSpec

-----------------------------------------------------------------------------
\* A page ends within its text.
PageWithin(f) == f.end <= Totals[f.text]

\* Cursors point into their texts, pages end there, and the store holds what it may.
SourceBounds ==
  /\ failures \in 0 .. MaxFailure /\ Len(pending) <= MaxPending /\ Len(receipts) <= MaxReceipt
  /\ \A c \in cursors : c.text \in Texts /\ c.offset < Totals[c.text]
  /\ \A i \in 1 .. Len(pending) : PageWithin(pending[i])
  /\ \A i \in 1 .. Len(receipts) : PageWithin(receipts[i])

LEMMA FactWithin == ASSUME NEW st, NEW category, NEW t \in Texts, NEW start \in Nat
                    PROVE  PageWithin(Fact(st, category, t, start))
<1>1. Totals[t] \in Nat /\ start + PageSize \in Nat
  BY SourcesAssumption DEF Texts
<1> QED BY <1>1 DEF Fact, PageWithin

LEMMA WaitsWithin ==
  ASSUME SourceInv, SourceBounds, NEW fact, PageWithin(fact), fact \in ReceiptType, Waits(fact),
         UNCHANGED <<receipts, failures>>,
         \A c \in cursors' : c.text \in Texts /\ c.offset < Totals[c.text]
  PROVE  SourceBounds'
<1>1. pending \in Seq(ReceiptType) /\ pending' = Append(pending, fact) /\ Len(pending) < MaxPending
  BY DEF Waits, SourceInv
<1>2. Len(pending') = Len(pending) + 1 /\ Len(pending) \in Nat /\ MaxPending \in Nat
  BY <1>1, SourcesAssumption
<1>3. ASSUME NEW i \in 1 .. Len(pending') PROVE PageWithin(pending'[i])
  <2>1. CASE i = Len(pending) + 1
    <3>1. pending'[i] = fact
      BY <1>1, <2>1
    <3> QED BY <3>1
  <2>2. CASE i # Len(pending) + 1
    <3>1. i \in 1 .. Len(pending)
      BY <1>2, <2>2
    <3>2. pending'[i] = pending[i]
      BY <1>1, <3>1
    <3> QED BY <3>1, <3>2 DEF SourceBounds
  <2> QED BY <2>1, <2>2
<1>4. Len(pending') <= MaxPending
  BY <1>1, <1>2
<1>5. \A i \in 1 .. Len(pending') : PageWithin(pending[i])'
  BY <1>3 DEF PageWithin
<1>6. \A i \in 1 .. Len(receipts') : PageWithin(receipts[i])'
  BY DEF SourceBounds, PageWithin
<1> QED BY <1>4, <1>5, <1>6 DEF SourceBounds

LEMMA TurnWithin ==
  ASSUME SourceInv, SourceBounds, NEW kind, Turn(kind)
  PROVE  /\ PageWithin(Head(pending)) /\ Len(pending') <= MaxPending
         /\ \A i \in 1 .. Len(pending') : PageWithin(pending[i])'
<1>1. pending \in Seq(ReceiptType) /\ pending # <<>> /\ pending' = Tail(pending)
  BY DEF SourceInv, Turn
<1>2. 1 \in 1 .. Len(pending) /\ Head(pending) = pending[1] /\ Len(pending') = Len(pending) - 1
      /\ Len(pending) \in Nat
  BY <1>1
<1>3. \A i \in 1 .. Len(pending') : pending'[i] = pending[i + 1] /\ i + 1 \in 1 .. Len(pending)
  BY <1>1, <1>2
<1>4. \A i \in 1 .. Len(pending') : PageWithin(pending'[i])
  BY <1>3 DEF SourceBounds
<1>5. \A i \in 1 .. Len(pending') : PageWithin(pending[i])'
  BY <1>4 DEF PageWithin
<1>6. Len(pending') <= MaxPending
  BY <1>2, SourcesAssumption DEF SourceBounds
<1> QED BY <1>2, <1>5, <1>6 DEF SourceBounds

LEMMA SourceBoundsStart == SourceInit => SourceBounds
<1> SUFFICES ASSUME SourceInit PROVE SourceBounds
  OBVIOUS
<1>1. Len(pending) = 0 /\ Len(receipts) = 0 /\ cursors = {} /\ failures = 0
  BY DEF SourceInit
<1> QED BY <1>1, SourcesAssumption DEF SourceBounds

LEMMA SourceBoundsStep ==
  ASSUME SourceInv, SourceBounds, [SourceNext]_sourceVars PROVE SourceBounds'
<1>1. CASE UNCHANGED sourceVars \/ SecretChanges
  BY <1>1 DEF sourceVars, SecretChanges, SourceBounds, PageWithin
<1>2. ASSUME NEW st \in SourceStages, ReadPage(st) PROVE SourceBounds'
  <2>1. PICK start \in {0} \cup {c.offset : c \in {d \in cursors : d.text = text}} :
          LET fact == Fact(st, "file", text, start) IN
          /\ Waits(fact)
          /\ cursors' = IF fact.end < Totals[text]
                          THEN cursors \cup {[text |-> text, offset |-> fact.end]} ELSE cursors
    BY <1>2 DEF ReadPage
  <2> DEFINE fact == Fact(st, "file", text, start)
  <2>2. start \in Nat /\ text \in Texts /\ UNCHANGED <<receipts, failures>>
    BY <1>2, <2>1 DEF SourceInv, ReadPage
  <2>3. PageWithin(fact) /\ fact \in ReceiptType
    BY <2>2, FactWithin, FactIsReceipt
  <2> HIDE DEF fact
  <2>4. \A c \in cursors' : c.text \in Texts /\ c.offset < Totals[c.text]
    BY <2>1, <2>2 DEF SourceBounds, fact
  <2>5. Waits(fact)
    BY <2>1 DEF fact
  <2> QED BY <2>2, <2>3, <2>4, <2>5, WaitsWithin
<1>3. ASSUME NEW st \in SourceStages, ReadList(st) PROVE SourceBounds'
  <2> DEFINE fact == Fact(st, "list", 1, 0)
  <2>1. Waits(fact) /\ UNCHANGED <<receipts, failures, cursors>>
    BY <1>3 DEF ReadList
  <2>2. PageWithin(fact) /\ fact \in ReceiptType
    BY FactWithin, FactIsReceipt, SourcesAssumption DEF Texts
  <2> HIDE DEF fact
  <2>3. \A c \in cursors' : c.text \in Texts /\ c.offset < Totals[c.text]
    BY <2>1 DEF SourceBounds
  <2> QED BY <2>1, <2>2, <2>3, WaitsWithin
<1>4. ASSUME NEW refs \in SUBSET {s.id : s \in shown}, NEW full \in {{}} \cup {{i} : i \in refs},
             WritePlan(refs, full)
      PROVE  SourceBounds'
  <2> DEFINE old  == Fact("main-planning", "list", 1, 0)
             call == [old EXCEPT !.kind = "plan", !.refs = refs, !.full = full]
  <2>1. refs \subseteq Nat /\ full \subseteq refs
    BY DEF SourceInv, ShownHasReceipt
  <2>2. old \in ReceiptType /\ PageWithin(old)
    BY FactWithin, FactIsReceipt, SourcesAssumption DEF Texts, SourceStages
  <2>3. Waits(call) /\ UNCHANGED <<receipts, failures, cursors>>
    BY <1>4 DEF WritePlan
  <2> HIDE DEF old
  <2>4. call \in ReceiptType /\ PageWithin(call)
    BY <2>1, <2>2 DEF ReceiptType, PageWithin
  <2> HIDE DEF call
  <2>5. \A c \in cursors' : c.text \in Texts /\ c.offset < Totals[c.text]
    BY <2>3 DEF SourceBounds
  <2> QED BY <2>3, <2>4, <2>5, WaitsWithin
<1>5. CASE ReceiptFails \/ PlanFails \/ PlanWritten
  <2>1. PICK kind \in {"read", "plan"} : Turn(kind)
    BY <1>5 DEF ReceiptFails, PlanFails, PlanWritten
  <2>2. UNCHANGED <<cursors, receipts>>
    BY <1>5 DEF ReceiptFails, PlanFails, PlanWritten
  <2>3. failures' = failures \/ Fails
    BY <1>5 DEF ReceiptFails, PlanFails, PlanWritten
  <2>4. failures' \in 0 .. MaxFailure
    BY <2>3, SourcesAssumption DEF Fails, SourceBounds
  <2>5. Len(pending') <= MaxPending /\ \A i \in 1 .. Len(pending') : PageWithin(pending[i])'
    BY <2>1, TurnWithin
  <2>6. \A i \in 1 .. Len(receipts') : PageWithin(receipts[i])'
    BY <2>2 DEF SourceBounds, PageWithin
  <2> QED BY <2>2, <2>4, <2>5, <2>6 DEF SourceBounds
<1>6. CASE ReceiptWritten
  <2>1. /\ Turn("read") /\ Len(receipts) < MaxReceipt /\ receipts' = Append(receipts, Head(pending))
        /\ UNCHANGED <<cursors, failures>>
    BY <1>6 DEF ReceiptWritten
  <2>2. /\ PageWithin(Head(pending)) /\ Len(pending') <= MaxPending
        /\ \A i \in 1 .. Len(pending') : PageWithin(pending[i])'
    BY <2>1, TurnWithin
  <2>3. receipts \in Seq(ReceiptType) /\ Head(pending) \in ReceiptType
    BY <2>1, TurnSource DEF SourceInv
  <2>4. Len(receipts') = Len(receipts) + 1 /\ Len(receipts) \in Nat
    BY <2>1, <2>3
  <2>5. Len(receipts') <= MaxReceipt
    BY <2>1, <2>4, SourcesAssumption
  <2>6. ASSUME NEW i \in 1 .. Len(receipts') PROVE PageWithin(receipts'[i])
    <3>1. CASE i = Len(receipts) + 1
      <4>1. receipts'[i] = Head(pending)
        BY <2>1, <2>3, <3>1
      <4> QED BY <2>2, <4>1
    <3>2. CASE i # Len(receipts) + 1
      <4>1. i \in 1 .. Len(receipts)
        BY <2>4, <3>2
      <4>2. receipts'[i] = receipts[i]
        BY <2>1, <2>3, <4>1
      <4> QED BY <4>1, <4>2 DEF SourceBounds
    <3> QED BY <3>1, <3>2
  <2>7. \A i \in 1 .. Len(receipts') : PageWithin(receipts[i])'
    BY <2>6 DEF PageWithin
  <2> QED BY <2>1, <2>2, <2>5, <2>7 DEF SourceBounds
<1> QED BY <1>1, <1>2, <1>3, <1>4, <1>5, <1>6 DEF SourceNext

LEMMA SourceTypesHold == SourceSpec => []SourceTypeOK
<1>1. SourceInv /\ SourceBounds => SourceTypeOK
  <2> SUFFICES ASSUME SourceInv, SourceBounds PROVE SourceTypeOK
    OBVIOUS
  <2>1. Len(receipts) \in Nat /\ \A i : i \in 1 .. Len(receipts) => i \in 1 .. MaxReceipt
    BY SourcesAssumption DEF SourceInv, SourceBounds
  <2>2. ASSUME NEW i \in 1 .. Len(receipts)
        PROVE  /\ receipts[i].stage \in SourceStages /\ receipts[i].category \in {"file", "list"}
               /\ receipts[i].text \in Texts /\ receipts[i].end <= Totals[receipts[i].text]
    <3>1. receipts[i] \in ReceiptType
      BY DEF SourceInv
    <3> QED BY <3>1 DEF ReceiptType, SourceBounds, PageWithin
  <2>3. ASSUME NEW s \in shown PROVE s.id \in 1 .. MaxReceipt /\ s.text \in Texts
    <3>1. s.id \in 1 .. Len(receipts) /\ Shown(receipts[s.id], s.id) = s
      BY DEF SourceInv, ShownHasReceipt
    <3>2. Shown(receipts[s.id], s.id).text = receipts[s.id].text
      BY DEF Shown
    <3> QED BY <2>1, <2>2, <3>1, <3>2
  <2>4. sourcesPlan.full \subseteq sourcesPlan.refs /\ sourcesPlan.refs \subseteq 1 .. MaxReceipt
    BY <2>1 DEF SourceInv, Accepted
  <2> QED BY <2>2, <2>3, <2>4 DEF SourceTypeOK, SourceInv, SourceBounds
<1>2. SourceInit => SourceInv /\ SourceBounds
  BY SourceStart, SourceBoundsStart
<1>3. SourceInv /\ SourceBounds /\ [SourceNext]_sourceVars => SourceInv' /\ SourceBounds'
  BY SourceStep, SourceBoundsStep
<1> QED BY <1>1, <1>2, <1>3, PTL DEF SourceSpec

-----------------------------------------------------------------------------
\* Every content is of a version that was written, and the counters stay within their bounds.
FilesWithin ==
  \A f \in Files : /\ folder[f].v <= versions /\ kept[f].v <= versions
                   /\ object[f].v <= versions /\ reference[f].v <= versions
                   /\ seen[f].body.v <= versions /\ seen[f].of.v <= versions
LateWithin    == \A p \in late : p.body.v <= versions
ParsedWithin  == \A v \in parsed : 1 <= v /\ v <= versions
OpWithin      == op.body.v <= versions /\ op.attempt < Attempts
CountedWithin == versions <= MaxVersion /\ losses <= MaxLoss

EvidenceBounds == FilesWithin /\ LateWithin /\ ParsedWithin /\ OpWithin /\ CountedWithin

LEMMA EvidenceBoundsStart == EvidenceInit => EvidenceBounds
  BY EvidenceAssumption
     DEF EvidenceInit, EvidenceBounds, FilesWithin, LateWithin, ParsedWithin, OpWithin,
         CountedWithin, NoOp, NoFile, Attempts

LEMMA EvidenceBoundsStep ==
  ASSUME EvidenceInv, EvidenceBounds, [EvidenceNext]_evidenceVars PROVE EvidenceBounds'
<1> USE EvidenceAssumption DEF EvidenceInv, EvidenceTyped, ContentType, OpType, NoOp, NoFile,
        storeVars, localVars
<1>1. CASE LatePut
  <2>1. FilesWithin'
    BY <1>1 DEF LatePut, EvidenceBounds, FilesWithin, OpWithin, LateWithin
  <2>2. LateWithin'
    BY <1>1 DEF LatePut, EvidenceBounds, LateWithin, OpWithin
  <2>3. ParsedWithin'
    BY <1>1 DEF LatePut, EvidenceBounds, ParsedWithin, OpWithin
  <2>4. OpWithin'
    BY <1>1 DEF LatePut, EvidenceBounds, OpWithin, FilesWithin, Attempts
  <2>5. CountedWithin'
    BY <1>1 DEF LatePut, EvidenceBounds, CountedWithin
  <2> QED BY <2>1, <2>2, <2>3, <2>4, <2>5 DEF EvidenceBounds
<1>2. CASE CaptureCommand
  <2>1. FilesWithin'
    BY <1>2 DEF CaptureCommand, NextVersion, EvidenceBounds, FilesWithin, OpWithin, LateWithin
  <2>2. LateWithin'
    BY <1>2 DEF CaptureCommand, NextVersion, EvidenceBounds, LateWithin, OpWithin
  <2>3. ParsedWithin'
    BY <1>2 DEF CaptureCommand, NextVersion, EvidenceBounds, ParsedWithin, OpWithin
  <2>4. OpWithin'
    BY <1>2 DEF CaptureCommand, NextVersion, EvidenceBounds, OpWithin, FilesWithin, Attempts
  <2>5. CountedWithin'
    BY <1>2 DEF CaptureCommand, NextVersion, EvidenceBounds, CountedWithin
  <2> QED BY <2>1, <2>2, <2>3, <2>4, <2>5 DEF EvidenceBounds
<1>3. CASE CaptureSnapshot
  <2>1. FilesWithin'
    BY <1>3 DEF CaptureSnapshot, CaptureBegins, EvidenceBounds, FilesWithin, OpWithin, LateWithin
  <2>2. LateWithin'
    BY <1>3 DEF CaptureSnapshot, CaptureBegins, EvidenceBounds, LateWithin, OpWithin
  <2>3. ParsedWithin'
    BY <1>3 DEF CaptureSnapshot, CaptureBegins, EvidenceBounds, ParsedWithin, OpWithin
  <2>4. OpWithin'
    <3>1. versions' = versions /\ op'.body = folder["page"] /\ op'.attempt = 0
      BY <1>3 DEF CaptureSnapshot, CaptureBegins
    <3> QED BY <3>1 DEF EvidenceBounds, OpWithin, FilesWithin, Attempts, Files
  <2>5. CountedWithin'
    BY <1>3 DEF CaptureSnapshot, CaptureBegins, EvidenceBounds, CountedWithin
  <2> QED BY <2>1, <2>2, <2>3, <2>4, <2>5 DEF EvidenceBounds
<1>4. CASE CaptureSucceeds
  <2>1. FilesWithin'
    <3> DEFINE body == [op.body EXCEPT !.clean = TRUE]
    <3>1. UNCHANGED <<versions, object, reference, seen>> /\ body.v = op.body.v /\ "page" \in Files
      BY <1>4 DEF CaptureSucceeds, Files
    <3> HIDE DEF body
    <3>2. \/ UNCHANGED <<folder, kept>>
          \/ /\ folder' = [folder EXCEPT !["page"] = body]
             /\ kept' = [kept EXCEPT !["page"] = folder'["page"]]
      BY <1>4 DEF CaptureSucceeds, body
    <3>3. \A g \in Files : folder'[g].v \in {folder[g].v, op.body.v}
                           /\ kept'[g].v \in {kept[g].v, op.body.v}
      BY <3>1, <3>2
    <3> QED BY <3>1, <3>3 DEF EvidenceBounds, FilesWithin, OpWithin
  <2>2. LateWithin'
    BY <1>4 DEF CaptureSucceeds, EvidenceBounds, LateWithin, OpWithin
  <2>3. ParsedWithin'
    BY <1>4 DEF CaptureSucceeds, EvidenceBounds, ParsedWithin, OpWithin
  <2>4. OpWithin'
    BY <1>4 DEF CaptureSucceeds, EvidenceBounds, OpWithin, FilesWithin, Attempts
  <2>5. CountedWithin'
    BY <1>4 DEF CaptureSucceeds, EvidenceBounds, CountedWithin
  <2> QED BY <2>1, <2>2, <2>3, <2>4, <2>5 DEF EvidenceBounds
<1>5. CASE CaptureFails
  <2>1. FilesWithin'
    BY <1>5 DEF CaptureFails, Done, EvidenceBounds, FilesWithin, OpWithin, LateWithin
  <2>2. LateWithin'
    BY <1>5 DEF CaptureFails, Done, EvidenceBounds, LateWithin, OpWithin
  <2>3. ParsedWithin'
    BY <1>5 DEF CaptureFails, Done, EvidenceBounds, ParsedWithin, OpWithin
  <2>4. OpWithin'
    BY <1>5 DEF CaptureFails, Done, EvidenceBounds, OpWithin, FilesWithin, Attempts
  <2>5. CountedWithin'
    BY <1>5 DEF CaptureFails, Done, EvidenceBounds, CountedWithin
  <2> QED BY <2>1, <2>2, <2>3, <2>4, <2>5 DEF EvidenceBounds
<1>6. CASE UploadReads
  <2>1. FilesWithin'
    <3> DEFINE body == Redacted(folder[op.file])
    <3>1. op.file \in Files /\ UNCHANGED <<versions, object, reference, seen>>
      BY <1>6 DEF UploadReads, OpOK
    <3>2. body.v = folder[op.file].v
      BY <3>1 DEF Redacted
    <3> HIDE DEF body
    <3>3. \/ UNCHANGED <<folder, kept>>
          \/ /\ folder' = [folder EXCEPT ![op.file] = body]
             /\ kept' = [kept EXCEPT ![op.file] = body]
      BY <1>6 DEF UploadReads, body
    <3>4. \A g \in Files : folder'[g].v \in {folder[g].v, folder[op.file].v}
                           /\ kept'[g].v \in {kept[g].v, folder[op.file].v}
      BY <3>2, <3>3
    <3> QED BY <3>1, <3>4 DEF EvidenceBounds, FilesWithin
  <2>2. LateWithin'
    BY <1>6 DEF UploadReads, Done, Redacted, EvidenceBounds, LateWithin, OpWithin
  <2>3. ParsedWithin'
    BY <1>6 DEF UploadReads, Done, Redacted, EvidenceBounds, ParsedWithin, OpWithin
  <2>4. OpWithin'
    <3>1. CASE op' = NoOp
      BY <1>6, <3>1 DEF UploadReads, OpWithin, Attempts
    <3>2. CASE op' = [op EXCEPT !.at = "put", !.body = Redacted(folder[op.file])]
      <4>1. op'.body.v = folder[op.file].v /\ op'.attempt = op.attempt /\ versions' = versions
        BY <1>6, <3>2 DEF UploadReads, Redacted, OpOK
      <4>2. op.file \in Files
        BY <1>6 DEF UploadReads, OpOK
      <4> QED BY <4>1, <4>2 DEF EvidenceBounds, OpWithin, FilesWithin
    <3> QED BY <1>6, <3>1, <3>2 DEF UploadReads, Done
  <2>5. CountedWithin'
    BY <1>6 DEF UploadReads, Done, Redacted, EvidenceBounds, CountedWithin
  <2> QED BY <2>1, <2>2, <2>3, <2>4, <2>5 DEF EvidenceBounds
<1>7. CASE UploadSucceeds
  <2>1. FilesWithin'
    BY <1>7 DEF UploadSucceeds, Done, EvidenceBounds, FilesWithin, OpWithin, LateWithin
  <2>2. LateWithin'
    BY <1>7 DEF UploadSucceeds, Done, EvidenceBounds, LateWithin, OpWithin
  <2>3. ParsedWithin'
    BY <1>7 DEF UploadSucceeds, Done, EvidenceBounds, ParsedWithin, OpWithin
  <2>4. OpWithin'
    BY <1>7 DEF UploadSucceeds, Done, EvidenceBounds, OpWithin, FilesWithin, Attempts
  <2>5. CountedWithin'
    BY <1>7 DEF UploadSucceeds, Done, EvidenceBounds, CountedWithin
  <2> QED BY <2>1, <2>2, <2>3, <2>4, <2>5 DEF EvidenceBounds
<1>8. CASE UploadFails
  <2>1. FilesWithin'
    BY <1>8 DEF UploadFails, Done, EvidenceBounds, FilesWithin, OpWithin, LateWithin
  <2>2. LateWithin'
    BY <1>8 DEF UploadFails, Done, EvidenceBounds, LateWithin, OpWithin
  <2>3. ParsedWithin'
    BY <1>8 DEF UploadFails, Done, EvidenceBounds, ParsedWithin, OpWithin
  <2>4. OpWithin'
    <3>1. /\ versions' = versions
          /\ \/ op' = NoOp
             \/ op.attempt + 1 < Attempts /\ op' = [op EXCEPT !.attempt = op.attempt + 1]
      BY <1>8 DEF UploadFails, Done
    <3>2. CASE op' = NoOp
      BY <3>1, <3>2 DEF OpWithin, Attempts
    <3>3. CASE op.attempt + 1 < Attempts /\ op' = [op EXCEPT !.attempt = op.attempt + 1]
      <4>1. op'.body = op.body /\ op'.attempt = op.attempt + 1
        BY <3>3
      <4> QED BY <3>1, <3>3, <4>1 DEF EvidenceBounds, OpWithin
    <3> QED BY <3>1, <3>2, <3>3
  <2>5. CountedWithin'
    BY <1>8 DEF UploadFails, Done, EvidenceBounds, CountedWithin
  <2> QED BY <2>1, <2>2, <2>3, <2>4, <2>5 DEF EvidenceBounds
<1>9. CASE UploadAllBegins
  <2>1. FilesWithin'
    BY <1>9 DEF UploadAllBegins, EvidenceBounds, FilesWithin, OpWithin, LateWithin
  <2>2. LateWithin'
    BY <1>9 DEF UploadAllBegins, EvidenceBounds, LateWithin, OpWithin
  <2>3. ParsedWithin'
    BY <1>9 DEF UploadAllBegins, EvidenceBounds, ParsedWithin, OpWithin
  <2>4. OpWithin'
    BY <1>9 DEF UploadAllBegins, EvidenceBounds, OpWithin, FilesWithin, Attempts
  <2>5. CountedWithin'
    BY <1>9 DEF UploadAllBegins, EvidenceBounds, CountedWithin
  <2> QED BY <2>1, <2>2, <2>3, <2>4, <2>5 DEF EvidenceBounds
<1>10. CASE UploadAllEnds
  <2>1. FilesWithin'
    BY <1>10 DEF UploadAllEnds, EvidenceBounds, FilesWithin, OpWithin, LateWithin
  <2>2. LateWithin'
    BY <1>10 DEF UploadAllEnds, EvidenceBounds, LateWithin, OpWithin
  <2>3. ParsedWithin'
    BY <1>10 DEF UploadAllEnds, EvidenceBounds, ParsedWithin, OpWithin
  <2>4. OpWithin'
    BY <1>10 DEF UploadAllEnds, EvidenceBounds, OpWithin, FilesWithin, Attempts
  <2>5. CountedWithin'
    BY <1>10 DEF UploadAllEnds, EvidenceBounds, CountedWithin
  <2> QED BY <2>1, <2>2, <2>3, <2>4, <2>5 DEF EvidenceBounds
<1>11. CASE ReviewerReadFails
  <2>1. FilesWithin'
    BY <1>11 DEF ReviewerReadFails, EvidenceBounds, FilesWithin, OpWithin, LateWithin
  <2>2. LateWithin'
    BY <1>11 DEF ReviewerReadFails, EvidenceBounds, LateWithin, OpWithin
  <2>3. ParsedWithin'
    BY <1>11 DEF ReviewerReadFails, EvidenceBounds, ParsedWithin, OpWithin
  <2>4. OpWithin'
    BY <1>11 DEF ReviewerReadFails, EvidenceBounds, OpWithin, FilesWithin, Attempts
  <2>5. CountedWithin'
    BY <1>11 DEF ReviewerReadFails, EvidenceBounds, CountedWithin
  <2> QED BY <2>1, <2>2, <2>3, <2>4, <2>5 DEF EvidenceBounds
<1>12. CASE DeletionEnds
  <2>1. FilesWithin'
    BY <1>12 DEF DeletionEnds, EvidenceBounds, FilesWithin, OpWithin, LateWithin
  <2>2. LateWithin'
    BY <1>12 DEF DeletionEnds, EvidenceBounds, LateWithin, OpWithin
  <2>3. ParsedWithin'
    BY <1>12 DEF DeletionEnds, EvidenceBounds, ParsedWithin, OpWithin
  <2>4. OpWithin'
    BY <1>12 DEF DeletionEnds, EvidenceBounds, OpWithin, FilesWithin, Attempts
  <2>5. CountedWithin'
    BY <1>12 DEF DeletionEnds, EvidenceBounds, CountedWithin
  <2> QED BY <2>1, <2>2, <2>3, <2>4, <2>5 DEF EvidenceBounds
<1>13. ASSUME NEW seenAs \in 1 .. versions, CaptureScreenshot(seenAs) PROVE EvidenceBounds'
  <2>1. FilesWithin'
    BY <1>13 DEF CaptureScreenshot, EvidenceBounds, FilesWithin, OpWithin, LateWithin
  <2>2. LateWithin'
    BY <1>13 DEF CaptureScreenshot, EvidenceBounds, LateWithin, OpWithin
  <2>3. ParsedWithin'
    BY <1>13 DEF CaptureScreenshot, EvidenceBounds, ParsedWithin, OpWithin
  <2>4. OpWithin'
    BY <1>13 DEF CaptureScreenshot, EvidenceBounds, OpWithin, FilesWithin, Attempts
  <2>5. CountedWithin'
    BY <1>13 DEF CaptureScreenshot, EvidenceBounds, CountedWithin
  <2> QED BY <2>1, <2>2, <2>3, <2>4, <2>5 DEF EvidenceBounds
<1>14. ASSUME NEW f \in Files, FileWritten(f) PROVE EvidenceBounds'
  <2>1. FilesWithin'
    BY <1>14 DEF FileWritten, NextVersion, EvidenceBounds, FilesWithin, OpWithin, LateWithin
  <2>2. LateWithin'
    BY <1>14 DEF FileWritten, NextVersion, EvidenceBounds, LateWithin, OpWithin
  <2>3. ParsedWithin'
    BY <1>14 DEF FileWritten, NextVersion, EvidenceBounds, ParsedWithin, OpWithin
  <2>4. OpWithin'
    BY <1>14 DEF FileWritten, NextVersion, EvidenceBounds, OpWithin, FilesWithin, Attempts
  <2>5. CountedWithin'
    BY <1>14 DEF FileWritten, NextVersion, EvidenceBounds, CountedWithin
  <2> QED BY <2>1, <2>2, <2>3, <2>4, <2>5 DEF EvidenceBounds
<1>15. ASSUME NEW f \in Files, FileRemoved(f) PROVE EvidenceBounds'
  <2>1. FilesWithin'
    BY <1>15 DEF FileRemoved, NextVersion, EvidenceBounds, FilesWithin, OpWithin, LateWithin
  <2>2. LateWithin'
    BY <1>15 DEF FileRemoved, NextVersion, EvidenceBounds, LateWithin, OpWithin
  <2>3. ParsedWithin'
    BY <1>15 DEF FileRemoved, NextVersion, EvidenceBounds, ParsedWithin, OpWithin
  <2>4. OpWithin'
    BY <1>15 DEF FileRemoved, NextVersion, EvidenceBounds, OpWithin, FilesWithin, Attempts
  <2>5. CountedWithin'
    BY <1>15 DEF FileRemoved, NextVersion, EvidenceBounds, CountedWithin
  <2> QED BY <2>1, <2>2, <2>3, <2>4, <2>5 DEF EvidenceBounds
<1>16. ASSUME NEW f \in Files, ObjectWritten(f) PROVE EvidenceBounds'
  <2>1. FilesWithin'
    BY <1>16 DEF ObjectWritten, NextVersion, EvidenceBounds, FilesWithin, OpWithin, LateWithin
  <2>2. LateWithin'
    BY <1>16 DEF ObjectWritten, NextVersion, EvidenceBounds, LateWithin, OpWithin
  <2>3. ParsedWithin'
    BY <1>16 DEF ObjectWritten, NextVersion, EvidenceBounds, ParsedWithin, OpWithin
  <2>4. OpWithin'
    BY <1>16 DEF ObjectWritten, NextVersion, EvidenceBounds, OpWithin, FilesWithin, Attempts
  <2>5. CountedWithin'
    BY <1>16 DEF ObjectWritten, NextVersion, EvidenceBounds, CountedWithin
  <2> QED BY <2>1, <2>2, <2>3, <2>4, <2>5 DEF EvidenceBounds
<1>17. ASSUME NEW f \in Files, UploadBegins(f) PROVE EvidenceBounds'
  <2>1. FilesWithin'
    BY <1>17 DEF UploadBegins, CaptureBegins, EvidenceBounds, FilesWithin, OpWithin, LateWithin
  <2>2. LateWithin'
    BY <1>17 DEF UploadBegins, CaptureBegins, EvidenceBounds, LateWithin, OpWithin
  <2>3. ParsedWithin'
    BY <1>17 DEF UploadBegins, CaptureBegins, EvidenceBounds, ParsedWithin, OpWithin
  <2>4. OpWithin'
    <3>1. /\ versions' = versions
          /\ \/ op' = op
             \/ op'.body = folder["page"] /\ op'.attempt = 0
             \/ op'.body = NoFile /\ op'.attempt = 0
      <4>1. /\ versions' = versions
            /\ \/ op' = op
               \/ op' = [at |-> "capture", file |-> "page", body |-> folder["page"],
                         attempt |-> 0, upload |-> TRUE]
               \/ op' = [NoOp EXCEPT !.at = "read", !.file = f]
        BY <1>17 DEF UploadBegins, CaptureBegins
      <4>2. CASE op' = [NoOp EXCEPT !.at = "read", !.file = f]
        <5>1. op' = [at |-> "read", file |-> f, body |-> NoFile, attempt |-> 0, upload |-> FALSE]
          BY <4>2
        <5> QED BY <4>1, <5>1
      <4>3. CASE op' = [at |-> "capture", file |-> "page", body |-> folder["page"],
                        attempt |-> 0, upload |-> TRUE]
        BY <4>1, <4>3
      <4> QED BY <4>1, <4>2, <4>3
    <3> QED BY <3>1 DEF EvidenceBounds, OpWithin, FilesWithin, Attempts, Files
  <2>5. CountedWithin'
    BY <1>17 DEF UploadBegins, CaptureBegins, EvidenceBounds, CountedWithin
  <2> QED BY <2>1, <2>2, <2>3, <2>4, <2>5 DEF EvidenceBounds
<1>18. ASSUME NEW f \in Files, UploadKnown(f) PROVE EvidenceBounds'
  <2>1. FilesWithin'
    BY <1>18 DEF UploadKnown, EvidenceBounds, FilesWithin, OpWithin, LateWithin
  <2>2. LateWithin'
    BY <1>18 DEF UploadKnown, EvidenceBounds, LateWithin, OpWithin
  <2>3. ParsedWithin'
    BY <1>18 DEF UploadKnown, EvidenceBounds, ParsedWithin, OpWithin
  <2>4. OpWithin'
    BY <1>18 DEF UploadKnown, EvidenceBounds, OpWithin, FilesWithin, Attempts
  <2>5. CountedWithin'
    BY <1>18 DEF UploadKnown, EvidenceBounds, CountedWithin
  <2> QED BY <2>1, <2>2, <2>3, <2>4, <2>5 DEF EvidenceBounds
<1>19. ASSUME NEW f \in Files, ReviewerReads(f) PROVE EvidenceBounds'
  <2>1. FilesWithin'
    BY <1>19 DEF ReviewerReads, Reads, Returned, Vouched, EvidenceBounds, FilesWithin, OpWithin,
       LateWithin
  <2>2. LateWithin'
    BY <1>19 DEF ReviewerReads, Reads, Returned, Vouched, EvidenceBounds, LateWithin, OpWithin
  <2>3. ParsedWithin'
    BY <1>19 DEF ReviewerReads, Reads, Returned, Vouched, EvidenceBounds, ParsedWithin, OpWithin
  <2>4. OpWithin'
    BY <1>19 DEF ReviewerReads, Reads, Returned, Vouched, EvidenceBounds, OpWithin, FilesWithin,
       Attempts
  <2>5. CountedWithin'
    BY <1>19 DEF ReviewerReads, Reads, Returned, Vouched, EvidenceBounds, CountedWithin
  <2> QED BY <2>1, <2>2, <2>3, <2>4, <2>5 DEF EvidenceBounds
<1>20. ASSUME NEW f \in Files, DeletesObject(f) PROVE EvidenceBounds'
  <2>1. FilesWithin'
    <3>1. /\ UNCHANGED <<versions, folder, kept, seen>>
          /\ \/ object' = object \/ object' = [object EXCEPT ![f] = NoFile]
          /\ \/ reference' = reference \/ reference' = [reference EXCEPT ![f] = NoFile]
      BY <1>20 DEF DeletesObject
    <3>2. \A g \in Files : /\ object'[g] \in {object[g], NoFile}
                           /\ reference'[g] \in {reference[g], NoFile}
      BY <3>1
    <3>3. versions >= 0 /\ NoFile.v = 0
      OBVIOUS
    <3> QED BY <3>1, <3>2, <3>3 DEF EvidenceBounds, FilesWithin
  <2>2. LateWithin'
    BY <1>20 DEF DeletesObject, EvidenceBounds, LateWithin, OpWithin
  <2>3. ParsedWithin'
    BY <1>20 DEF DeletesObject, EvidenceBounds, ParsedWithin, OpWithin
  <2>4. OpWithin'
    BY <1>20 DEF DeletesObject, EvidenceBounds, OpWithin, FilesWithin, Attempts
  <2>5. CountedWithin'
    BY <1>20 DEF DeletesObject, EvidenceBounds, CountedWithin
  <2> QED BY <2>1, <2>2, <2>3, <2>4, <2>5 DEF EvidenceBounds
<1>21. CASE UNCHANGED evidenceVars
  BY <1>21
     DEF EvidenceBounds, FilesWithin, LateWithin, ParsedWithin, OpWithin, CountedWithin,
         evidenceVars
<1> QED BY <1>1, <1>2, <1>3, <1>4, <1>5, <1>6, <1>7, <1>8, <1>9, <1>10, <1>11, <1>12, <1>13, <1>14,
           <1>15, <1>16, <1>17, <1>18, <1>19, <1>20, <1>21 DEF EvidenceNext

LEMMA EvidenceTypesHold == EvidenceSpec => []EvidenceTypeOK
<1>1. EvidenceInv /\ EvidenceBounds => EvidenceTypeOK
  <2> SUFFICES ASSUME EvidenceInv, EvidenceBounds PROVE EvidenceTypeOK
    OBVIOUS
  <2> USE EvidenceAssumption
  <2>1. versions \in 0 .. MaxVersion /\ losses \in 0 .. MaxLoss
    BY DEF EvidenceInv, EvidenceTyped, EvidenceBounds, CountedWithin
  <2>2. parsed \subseteq 1 .. MaxVersion
    BY <2>1 DEF EvidenceInv, EvidenceTyped, EvidenceBounds, ParsedWithin
  <2>3. ASSUME NEW c \in ContentType, c.v <= versions PROVE c \in Contents
    BY <2>1, <2>3 DEF ContentType, Contents
  <2>4. {folder, kept, object, reference} \subseteq [Files -> Contents]
    <3>1. \A f \in Files : /\ folder[f] \in Contents /\ kept[f] \in Contents
                           /\ object[f] \in Contents /\ reference[f] \in Contents
      BY <2>3 DEF EvidenceInv, EvidenceTyped, EvidenceBounds, FilesWithin
    <3> QED BY <3>1 DEF EvidenceInv, EvidenceTyped
  <2>5. seen \in [Files -> [body : Contents, of : Contents]]
    <3>1. \A f \in Files : /\ seen[f] \in [body : ContentType, of : ContentType]
                           /\ seen[f].body \in Contents /\ seen[f].of \in Contents
      BY <2>3 DEF EvidenceInv, EvidenceTyped, EvidenceBounds, FilesWithin
    <3>2. \A f \in Files : seen[f] \in [body : Contents, of : Contents]
      BY <3>1
    <3> QED BY <3>2 DEF EvidenceInv, EvidenceTyped
  <2>6. late \subseteq [file : Files, body : Contents]
    <3>1. \A p \in late : p \in [file : Files, body : ContentType] /\ p.body \in Contents
      BY <2>3 DEF EvidenceInv, EvidenceTyped, EvidenceBounds, LateWithin
    <3> QED BY <3>1
  <2>7. op.at \in {"none", "capture", "read", "put"} /\ op.attempt \in 0 .. Attempts
    <3>1. /\ op.at \in {"none", "capture", "read", "put"}
          /\ op.attempt \in Nat /\ op.attempt < Attempts
      BY DEF EvidenceInv, EvidenceTyped, OpType, EvidenceBounds, OpWithin
    <3>2. Attempts = 3
      BY DEF Attempts
    <3> QED BY <3>1, <3>2
  <2> QED BY <2>1, <2>2, <2>4, <2>5, <2>6, <2>7 DEF EvidenceInv, EvidenceTyped, EvidenceTypeOK
<1>2. EvidenceInit => EvidenceBounds
  BY EvidenceBoundsStart
<1>3. EvidenceInv /\ EvidenceBounds /\ [EvidenceNext]_evidenceVars => EvidenceBounds'
  BY EvidenceBoundsStep
<1> QED BY <1>1, <1>2, <1>3, EvidenceInvHolds, PTL DEF EvidenceSpec

-----------------------------------------------------------------------------
\* The plan is one of the lists, and a report has at most one entry for each of its scenarios.
RulesBounds ==
  /\ plan \in Lists
  /\ report.result \in {Nothing, "passed", "failed", "blocked"} /\ Len(report.results) <= MaxPlan
  /\ report.line \in ReportLines \cup {Nothing}

LEMMA ListsAreShort == ASSUME NEW l \in Lists PROVE Len(l) \in Nat /\ Len(l) <= MaxPlan
<1>1. PICK n \in 0 .. MaxPlan : l \in [1 .. n -> Scenarios]
  BY DEF Lists
<1>2. n \in Nat /\ n <= MaxPlan /\ Len(l) = n
  BY <1>1, RulesAssumption
<1> QED BY <1>2

LEMMA RulesBoundsStart == RulesInit => RulesBounds
<1> SUFFICES ASSUME RulesInit PROVE RulesBounds
  OBVIOUS
<1>1. plan = <<>> /\ report = NoReport
  BY DEF RulesInit
<1>2. <<>> \in [1 .. 0 -> Scenarios] /\ 0 \in 0 .. MaxPlan
  BY RulesAssumption
<1>3. plan \in Lists
  BY <1>1, <1>2 DEF Lists
<1>4. Len(report.results) = 0 /\ report.result = Nothing /\ report.line = Nothing
  BY <1>1 DEF NoReport
<1> QED BY <1>3, <1>4, RulesAssumption DEF RulesBounds

LEMMA RulesBoundsStep ==
  ASSUME RulesBounds, [RulesNext]_ruleVars PROVE RulesBounds'
<1>1. ASSUME NEW l \in Lists, NEW reason \in BOOLEAN, NEW safe \in BOOLEAN,
             RunnerStarts(l, reason, safe)
      PROVE  RulesBounds'
  BY <1>1 DEF RunnerStarts, RulesBounds
<1>2. ASSUME NEW kinds \in [1 .. Len(plan) -> {"passed", "failed", "blocked"}],
             NEW bug \in BOOLEAN, NEW cut \in BOOLEAN,
             NEW result \in {"passed", "failed", "blocked"}, NEW line \in ReportLines,
             NEW k \in Nat, k = Len(plan) - (IF cut /\ plan /= <<>> THEN 1 ELSE 0),
             ReportWritten([i \in 1 .. k |-> <<plan[i], kinds[i]>>], result, line, bug)
      PROVE  RulesBounds'
  <2> DEFINE results == [i \in 1 .. k |-> <<plan[i], kinds[i]>>]
  <2>1. Len(results) = k
    OBVIOUS
  <2>2. Len(plan) \in Nat /\ Len(plan) <= MaxPlan /\ MaxPlan \in Nat
    BY ListsAreShort, RulesAssumption DEF RulesBounds
  <2>3. Len(results) <= MaxPlan
    BY <1>2, <2>1, <2>2
  <2> HIDE DEF results
  <2>4. ReportWritten(results, result, line, bug)
    BY <1>2 DEF results
  <2>5. /\ UNCHANGED plan
        /\ \/ report' = report
           \/ \E r \in {"passed", "failed", "blocked"} :
                report' = [result |-> r, results |-> results, line |-> line]
    BY <2>4 DEF ReportWritten, Downgraded
  <2> QED BY <2>3, <2>5 DEF RulesBounds
<1>3. ASSUME NEW kinds \in [1 .. Len(plan) -> {"passed", "failed", "blocked"}],
             NEW bug \in BOOLEAN, NEW cut \in BOOLEAN,
             NEW result \in {"passed", "failed", "blocked"}, NEW line \in ReportLines,
             ReportWritten([i \in 1 .. Len(plan) - (IF cut /\ plan /= <<>> THEN 1 ELSE 0)
                              |-> <<plan[i], kinds[i]>>], result, line, bug)
      PROVE  RulesBounds'
  <2> DEFINE k == Len(plan) - (IF cut /\ plan /= <<>> THEN 1 ELSE 0)
  <2>1. Len(plan) \in Nat /\ (plan /= <<>> => Len(plan) > 0)
    BY ListsAreShort, ListsAreSeqs DEF RulesBounds
  <2>2. k \in Nat
    BY <2>1
  <2> QED BY <1>2, <1>3, <2>2
<1>4. ASSUME UNCHANGED <<plan, report>> PROVE RulesBounds'
  BY <1>4 DEF RulesBounds
<1>5. ASSUME NEW l \in Lists, Begin(l) PROVE UNCHANGED <<plan, report>>
  BY <1>5 DEF Begin
<1>6. ASSUME NEW s \in Scenarios, Start(s) \/ Finish(s) PROVE UNCHANGED <<plan, report>>
  BY <1>6 DEF Start, Finish
<1>7. ASSUME NEW n \in Artifacts,
             ReadArtifact(n) \/ (\E ok \in BOOLEAN : ArtifactAnswered(n, ok))
      PROVE  UNCHANGED <<plan, report>>
  BY <1>7 DEF ReadArtifact, ArtifactAnswered
<1>8. ASSUME NEW i \in images,
             \/ ReadImage(i)
             \/ \E answer \in {"image", "error", "invalid"} : ImageAnswered(i, answer)
      PROVE  UNCHANGED <<plan, report>>
  BY <1>8 DEF ReadImage, ImageAnswered
<1>9. CASE RunnerEnds \/ WriteReview \/ ReviewerGivesUp \/ UNCHANGED ruleVars
  <2>1. UNCHANGED <<plan, report>>
    BY <1>9 DEF RunnerEnds, WriteReview, ReviewerGivesUp, ruleVars
  <2> QED BY <1>4, <2>1
<1> QED BY <1>1, <1>3, <1>4, <1>5, <1>6, <1>7, <1>8, <1>9 DEF RulesNext

LEMMA RulesTypesHold == RulesSpec => []RulesTypeOK
<1>1. RulesInv /\ RulesBounds => RulesTypeOK
  BY DEF RulesInv, RulesTyped, RulesBounds, RulesTypeOK
<1>2. RulesInit => RulesBounds
  BY RulesBoundsStart
<1>3. RulesBounds /\ [RulesNext]_ruleVars => RulesBounds'
  BY RulesBoundsStep
<1> QED BY <1>1, <1>2, <1>3, RulesInvHolds, PTL DEF RulesSpec

-----------------------------------------------------------------------------
\* Identifiers are of Runs, patches are versions that may be written, attempts are counted.
PatchesWithin ==
  /\ tree \in Patches /\ \A r \in Runs : files[r].patch \in Patches
  /\ tested \in [Runs -> Patches \cup {Untested}]
RunsWithin == /\ starting \subseteq Runs /\ interrupted \subseteq Runs
              /\ stored \subseteq Runs /\ doubts \subseteq Runs

OrchestratorBounds ==
  /\ PatchesWithin /\ RunsWithin /\ context.attempts \in 0 .. 2 /\ crashes \in 0 .. MaxCrash

LEMMA OrchestratorBoundsStart == RunOrchestratorInit => OrchestratorBounds
  BY OrchestratorAssumption
     DEF RunOrchestratorInit, OrchestratorBounds, PatchesWithin, RunsWithin, NoContext, NoFiles,
         Patches, Untested

LEMMA PipelineBounds ==
  ASSUME OrchestratorInv, OrchestratorBounds, PipelineStep \/ ExecutionFails
  PROVE  OrchestratorBounds'
<1> USE OrchestratorAssumption
     DEF OrchestratorInv, Types, ContextType, FilesType, Patches, KeepsRest, At, Answered
<1>0. CASE Prompt
  <2>1. PatchesWithin'
    BY <1>0 DEF Prompt, OrchestratorBounds, PatchesWithin
  <2>2. RunsWithin'
    BY <1>0 DEF Prompt, OrchestratorBounds, RunsWithin
  <2>3. context'.attempts \in 0 .. 2 /\ crashes' = crashes
    BY <1>0 DEF Prompt, OrchestratorBounds
  <2> QED BY <2>1, <2>2, <2>3 DEF OrchestratorBounds
<1>1. CASE PrepareRun
  <2>1. PatchesWithin'
    BY <1>1 DEF PrepareRun, OrchestratorBounds, PatchesWithin, NoContext
  <2>2. RunsWithin'
    BY <1>1 DEF PrepareRun, OrchestratorBounds, RunsWithin
  <2>3. context'.attempts \in 0 .. 2 /\ crashes' = crashes
    BY <1>1 DEF PrepareRun, OrchestratorBounds, NoContext
  <2> QED BY <2>1, <2>2, <2>3 DEF OrchestratorBounds
<1>2. CASE AssessInitializationPreflight
  <2>1. PatchesWithin'
    BY <1>2 DEF AssessInitializationPreflight, Doubting, OrchestratorBounds, PatchesWithin,
       NoContext
  <2>2. RunsWithin'
    BY <1>2 DEF AssessInitializationPreflight, Doubting, OrchestratorBounds, RunsWithin
  <2>3. context'.attempts \in 0 .. 2 /\ crashes' = crashes
    BY <1>2 DEF AssessInitializationPreflight, Doubting, OrchestratorBounds, NoContext
  <2> QED BY <2>1, <2>2, <2>3 DEF OrchestratorBounds
<1>3. CASE RunMainA
  <2>1. PatchesWithin'
    BY <1>3 DEF RunMainA, PlanningAttempt, TreeAfterValidation, OrchestratorBounds, PatchesWithin,
       NoContext
  <2>2. RunsWithin'
    BY <1>3 DEF RunMainA, PlanningAttempt, TreeAfterValidation, OrchestratorBounds, RunsWithin
  <2>3. context'.attempts \in 0 .. 2 /\ crashes' = crashes
    <3>1. \/ context' = [context EXCEPT !.attempts = 0, !.prompting = FALSE]
          \/ /\ context.attempts < 2
             /\ context' = [context EXCEPT !.attempts = @ + 1, !.prompting = FALSE]
          \/ context' = [context EXCEPT !.prompting = FALSE]
      BY <1>3 DEF RunMainA, PlanningAttempt
    <3>2. context.attempts \in 0 .. 2 /\ context \in ContextType
      BY DEF OrchestratorBounds
    <3>3. context'.attempts \in {0, context.attempts} \/
          (context.attempts < 2 /\ context'.attempts = context.attempts + 1)
      BY <3>1, <3>2
    <3>4. crashes' = crashes
      BY <1>3 DEF RunMainA, PlanningAttempt
    <3> QED BY <3>2, <3>3, <3>4
  <2> QED BY <2>1, <2>2, <2>3 DEF OrchestratorBounds
<1>4. CASE BrowserForPlan
  <2>1. PatchesWithin'
    BY <1>4 DEF BrowserForPlan, AssessBrowserRequirements, OrchestratorBounds, PatchesWithin,
       NoContext
  <2>2. RunsWithin'
    BY <1>4 DEF BrowserForPlan, AssessBrowserRequirements, OrchestratorBounds, RunsWithin
  <2>3. context'.attempts \in 0 .. 2 /\ crashes' = crashes
    BY <1>4 DEF BrowserForPlan, AssessBrowserRequirements, OrchestratorBounds, NoContext
  <2> QED BY <2>1, <2>2, <2>3 DEF OrchestratorBounds
<1>5. CASE RunReconnaissance
  <2>1. PatchesWithin'
    BY <1>5 DEF RunReconnaissance, Doubting, OrchestratorBounds, PatchesWithin, NoContext
  <2>2. RunsWithin'
    BY <1>5 DEF RunReconnaissance, Doubting, OrchestratorBounds, RunsWithin
  <2>3. context'.attempts \in 0 .. 2 /\ crashes' = crashes
    BY <1>5 DEF RunReconnaissance, Doubting, OrchestratorBounds, NoContext
  <2> QED BY <2>1, <2>2, <2>3 DEF OrchestratorBounds
<1>6. CASE RunInitializationCandidateMain
  <2>1. PatchesWithin'
    BY <1>6 DEF RunInitializationCandidateMain, PlanningAttempt, TreeAfterValidation,
       OrchestratorBounds, PatchesWithin, NoContext
  <2>2. RunsWithin'
    BY <1>6 DEF RunInitializationCandidateMain, PlanningAttempt, TreeAfterValidation,
       OrchestratorBounds, RunsWithin
  <2>3. context'.attempts \in 0 .. 2 /\ crashes' = crashes
    <3>1. \/ context' = [context EXCEPT !.attempts = 0, !.prompting = FALSE]
          \/ /\ context.attempts < 2
             /\ context' = [context EXCEPT !.attempts = @ + 1, !.prompting = FALSE]
          \/ context' = [context EXCEPT !.prompting = FALSE]
      BY <1>6 DEF RunInitializationCandidateMain, PlanningAttempt
    <3>2. context.attempts \in 0 .. 2 /\ context \in ContextType
      BY DEF OrchestratorBounds
    <3>3. context'.attempts \in {0, context.attempts} \/
          (context.attempts < 2 /\ context'.attempts = context.attempts + 1)
      BY <3>1, <3>2
    <3>4. crashes' = crashes
      BY <1>6 DEF RunInitializationCandidateMain, PlanningAttempt
    <3> QED BY <3>2, <3>3, <3>4
  <2> QED BY <2>1, <2>2, <2>3 DEF OrchestratorBounds
<1>7. CASE BrowserForCandidate
  <2>1. PatchesWithin'
    BY <1>7 DEF BrowserForCandidate, AssessBrowserRequirements, OrchestratorBounds, PatchesWithin,
       NoContext
  <2>2. RunsWithin'
    BY <1>7 DEF BrowserForCandidate, AssessBrowserRequirements, OrchestratorBounds, RunsWithin
  <2>3. context'.attempts \in 0 .. 2 /\ crashes' = crashes
    BY <1>7 DEF BrowserForCandidate, AssessBrowserRequirements, OrchestratorBounds, NoContext
  <2> QED BY <2>1, <2>2, <2>3 DEF OrchestratorBounds
<1>8. CASE PrepareScenarioPatch
  <2>1. PatchesWithin'
    BY <1>8 DEF PrepareScenarioPatch, Doubting, OrchestratorBounds, PatchesWithin, NoContext
  <2>2. RunsWithin'
    BY <1>8 DEF PrepareScenarioPatch, Doubting, OrchestratorBounds, RunsWithin
  <2>3. context'.attempts \in 0 .. 2 /\ crashes' = crashes
    BY <1>8 DEF PrepareScenarioPatch, Doubting, OrchestratorBounds, NoContext
  <2> QED BY <2>1, <2>2, <2>3 DEF OrchestratorBounds
<1>9. CASE RunRunner
  <2>1. PatchesWithin'
    BY <1>9 DEF RunRunner, Doubting, OrchestratorBounds, PatchesWithin, NoContext
  <2>2. RunsWithin'
    BY <1>9 DEF RunRunner, Doubting, OrchestratorBounds, RunsWithin
  <2>3. context'.attempts \in 0 .. 2 /\ crashes' = crashes
    BY <1>9 DEF RunRunner, Doubting, OrchestratorBounds, NoContext
  <2> QED BY <2>1, <2>2, <2>3 DEF OrchestratorBounds
<1>10. CASE FinishRunner
  <2>1. PatchesWithin'
    BY <1>10 DEF FinishRunner, Doubting, OrchestratorBounds, PatchesWithin, NoContext
  <2>2. RunsWithin'
    BY <1>10 DEF FinishRunner, Doubting, OrchestratorBounds, RunsWithin
  <2>3. context'.attempts \in 0 .. 2 /\ crashes' = crashes
    BY <1>10 DEF FinishRunner, Doubting, OrchestratorBounds, NoContext
  <2> QED BY <2>1, <2>2, <2>3 DEF OrchestratorBounds
<1>11. CASE ValidateScenarioPatchForReview
  <2>1. PatchesWithin'
    BY <1>11 DEF ValidateScenarioPatchForReview, Doubting, OrchestratorBounds, PatchesWithin,
       NoContext
  <2>2. RunsWithin'
    BY <1>11 DEF ValidateScenarioPatchForReview, Doubting, OrchestratorBounds, RunsWithin
  <2>3. context'.attempts \in 0 .. 2 /\ crashes' = crashes
    BY <1>11 DEF ValidateScenarioPatchForReview, Doubting, OrchestratorBounds, NoContext
  <2> QED BY <2>1, <2>2, <2>3 DEF OrchestratorBounds
<1>12. CASE RunReviewer
  <2>1. PatchesWithin'
    BY <1>12 DEF RunReviewer, Doubting, OrchestratorBounds, PatchesWithin, NoContext
  <2>2. RunsWithin'
    BY <1>12 DEF RunReviewer, Doubting, OrchestratorBounds, RunsWithin
  <2>3. context'.attempts \in 0 .. 2 /\ crashes' = crashes
    BY <1>12 DEF RunReviewer, Doubting, OrchestratorBounds, NoContext
  <2> QED BY <2>1, <2>2, <2>3 DEF OrchestratorBounds
<1>13. CASE CleanupRetainedEvidence
  <2>1. PatchesWithin'
    BY <1>13 DEF CleanupRetainedEvidence, Doubting, OrchestratorBounds, PatchesWithin, NoContext
  <2>2. RunsWithin'
    BY <1>13 DEF CleanupRetainedEvidence, Doubting, OrchestratorBounds, RunsWithin
  <2>3. context'.attempts \in 0 .. 2 /\ crashes' = crashes
    BY <1>13 DEF CleanupRetainedEvidence, Doubting, OrchestratorBounds, NoContext
  <2> QED BY <2>1, <2>2, <2>3 DEF OrchestratorBounds
<1>14. CASE RunMainB
  <2>1. PatchesWithin'
    BY <1>14 DEF RunMainB, OrchestratorBounds, PatchesWithin, NoContext
  <2>2. RunsWithin'
    BY <1>14 DEF RunMainB, OrchestratorBounds, RunsWithin
  <2>3. context'.attempts \in 0 .. 2 /\ crashes' = crashes
    BY <1>14 DEF RunMainB, OrchestratorBounds, NoContext
  <2> QED BY <2>1, <2>2, <2>3 DEF OrchestratorBounds
<1>15. CASE ForceBlocked
  <2>1. PatchesWithin'
    <3>1. tree' \in Patches /\ tested' = tested
      BY <1>15 DEF ForceBlocked, OrchestratorBounds, PatchesWithin
    <3>2. \/ files' = files \/ files' = [files EXCEPT ![active].report = "blocked"]
          \/ files' = [files EXCEPT ![active].missed = (files[active].report = "passed")]
      BY <1>15 DEF ForceBlocked
    <3>3. \A r \in Runs : files'[r].patch = files[r].patch
      BY <3>2
    <3> QED BY <3>1, <3>3 DEF OrchestratorBounds, PatchesWithin
  <2>2. RunsWithin'
    BY <1>15 DEF ForceBlocked, Doubting, OrchestratorBounds, RunsWithin
  <2>3. context'.attempts \in 0 .. 2 /\ crashes' = crashes
    BY <1>15 DEF ForceBlocked, Doubting, OrchestratorBounds, NoContext
  <2> QED BY <2>1, <2>2, <2>3 DEF OrchestratorBounds
<1>16. CASE CleanupBeforeReport
  <2>1. PatchesWithin'
    BY <1>16 DEF CleanupBeforeReport, FinishCleanup, OrchestratorBounds, PatchesWithin, NoContext
  <2>2. RunsWithin'
    BY <1>16 DEF CleanupBeforeReport, FinishCleanup, OrchestratorBounds, RunsWithin
  <2>3. context'.attempts \in 0 .. 2 /\ crashes' = crashes
    BY <1>16 DEF CleanupBeforeReport, FinishCleanup, OrchestratorBounds, NoContext
  <2> QED BY <2>1, <2>2, <2>3 DEF OrchestratorBounds
<1>17. CASE ValidateFinalReport
  <2>1. PatchesWithin'
    BY <1>17 DEF ValidateFinalReport, OrchestratorBounds, PatchesWithin, NoContext
  <2>2. RunsWithin'
    BY <1>17 DEF ValidateFinalReport, OrchestratorBounds, RunsWithin
  <2>3. context'.attempts \in 0 .. 2 /\ crashes' = crashes
    BY <1>17 DEF ValidateFinalReport, OrchestratorBounds, NoContext
  <2> QED BY <2>1, <2>2, <2>3 DEF OrchestratorBounds
<1>18. CASE Finalize
  <2>1. PatchesWithin'
    BY <1>18 DEF Finalize, facts, OrchestratorBounds, PatchesWithin, NoContext
  <2>2. RunsWithin'
    BY <1>18 DEF Finalize, facts, OrchestratorBounds, RunsWithin
  <2>3. context'.attempts \in 0 .. 2 /\ crashes' = crashes
    BY <1>18 DEF Finalize, facts, OrchestratorBounds, NoContext
  <2> QED BY <2>1, <2>2, <2>3 DEF OrchestratorBounds
<1>19. CASE PersistCompletedRun
  <2>1. PatchesWithin'
    BY <1>19 DEF PersistCompletedRun, facts, OrchestratorBounds, PatchesWithin, NoContext
  <2>2. RunsWithin'
    BY <1>19 DEF PersistCompletedRun, facts, OrchestratorBounds, RunsWithin
  <2>3. context'.attempts \in 0 .. 2 /\ crashes' = crashes
    BY <1>19 DEF PersistCompletedRun, facts, OrchestratorBounds, NoContext
  <2> QED BY <2>1, <2>2, <2>3 DEF OrchestratorBounds
<1>20. CASE FinishScenarioReviewRunner
  <2>1. PatchesWithin'
    BY <1>20 DEF FinishScenarioReviewRunner, OrchestratorBounds, PatchesWithin, NoContext
  <2>2. RunsWithin'
    BY <1>20 DEF FinishScenarioReviewRunner, OrchestratorBounds, RunsWithin
  <2>3. context'.attempts \in 0 .. 2 /\ crashes' = crashes
    BY <1>20 DEF FinishScenarioReviewRunner, OrchestratorBounds, NoContext
  <2> QED BY <2>1, <2>2, <2>3 DEF OrchestratorBounds
<1>21. CASE CleanupInReview
  <2>1. PatchesWithin'
    BY <1>21 DEF CleanupInReview, FinishCleanup, OrchestratorBounds, PatchesWithin, NoContext
  <2>2. RunsWithin'
    BY <1>21 DEF CleanupInReview, FinishCleanup, OrchestratorBounds, RunsWithin
  <2>3. context'.attempts \in 0 .. 2 /\ crashes' = crashes
    BY <1>21 DEF CleanupInReview, FinishCleanup, OrchestratorBounds, NoContext
  <2> QED BY <2>1, <2>2, <2>3 DEF OrchestratorBounds
<1>22. CASE FinishScenarioReviewRun
  <2>1. PatchesWithin'
    BY <1>22 DEF FinishScenarioReviewRun, OrchestratorBounds, PatchesWithin, NoContext
  <2>2. RunsWithin'
    BY <1>22 DEF FinishScenarioReviewRun, OrchestratorBounds, RunsWithin
  <2>3. context'.attempts \in 0 .. 2 /\ crashes' = crashes
    BY <1>22 DEF FinishScenarioReviewRun, OrchestratorBounds, NoContext
  <2> QED BY <2>1, <2>2, <2>3 DEF OrchestratorBounds
<1>23. CASE CleanupAtEnd
  <2>1. PatchesWithin'
    BY <1>23 DEF CleanupAtEnd, FinishCleanup, OrchestratorBounds, PatchesWithin, NoContext
  <2>2. RunsWithin'
    BY <1>23 DEF CleanupAtEnd, FinishCleanup, OrchestratorBounds, RunsWithin
  <2>3. context'.attempts \in 0 .. 2 /\ crashes' = crashes
    BY <1>23 DEF CleanupAtEnd, FinishCleanup, OrchestratorBounds, NoContext
  <2> QED BY <2>1, <2>2, <2>3 DEF OrchestratorBounds
<1>24. CASE Leave
  <2>1. PatchesWithin'
    BY <1>24 DEF Leave, disk, OrchestratorBounds, PatchesWithin, NoContext
  <2>2. RunsWithin'
    BY <1>24 DEF Leave, disk, OrchestratorBounds, RunsWithin
  <2>3. context'.attempts \in 0 .. 2 /\ crashes' = crashes
    BY <1>24 DEF Leave, disk, OrchestratorBounds, NoContext
  <2> QED BY <2>1, <2>2, <2>3 DEF OrchestratorBounds
<1>25. CASE ExecutionFails
  <2>1. PatchesWithin'
    BY <1>25 DEF ExecutionFails, OrchestratorBounds, PatchesWithin, NoContext
  <2>2. RunsWithin'
    BY <1>25 DEF ExecutionFails, OrchestratorBounds, RunsWithin
  <2>3. context'.attempts \in 0 .. 2 /\ crashes' = crashes
    BY <1>25 DEF ExecutionFails, OrchestratorBounds, NoContext
  <2> QED BY <2>1, <2>2, <2>3 DEF OrchestratorBounds
<1> QED BY <1>1, <1>2, <1>3, <1>4, <1>5, <1>6, <1>7, <1>8, <1>9, <1>10, <1>11, <1>12, <1>13, <1>14,
           <1>15, <1>16, <1>17, <1>18, <1>19, <1>20, <1>21, <1>22, <1>23, <1>24, <1>25, <1>0 DEF
           PipelineStep

LEMMA OrchestratorBoundsStep ==
  ASSUME OrchestratorInv, OrchestratorBounds, [RunOrchestratorNext]_vars PROVE OrchestratorBounds'
<1> USE OrchestratorAssumption DEF OrchestratorInv, Types, OrchestratorBounds, PatchesWithin,
        RunsWithin
<1>1. ASSUME NEW r \in Runs, StartRequested(r) PROVE OrchestratorBounds'
  BY <1>1 DEF StartRequested, disk, facts
<1>2. ASSUME NEW r \in Runs, StartCreated(r) PROVE OrchestratorBounds'
  BY <1>2 DEF StartCreated, facts, NoContext
<1>3. ASSUME NEW r \in Runs, StartFails(r) PROVE OrchestratorBounds'
  BY <1>3 DEF StartFails, facts
<1>4. CASE PipelineStep \/ ExecutionFails
  BY <1>4, PipelineBounds
<1>5. CASE Crash
  BY <1>5 DEF Crash, disk, facts, NoContext
<1>6. CASE Recover
  BY <1>6 DEF Recover, Recovered, facts
<1>7. CASE UNCHANGED vars
  BY <1>7 DEF vars, memory, disk, facts
<1> QED BY <1>1, <1>2, <1>3, <1>4, <1>5, <1>6, <1>7 DEF RunOrchestratorNext

LEMMA OrchestratorTypesHold ==
  RunOrchestratorInit /\ [][RunOrchestratorNext]_vars => []RunOrchestratorTypeOK
<1>1. OrchestratorInv /\ OrchestratorBounds => RunOrchestratorTypeOK
  <2> SUFFICES ASSUME OrchestratorInv, OrchestratorBounds PROVE RunOrchestratorTypeOK
    OBVIOUS
  <2>1. Types /\ context.reasons \subseteq Reasons
    BY DEF OrchestratorInv, Types, ContextType
  <2>2. ASSUME NEW r \in Runs
        PROVE  /\ files[r].report \in Results \cup {None}
               /\ files[r].execution \in {None, "recon", "formal"}
    BY <2>1 DEF Types, FilesType
  <2> QED BY <2>1, <2>2
          DEF Types, StatusType, OrchestratorBounds, PatchesWithin, RunsWithin,
              RunOrchestratorTypeOK
<1>2. RunOrchestratorInit => OrchestratorInv /\ OrchestratorBounds
  BY InvInit, OrchestratorBoundsStart
<1>3. OrchestratorInv /\ OrchestratorBounds /\ [RunOrchestratorNext]_vars
        => OrchestratorInv' /\ OrchestratorBounds'
  BY OrchestratorStep, OrchestratorBoundsStep
<1> QED BY <1>1, <1>2, <1>3, PTL

-----------------------------------------------------------------------------
(***************************************************************************)
(* RunWork.                                                                *)
(***************************************************************************)
\* A behaviour of the components inside a Run is one of each of them: what is proved of a
\* component holds in their composition, whose instance a run checks.
THEOREM RunWorkIsItsComponents ==
  RunWorkSpec => /\ RunOrchestratorInit /\ [][RunOrchestratorNext]_vars
                 /\ TestDataSpec /\ EvidenceSpec /\ SourceSpec /\ RulesSpec
<1> USE DEF RunWorkNext, workVars, OrchestratorPart, DataPart, EvidencePart, SourcesPart, RulesPart
<1>1. RunWorkInit =>
        RunOrchestratorInit /\ TestDataInit /\ EvidenceInit /\ SourceInit /\ RulesInit
  BY DEF RunWorkInit
<1>2. [RunWorkNext]_workVars => [RunOrchestratorNext]_vars
  OBVIOUS
<1>3. [RunWorkNext]_workVars => [TestDataNext]_dataVars
  OBVIOUS
<1>4. [RunWorkNext]_workVars => [EvidenceNext]_evidenceVars
  OBVIOUS
<1>5. [RunWorkNext]_workVars => [SourceNext]_sourceVars
  OBVIOUS
<1>6. [RunWorkNext]_workVars => [RulesNext]_ruleVars
  OBVIOUS
<1> QED BY <1>1, <1>2, <1>3, <1>4, <1>5, <1>6, PTL
        DEF RunWorkSpec, TestDataSpec, EvidenceSpec, SourceSpec, RulesSpec

\* What is completed was told as it was, the test data cleaned as told, the evidence kept as it was
\* seen, the reads recorded and the review of a passed Run done, in every state of every Run: with
\* the condition CompletedAsTold and PassedAsReviewed put on the line the downgrade finds.
THEOREM RunWorkIsCorrect ==
  RunWorkSpec => [](/\ CompletedAsTold /\ DataCleanedAsTold /\ EvidenceKept
                    /\ ReadsRecorded /\ PassedAsReviewed)
<1>1. OrchestratorInv => CompletedAsTold
  BY CompletedAsToldInv
<1>2. RunOrchestratorInit => OrchestratorInv
  BY InvInit
<1>3. OrchestratorInv /\ [RunOrchestratorNext]_vars => OrchestratorInv'
  BY OrchestratorStep
<1> QED BY <1>1, <1>2, <1>3, RunWorkIsItsComponents, DataIsCleanedAsTold, EvidenceIsKept,
           ReadsAreRecorded, PassedIsAsReviewed, PTL

\* The state of every component inside a Run has its type and stays within its bounds.
THEOREM RunWorkTypesCorrect == RunWorkSpec => []RunWorkTypeOK
<1>1. RunOrchestratorTypeOK /\ TestDataTypeOK /\ EvidenceTypeOK /\ SourceTypeOK /\ RulesTypeOK
        => RunWorkTypeOK
  BY DEF RunWorkTypeOK
<1> QED BY <1>1, RunWorkIsItsComponents, OrchestratorTypesHold, DataTypesHold, EvidenceTypesHold,
           SourceTypesHold, RulesTypesHold, PTL
===============================================================================
