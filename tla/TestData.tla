------------------------------ MODULE TestData ------------------------------
(***************************************************************************)
(* The accounts a Run makes in the application under test, and how they    *)
(* are cleaned up: runs/test-data.ts (the register of a Run's data),       *)
(* runs/http-test-data-cleanup.ts (the adapter of the deployment's         *)
(* clean-up endpoint) and runs/controlled-http.ts (the Runner's requests). *)
(*                                                                         *)
(* The application and its endpoint are outside the code: a DELETE may     *)
(* leave accounts, take another Run's, and say anything; a GET counts what *)
(* is there.  A request may fail, be done with its answer lost, or be done *)
(* after the caller gave it up at its time limit.                          *)
(***************************************************************************)
EXTENDS Naturals, FiniteSets

CONSTANTS Ids,         \* identifiers of the Run's accounts
          MaxCall,     \* bound on the calls of verify_run_cleanup_scope
          MaxDataLoss  \* bound on the requests without an answer

\* Requests are counted.
ASSUME DataAssumption == MaxDataLoss \in Nat

VARIABLES
  accounts,    \* the Run's accounts in the application
  controls,    \* the scope calls whose control account is in the application
  dataLate,    \* creations given up by the caller and not done yet
  unanswered,  \* accounts whose creation was never confirmed
  adapter,     \* whether a clean-up endpoint is configured
  entries,     \* the register: status and scope of each identifier
  harmed,      \* scope calls whose control the Run's own DELETE took
  verdict,     \* what each scope call told the Runner
  dataOp,      \* the call in progress
  dataPhase,   \* the Sessions, the clean-up of the Harness, its end
  told,        \* what the clean-up told the Run
  dataLosses

dataVars  == <<accounts, controls, dataLate, unanswered, adapter, entries, harmed, verdict, dataOp,
               dataPhase, told, dataLosses>>
siteVars  == <<accounts, controls, dataLate, unanswered, dataLosses>>
scopeVars == <<harmed, verdict>>
endVars   == <<dataPhase, told>>

Calls == 1 .. MaxCall
NoDataOp  == [at |-> "none", call |-> 0, id |-> "none", reported |-> 0, failed |-> FALSE]

\* Type invariant: the register, the application and the calls hold values of their kinds.
TestDataTypeOK ==
  /\ accounts \subseteq Ids /\ unanswered \subseteq Ids /\ controls \subseteq Calls
  /\ dataLate \in [accounts : SUBSET Ids, controls : SUBSET Calls] /\ adapter \in BOOLEAN
  /\ entries \in [Ids -> [status : {"none", "registered", "verified-cleaned", "rejected"},
                          scoped : BOOLEAN]]
  /\ harmed \subseteq Calls /\ verdict \in [Calls -> {"none", "passed", "failed"}]
  /\ dataOp.at \in {"none", "register", "before", "delete", "after", "control-delete",
                "control-recheck", "capture", "query"}
  /\ dataPhase \in {"sessions", "cleanup", "end"} /\ told \in {"none", "clean", "incomplete"}
  /\ dataLosses \in 0 .. MaxDataLoss

TestDataInit ==
  /\ accounts = {} /\ controls = {} /\ unanswered = {}
  /\ dataLate = [accounts |-> {}, controls |-> {}]
  /\ adapter \in BOOLEAN /\ dataLosses = 0
  /\ entries = [i \in Ids |-> [status |-> "none", scoped |-> FALSE]]
  /\ harmed = {} /\ verdict = [c \in Calls |-> "none"]
  /\ dataOp = NoDataOp /\ dataPhase = "sessions" /\ told = "none"

---------------------------------------------------------------------------
\* The application.

Created(as, cs) == accounts' = accounts \cup as /\ controls' = controls \cup cs

\* A request that was given up is done after all.
LateCreation ==
  \E as \in SUBSET dataLate.accounts, cs \in SUBSET dataLate.controls :
    /\ Cardinality(as) + Cardinality(cs) = 1
    /\ dataLate' = [accounts |-> dataLate.accounts \ as, controls |-> dataLate.controls \ cs]
    /\ Created(as, cs)
    /\ UNCHANGED <<unanswered, adapter, entries, dataOp, dataLosses, scopeVars, endVars>>

NoAnswer == dataLosses < MaxDataLoss /\ dataLosses' = dataLosses + 1

\* A creation without an answer: done, never done, or done later.
CreationLost(as, cs) ==
  /\ NoAnswer
  /\ \/ UNCHANGED <<accounts, controls, dataLate>>
     \/ Created(as, cs) /\ UNCHANGED dataLate
     \/ /\ dataLate' = [accounts |-> dataLate.accounts \cup as,
                       controls |-> dataLate.controls \cup cs]
        /\ UNCHANGED <<accounts, controls>>

\* A DELETE of the Run's accounts: what it takes is the application's affair.
DeleteOfRun == accounts' \in SUBSET accounts /\ controls' \in SUBSET controls

---------------------------------------------------------------------------
\* The Sessions of the Run and their tools.

Session == dataPhase = "sessions" /\ dataOp = NoDataOp

\* request_test_http makes an account.
CreateAccount(i) ==
  /\ Session
  /\ \/ /\ accounts' = accounts \cup {i}
        /\ UNCHANGED <<controls, dataLate, unanswered, dataLosses>>
     \/ CreationLost({i}, {}) /\ unanswered' = unanswered \cup {i}
  /\ UNCHANGED <<adapter, entries, dataOp, scopeVars, endVars>>

\* register_test_data: an identifier registered before keeps its record.
RegisterTestData(i, scoped) ==
  /\ Session /\ entries[i].status = "none"
  /\ entries' = [entries EXCEPT ![i] = [status |-> "registered", scoped |-> scoped]]
  /\ UNCHANGED <<siteVars, adapter, dataOp, scopeVars, endVars>>

\* probe_run_cleanup with DELETE: the register does not learn of it.
ProbeRunCleanup ==
  /\ Session /\ adapter /\ accounts /= {}
  /\ DeleteOfRun
  /\ UNCHANGED <<dataLate, unanswered, dataLosses, adapter, entries, dataOp, scopeVars, endVars>>

ScopeAt(stage) == dataPhase = "sessions" /\ dataOp.at = stage

\* verify_run_cleanup_scope picks a control Run of its own.
ScopeBegins(c) ==
  /\ Session /\ adapter /\ verdict[c] = "none" /\ \A d \in Calls : d < c => verdict[d] /= "none"
  /\ dataOp' = [NoDataOp EXCEPT !.at = "register", !.call = c]
  /\ UNCHANGED <<siteVars, adapter, entries, scopeVars, endVars>>

\* The try block fails: the finally block follows.
Gives == [dataOp EXCEPT !.failed = TRUE, !.at = "control-delete"]

\* The control account is registered, refused, or the request is lost.
ScopeRegisters ==
  /\ ScopeAt("register")
  /\ \/ /\ controls' = controls \cup {dataOp.call} /\ dataOp' = [dataOp EXCEPT !.at = "before"]
        /\ UNCHANGED <<accounts, dataLate, dataLosses>>
     \/ dataOp' = Gives /\ UNCHANGED <<accounts, controls, dataLate, dataLosses>>
     \/ CreationLost({}, {dataOp.call}) /\ dataOp' = Gives
  /\ UNCHANGED <<unanswered, adapter, entries, scopeVars, endVars>>

\* Both counts before the DELETE.
ScopeCountsBefore ==
  /\ ScopeAt("before")
  /\ \/ dataOp' = (IF accounts /= {} /\ dataOp.call \in controls
                 THEN [dataOp EXCEPT !.at = "delete"] ELSE Gives) /\ UNCHANGED dataLosses
     \/ NoAnswer /\ dataOp' = Gives
  /\ UNCHANGED <<accounts, controls, dataLate, unanswered, adapter, entries, scopeVars, endVars>>

\* The DELETE of the current Run, with whatever count it answers.
ScopeDeletes ==
  /\ ScopeAt("delete") /\ DeleteOfRun
  /\ \/ /\ \E n \in 0 .. Cardinality(accounts') :
             dataOp' = [dataOp EXCEPT !.reported = n, !.at = "after"]
        /\ UNCHANGED dataLosses
     \/ NoAnswer /\ dataOp' = Gives
  /\ harmed' = IF dataOp.call \in controls' THEN harmed ELSE harmed \cup {dataOp.call}
  /\ UNCHANGED <<dataLate, unanswered, adapter, entries, verdict, endVars>>

\* Mutant: only the current Run is counted again.
ControlNotCounted ==
  /\ ScopeAt("after")
  /\ dataOp' = (IF dataOp.reported = 0 /\ accounts = {} THEN [dataOp EXCEPT !.at = "control-delete"]
                                                        ELSE Gives)
  /\ UNCHANGED <<siteVars, adapter, entries, scopeVars, endVars>>

\* Both counts after it, compared.
ScopeCountsAfter ==
  /\ ScopeAt("after")
  /\ \/ dataOp' = (IF dataOp.reported = 0 /\ accounts = {} /\ dataOp.call \in controls
                 THEN [dataOp EXCEPT !.at = "control-delete"] ELSE Gives) /\ UNCHANGED dataLosses
     \/ NoAnswer /\ dataOp' = Gives
  /\ UNCHANGED <<accounts, controls, dataLate, unanswered, adapter, entries, scopeVars, endVars>>

\* finally: the control account is deleted ...
ScopeDeletesControl ==
  /\ ScopeAt("control-delete")
  /\ controls' \in {controls, controls \ {dataOp.call}}
  /\ \/ dataOp' = [dataOp EXCEPT !.at = "control-recheck"] /\ UNCHANGED dataLosses
     \/ NoAnswer /\ dataOp' = [dataOp EXCEPT !.failed = TRUE, !.at = "capture"]
  /\ UNCHANGED <<accounts, dataLate, unanswered, adapter, entries, scopeVars, endVars>>

\* Mutant: the answer of that DELETE is taken for its result.
ControlNotRechecked ==
  /\ ScopeAt("control-recheck") /\ dataOp' = [dataOp EXCEPT !.at = "capture"]
  /\ UNCHANGED <<siteVars, adapter, entries, scopeVars, endVars>>

\* ... and counted again.
ScopeRechecksControl ==
  /\ ScopeAt("control-recheck")
  /\ \/ /\ dataOp' = [dataOp EXCEPT !.at = "capture", !.failed = @ \/ dataOp.call \in controls]
        /\ UNCHANGED dataLosses
     \/ NoAnswer /\ dataOp' = [dataOp EXCEPT !.failed = TRUE, !.at = "capture"]
  /\ UNCHANGED <<accounts, controls, dataLate, unanswered, adapter, entries, scopeVars, endVars>>

\* The result is captured as evidence and told; one that cannot be captured is an error.
ScopeEnds ==
  /\ ScopeAt("capture")
  /\ \E captured \in BOOLEAN :
       verdict' = [verdict EXCEPT ![dataOp.call] =
                     IF captured /\ ~dataOp.failed THEN "passed" ELSE "failed"]
  /\ dataOp' = NoDataOp
  /\ UNCHANGED <<siteVars, adapter, entries, harmed, endVars>>

---------------------------------------------------------------------------
\* The clean-up of the Harness, after the last Session.

Pending == {i \in Ids : entries[i].status \in {"registered", "rejected"}}
MarkedEntry(i, status) == entries' = [entries EXCEPT ![i].status = status]

\* The entries are taken once; a rejected one is not tried again in this clean-up.
CleanupBegins ==
  /\ Session /\ dataPhase' = "cleanup"
  /\ UNCHANGED <<siteVars, adapter, entries, dataOp, scopeVars, told>>

InCleanup(i) ==
  /\ dataPhase = "cleanup" /\ adapter /\ dataOp = NoDataOp
  /\ entries[i].status = "registered"

\* An entry outside the scope the endpoint supports is left to a person.
CleanupRefuses(i) ==
  /\ InCleanup(i) /\ ~entries[i].scoped /\ MarkedEntry(i, "rejected")
  /\ UNCHANGED <<siteVars, adapter, dataOp, scopeVars, endVars>>

\* Mutant: the count the DELETE answers is trusted.
DeleteTrusted(i) ==
  /\ InCleanup(i) /\ entries[i].scoped /\ DeleteOfRun /\ MarkedEntry(i, "verified-cleaned")
  /\ UNCHANGED <<dataLate, unanswered, dataLosses, adapter, dataOp, scopeVars, endVars>>

\* cleanupAndVerify deletes everything of the Run ...
CleanupDeletes(i) ==
  /\ InCleanup(i) /\ entries[i].scoped /\ DeleteOfRun
  /\ \/ dataOp' = [NoDataOp EXCEPT !.at = "query", !.id = i] /\ UNCHANGED <<dataLosses, entries>>
     \/ NoAnswer /\ MarkedEntry(i, "rejected") /\ UNCHANGED dataOp
  /\ UNCHANGED <<dataLate, unanswered, adapter, scopeVars, endVars>>

\* ... and asks with a request of its own what is left.
CleanupQueries ==
  /\ dataPhase = "cleanup" /\ dataOp.at = "query" /\ dataOp' = NoDataOp
  /\ \/ /\ MarkedEntry(dataOp.id, IF accounts = {} THEN "verified-cleaned" ELSE "rejected")
        /\ UNCHANGED dataLosses
     \/ NoAnswer /\ MarkedEntry(dataOp.id, "rejected")
  /\ UNCHANGED <<accounts, controls, dataLate, unanswered, adapter, scopeVars, endVars>>

\* finalize, and the sentence the Run gets.
CleanupEnds ==
  /\ dataPhase = "cleanup" /\ dataOp = NoDataOp
  /\ adapter => \A i \in Ids : entries[i].status /= "registered"
  /\ told' = (IF Pending = {} THEN "clean" ELSE "incomplete") /\ dataPhase' = "end"
  /\ UNCHANGED <<siteVars, adapter, entries, dataOp, scopeVars>>

---------------------------------------------------------------------------
ScopeStep == ScopeRegisters \/ ScopeCountsBefore \/ ScopeDeletes \/ ScopeCountsAfter
             \/ ScopeDeletesControl \/ ScopeRechecksControl \/ ScopeEnds

TestDataNext ==
  \/ LateCreation \/ ProbeRunCleanup \/ ScopeStep
  \/ CleanupBegins \/ CleanupQueries \/ CleanupEnds
  \/ \E i \in Ids :
       \/ CreateAccount(i) \/ (\E scoped \in BOOLEAN : RegisterTestData(i, scoped))
       \/ CleanupRefuses(i) \/ CleanupDeletes(i)
  \/ \E c \in Calls : ScopeBegins(c)

TestDataSpec == TestDataInit /\ [][TestDataNext]_dataVars

---------------------------------------------------------------------------
\* An account that is recorded as cleaned, in a Run told that all is clean as in one that is
\* not, is not in the application, unless its creation was never confirmed to the Run and was
\* done after the clean-up gave its verdict (http-test-data-cleanup.ts deletes and then asks).
CleanedIsAbsent ==
  \A i \in Ids :
    \/ entries[i].status = "none" \/ (entries[i].status /= "verified-cleaned" /\ told /= "clean")
    \/ i \notin accounts \/ i \in unanswered

\* A scope check that passed had a control account that the Run's own DELETE left alone.
PassedIsIsolated == \A c \in Calls : verdict[c] = "passed" => c \notin harmed

\* A control account left in the application belongs to a call that is running or told an
\* error: every path of verify_run_cleanup_scope goes through its finally block.
ControlLeftIsTold ==
  \A c \in controls : verdict[c] = "failed" \/ dataOp.call = c

\* runs/test-data.ts, runs/controlled-http.ts: what is called clean is gone, what is called
\* isolated is, and no control account is forgotten.
DataCleanedAsTold == CleanedIsAbsent /\ PassedIsIsolated /\ ControlLeftIsTold
=============================================================================
