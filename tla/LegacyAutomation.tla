-------------------------- MODULE LegacyAutomation --------------------------
(***************************************************************************)
(* The single-project automation of an instance that was not upgraded:     *)
(* DefaultAutomationService (automation/service.ts), the tasks of          *)
(* automation/scheduler.ts and the interrupted Runs of                     *)
(* automation/recovery.ts.                                                 *)
(*                                                                         *)
(* The queue has no lease here: that one request is driven at a time rests *)
(* on three variables of the process, activeQueueId, dispatching and       *)
(* recovering.  Dispatching, the monitor of a Run, the scans of archives   *)
(* and recovery all await in between, and one archive serves whoever asks  *)
(* for it meanwhile.  Request n reserves Run n.                            *)
(***************************************************************************)
EXTENDS Naturals, FiniteSets

CONSTANTS Scanners,         \* who may be in scanArchives: the scheduler, the scan route
          MaxRequest,       \* bound on the requests
          MaxLegacyCrash,   \* bound on crashes
          MaxLegacyFailure  \* bound on archives that do not complete

\* The bound is a number.
ASSUME LegacyAssumption == MaxRequest \in Nat

VARIABLES
  status,      \* the queue: status of each request
  linked,      \* the requests whose row has its Run
  rowArchive,  \* archive_status of the row
  run,         \* the Run of each request
  stored,      \* archive status in the Run store
  present,     \* the Runs whose directory is still there
  active,      \* activeQueueId, 0 for none
  dispatch,    \* where dispatchNext is
  monitor,     \* where monitorRun of each request is
  archiving,   \* the Runs whose archive is under way
  scan,        \* of each scanner: the Runs it waits for, and the results it has
  recovery,    \* the requests still to be recovered, or NotRecovering
  legacyCrashes, legacyFailures

legacyVars == <<status, linked, rowArchive, run, stored, present, active, dispatch,
                monitor, archiving, scan, recovery, legacyCrashes, legacyFailures>>
serviceVars == <<active, dispatch, monitor, archiving, scan, recovery>>

LegacyRequests      == 1 .. MaxRequest
InFlight      == {"running", "waiting_archive"}
Ended         == {"completed", "failed", "interrupted"}
NotRecovering == {0}
Results       == {"completed", "failed"}
ArchiveTypes  == [LegacyRequests -> {"none"} \cup Results]
NoArchive     == [r \in LegacyRequests |-> "none"]
NoScan        == [on |-> FALSE, waits |-> {}, found |-> NoArchive, late |-> 0]

\* Type invariant: a Run in the store has ended, a Run that is linked was started.
LegacyTypeOK ==
  /\ status \in [LegacyRequests -> {"new", "queued"} \cup InFlight \cup Ended]
  /\ linked \subseteq LegacyRequests
  /\ rowArchive \in ArchiveTypes
  /\ run \in [LegacyRequests -> {"none", "running", "completed", "failed", "interrupted"}]
  /\ stored \in ArchiveTypes
  /\ \A r \in LegacyRequests : /\ stored[r] /= "none" => run[r] = "completed"
                               /\ r \in linked => run[r] /= "none"
  /\ present \subseteq LegacyRequests /\ active \in 0 .. MaxRequest
  /\ dispatch \in {"idle", "current", "resolving", "down"}
  /\ monitor \in [LegacyRequests -> {"none", "run", "archive"} \cup Results]
  /\ archiving \subseteq LegacyRequests
  /\ scan \in [Scanners -> [on : BOOLEAN, waits : SUBSET LegacyRequests, found : ArchiveTypes,
                            late : 0 .. MaxRequest]]
  /\ recovery = NotRecovering \/ recovery \subseteq LegacyRequests

LegacyInit ==
  /\ status = [r \in LegacyRequests |-> "new"] /\ linked = {}
  /\ rowArchive = NoArchive /\ run = [r \in LegacyRequests |-> "none"]
  /\ stored = NoArchive /\ present = {} /\ active = 0
  /\ dispatch = "idle" /\ monitor = [r \in LegacyRequests |-> "none"] /\ archiving = {}
  /\ scan = [s \in Scanners |-> NoScan] /\ recovery = NotRecovering
  /\ legacyCrashes = 0 /\ legacyFailures = 0

Up         == dispatch /= "down"
Recovering == recovery /= NotRecovering
Serving    == Up /\ ~Recovering
Scanning   == \E s \in Scanners : scan[s] /= NoScan
Current    == {r \in LegacyRequests : run[r] = "running"}

---------------------------------------------------------------------------
\* Requests and dispatching.

Submit ==
  \E r \in LegacyRequests :
    /\ Serving /\ status[r] = "new" /\ \A q \in 1 .. r - 1 : status[q] /= "new"
    /\ status' = [status EXCEPT ![r] = "queued"]
    /\ UNCHANGED <<linked, rowArchive, run, stored, present, serviceVars, legacyCrashes,
                   legacyFailures>>

\* Mutant: a dispatch may enter while a request is driven.
EntersWhileDriven ==
  /\ dispatch = "idle" /\ ~Recovering
  /\ \E r \in LegacyRequests : status[r] = "queued"
  /\ dispatch' = "current"
  /\ UNCHANGED <<status, linked, rowArchive, run, stored, present, active, monitor,
                 archiving, scan, recovery, legacyCrashes, legacyFailures>>

\* dispatchNext: refused while a request is driven, dispatched or recovered; then the current Run
\* is asked for.
Enters ==
  /\ dispatch = "idle" /\ active = 0 /\ ~Recovering
  /\ \E r \in LegacyRequests : status[r] = "queued"
  /\ dispatch' = "current"
  /\ UNCHANGED <<status, linked, rowArchive, run, stored, present, active, monitor,
                 archiving, scan, recovery, legacyCrashes, legacyFailures>>

\* No Run is executing: the oldest request is claimed and its target is resolved.
Claims ==
  /\ dispatch = "current"
  /\ LET queued == {r \in LegacyRequests : status[r] = "queued"} IN
     IF Current /= {} \/ queued = {}
       THEN dispatch' = "idle" /\ UNCHANGED <<status, active>>
       ELSE LET r == CHOOSE q \in queued : \A p \in queued : q <= p IN
            /\ status' = [status EXCEPT ![r] = "running"] /\ active' = r
            /\ dispatch' = "resolving"
  /\ UNCHANGED <<linked, rowArchive, run, stored, present, monitor, archiving, scan,
                 recovery, legacyCrashes, legacyFailures>>

\* The Run is started under the reserved identifier and monitored.
Starts ==
  /\ dispatch = "resolving"
  /\ run' = [run EXCEPT ![active] = "running"] /\ present' = present \cup {active}
  /\ linked' = linked \cup {active} /\ monitor' = [monitor EXCEPT ![active] = "run"]
  /\ dispatch' = "idle"
  /\ UNCHANGED <<status, rowArchive, stored, active, archiving, scan, recovery,
                 legacyCrashes, legacyFailures>>

\* Mutant: the request that could not start stays the active one.
StartRefusedStaysActive ==
  /\ dispatch = "resolving"
  /\ status' = [status EXCEPT ![active] = "failed"] /\ dispatch' = "idle"
  /\ UNCHANGED <<linked, rowArchive, run, stored, present, active, monitor, archiving, scan,
                 recovery, legacyCrashes, legacyFailures>>

\* Target or start fails: the request fails and the next one may be dispatched.
StartRefused ==
  /\ dispatch = "resolving"
  /\ status' = [status EXCEPT ![active] = "failed"] /\ active' = 0 /\ dispatch' = "idle"
  /\ UNCHANGED <<linked, rowArchive, run, stored, present, monitor, archiving, scan,
                 recovery, legacyCrashes, legacyFailures>>

---------------------------------------------------------------------------
\* The monitor of a Run, and its archive.

RunEnds(r) ==
  /\ Up /\ run[r] = "running" /\ \E e \in {"completed", "failed"} : run' = [run EXCEPT ![r] = e]
  /\ UNCHANGED <<status, linked, rowArchive, stored, present, serviceVars, legacyCrashes,
                 legacyFailures>>

\* A completed Run waits for its archive; any other end fails the request.
MonitorSees(r) ==
  /\ monitor[r] = "run" /\ run[r] /= "running"
  /\ IF run[r] = "completed"
       THEN /\ status' = [status EXCEPT ![r] = "waiting_archive"]
            /\ monitor' = [monitor EXCEPT ![r] = "archive"] /\ archiving' = archiving \cup {r}
            /\ UNCHANGED active
       ELSE /\ status' = [status EXCEPT ![r] = "failed"]
            /\ monitor' = [monitor EXCEPT ![r] = "none"] /\ active' = 0 /\ UNCHANGED archiving
  /\ UNCHANGED <<linked, rowArchive, run, stored, present, dispatch, scan, recovery,
                 legacyCrashes, legacyFailures>>

\* What an archive of r may come to.  One that was archived stays so, unless its directory cannot
\* be read: it has gone, or goes while the archive is under way.  A failure before the import
\* leaves the Run unknown to the store.
Archived(r, result) ==
  \/ /\ result = "completed"
     /\ r \in present \/ stored[r] = "completed"
     /\ stored' = [stored EXCEPT ![r] = "completed"] /\ UNCHANGED legacyFailures
  \/ /\ result = "failed"
     /\ \/ r \notin present /\ UNCHANGED legacyFailures
        \/ /\ r \in present /\ legacyFailures < MaxLegacyFailure
           /\ legacyFailures' = legacyFailures + 1
     /\ \/ stored' = [stored EXCEPT ![r] = "failed"]
        \/ stored[r] = "none" /\ UNCHANGED stored

\* The scan of s with a result of r: one for a request that has ended is not kept, nobody reads it.
Heard(s, r, result) ==
  IF r \notin scan[s].waits THEN scan[s]
  ELSE [scan[s] EXCEPT !.waits = @ \ {r},
                       !.found[r] = IF status[r] \in Ended THEN "none" ELSE result]

\* An archive ends, and all who asked for it have the same result.
ArchiveEnds(r) ==
  /\ Up /\ r \in archiving /\ archiving' = archiving \ {r}
  /\ \E result \in Results :
       /\ Archived(r, result)
       /\ monitor' = [monitor EXCEPT ![r] = IF @ = "archive" THEN result ELSE @]
       /\ scan' = [s \in Scanners |-> Heard(s, r, result)]
  /\ UNCHANGED <<status, linked, rowArchive, run, present, active, dispatch, recovery,
                 legacyCrashes>>

\* queue.complete succeeds for a request in flight; for one that has ended it throws.
Completed(r, result) ==
  IF status[r] \in InFlight
    THEN /\ status' = [status EXCEPT ![r] = "completed"]
         /\ rowArchive' = [rowArchive EXCEPT ![r] = result]
    ELSE UNCHANGED <<status, rowArchive>>

\* The monitor has the result; a request a scan completed meanwhile stays as it is.
MonitorCompletes(r) ==
  /\ ~Recovering /\ monitor[r] \in Results /\ Completed(r, monitor[r])
  /\ monitor' = [monitor EXCEPT ![r] = "none"]
  /\ active' = IF active = r THEN 0 ELSE active
  /\ UNCHANGED <<linked, run, stored, present, dispatch, archiving, scan, recovery,
                 legacyCrashes, legacyFailures>>

---------------------------------------------------------------------------
\* The scans of archives, and what removes directories.

\* scanArchives: the archiver takes every completed directory, archived before or not.  The
\* scheduler is in one tick at a time; nothing excludes the route's scan from it.
ScanBegins(s) ==
  /\ Serving /\ scan[s] = NoScan
  /\ LET listed == {r \in LegacyRequests : r \in present /\ run[r] = "completed"} IN
     /\ scan' = [scan EXCEPT ![s] = [NoScan EXCEPT !.on = TRUE, !.waits = listed]]
     /\ archiving' = archiving \cup listed
  /\ UNCHANGED <<status, linked, rowArchive, run, stored, present, active, dispatch, monitor,
                 recovery, legacyCrashes, legacyFailures>>

\* POST /api/runs/:runId/archive: the archiver is asked for one Run, whatever is left of it.
ArchiveAsked(r) ==
  /\ Serving /\ run[r] = "completed" /\ r \notin archiving
  /\ archiving' = archiving \cup {r}
  /\ UNCHANGED <<status, linked, rowArchive, run, stored, present, active, dispatch, monitor, scan,
                 recovery, legacyCrashes, legacyFailures>>

Waiting   == {r \in LegacyRequests : status[r] = "waiting_archive"}
HasAll(s) == scan[s].on /\ scan[s].waits = {}

\* Every archive the scan asked for has ended.  A request that waits for one of them is completed
\* with that result, also while its monitor has the Run archived again.
ScanEnds(s) ==
  /\ HasAll(s) /\ scan[s].late = 0
  /\ \/ Waiting = {} /\ UNCHANGED <<status, rowArchive>>
     \/ \E r \in Waiting : scan[s].found[r] /= "none" /\ Completed(r, scan[s].found[r])
  /\ scan' = [scan EXCEPT ![s] = NoScan]
  /\ UNCHANGED <<linked, run, stored, present, active, dispatch, monitor, archiving, recovery,
                 legacyCrashes, legacyFailures>>

\* A request waits whose directory was not listed: its Run is archived after the others.
ScanArchivesLate(s) ==
  /\ HasAll(s) /\ scan[s].late = 0
  /\ \E r \in Waiting :
       /\ scan[s].found[r] = "none" /\ archiving' = archiving \cup {r}
       /\ scan' = [scan EXCEPT ![s].late = r, ![s].waits = {r}]
  /\ UNCHANGED <<status, linked, rowArchive, run, stored, present, active, dispatch, monitor,
                 recovery, legacyCrashes, legacyFailures>>

LateScanEnds(s) ==
  /\ HasAll(s) /\ scan[s].late /= 0 /\ Completed(scan[s].late, scan[s].found[scan[s].late])
  /\ scan' = [scan EXCEPT ![s] = NoScan]
  /\ UNCHANGED <<linked, run, stored, present, active, dispatch, monitor, archiving, recovery,
                 legacyCrashes, legacyFailures>>

\* Mutant: a directory goes once the Run is archived, whatever the queue still says.
MayRemoveOnceArchived(r) == r \in present /\ stored[r] = "completed" /\ r \notin Current

\* cleanupRetention and cleanupRun: archived, not executing, and its request completed with it.
MayRemove(r) ==
  /\ r \in present /\ stored[r] = "completed" /\ r \notin Current
  /\ status[r] = "completed" /\ rowArchive[r] = "completed"

DirectoryRemoved(r) ==
  /\ Serving /\ MayRemove(r) /\ present' = present \ {r}
  /\ UNCHANGED <<status, linked, rowArchive, run, stored, serviceVars, legacyCrashes,
                 legacyFailures>>

---------------------------------------------------------------------------
\* Crash and recovery.

ProcessLost ==
  /\ legacyCrashes < MaxLegacyCrash /\ legacyCrashes' = legacyCrashes + 1
  /\ active' = 0 /\ dispatch' = "down" /\ monitor' = [r \in LegacyRequests |-> "none"]
  /\ archiving' = {} /\ scan' = [s \in Scanners |-> NoScan] /\ recovery' = NotRecovering

Crash ==
  /\ Up /\ ProcessLost
  /\ UNCHANGED <<status, linked, rowArchive, run, stored, present, legacyFailures>>

\* The Run has its directory and the row has not its identifier yet.
CrashAfterStart ==
  /\ dispatch = "resolving" /\ ProcessLost
  /\ run' = [run EXCEPT ![active] = "running"] /\ present' = present \cup {active}
  /\ UNCHANGED <<status, linked, rowArchive, stored, legacyFailures>>

\* The recovery store keeps a row for a Run whose directory is still in running/.
Recorded(s) == IF s \in {"running", "failed"} THEN "interrupted" ELSE s

\* The orchestrator records every Run left in running/ as interrupted, one that had failed too.
\* A request without a Run that has an internal ref and no prepared commit fails
\* (reconcileMergeRequestRefs).  Then the requests in flight are taken in turn, before the timer and
\* the routes start.
RecoveryBegins ==
  /\ dispatch = "down" /\ dispatch' = "idle"
  /\ run' = [r \in LegacyRequests |-> Recorded(run[r])]
  /\ \E unprepared \in SUBSET {r \in LegacyRequests :
                                 status[r] \in {"queued", "running"} /\ run[r] = "none"} :
       status' = [r \in LegacyRequests |-> IF r \in unprepared THEN "failed" ELSE status[r]]
  /\ recovery' = {r \in LegacyRequests : status'[r] \in InFlight}
  /\ UNCHANGED <<linked, rowArchive, stored, present, active, monitor, archiving, scan,
                 legacyCrashes, legacyFailures>>

First == CHOOSE r \in recovery : \A q \in recovery : r <= q

\* A completed Run is archived again, and its request completed with the result.
RecoverArchive ==
  /\ Recovering /\ recovery /= {} /\ run[First] = "completed" /\ monitor[First] = "none"
  /\ status' = [status EXCEPT ![First] = "waiting_archive"] /\ linked' = linked \cup {First}
  /\ monitor' = [monitor EXCEPT ![First] = "archive"] /\ archiving' = archiving \cup {First}
  /\ UNCHANGED <<rowArchive, run, stored, present, active, dispatch, scan, recovery, legacyCrashes,
                 legacyFailures>>

RecoverCompletes ==
  /\ Recovering /\ recovery /= {} /\ monitor[First] \in Results
  /\ Completed(First, monitor[First]) /\ monitor' = [monitor EXCEPT ![First] = "none"]
  /\ recovery' = recovery \ {First}
  /\ UNCHANGED <<linked, run, stored, present, active, dispatch, archiving, scan, legacyCrashes,
                 legacyFailures>>

\* A request without its Run is queued again; one whose Run was started, linked or not, is
\* interrupted with it.
RecoverRequest ==
  /\ Recovering /\ recovery /= {} /\ run[First] /= "completed"
  /\ status' = [status EXCEPT ![First] = IF run[First] = "none" THEN "queued" ELSE "interrupted"]
  /\ linked' = IF run[First] = "none" THEN linked ELSE linked \cup {First}
  /\ recovery' = recovery \ {First}
  /\ UNCHANGED <<rowArchive, run, stored, present, active, dispatch, monitor, archiving, scan,
                 legacyCrashes, legacyFailures>>

RecoveryEnds ==
  /\ recovery = {} /\ recovery' = NotRecovering
  /\ UNCHANGED <<status, linked, rowArchive, run, stored, present, active, dispatch,
                 monitor, archiving, scan, legacyCrashes, legacyFailures>>

---------------------------------------------------------------------------
ServiceStep ==
  \/ Enters \/ Claims \/ Starts \/ StartRefused
  \/ RecoveryBegins \/ RecoverArchive \/ RecoverCompletes \/ RecoverRequest \/ RecoveryEnds

ScanStep(s) == ScanBegins(s) \/ ScanEnds(s) \/ ScanArchivesLate(s) \/ LateScanEnds(s)

MonitorStep(r) == RunEnds(r) \/ MonitorSees(r) \/ MonitorCompletes(r)

LegacyNext ==
  \/ ServiceStep \/ Submit \/ Crash \/ CrashAfterStart
  \/ \E s \in Scanners : ScanStep(s)
  \/ \E r \in LegacyRequests :
       MonitorStep(r) \/ ArchiveEnds(r) \/ ArchiveAsked(r) \/ DirectoryRemoved(r)

LegacySpec == LegacyInit /\ [][LegacyNext]_legacyVars

\* A promise whose call has returned is resumed, and archives end.  That a Run ends is assumed of
\* the environment, as in Dispatcher.
LegacyFairSpec ==
  /\ LegacySpec /\ WF_legacyVars(ServiceStep)
  /\ \A r \in LegacyRequests : WF_legacyVars(MonitorStep(r)) /\ WF_legacyVars(ArchiveEnds(r))

---------------------------------------------------------------------------
\* Without a lease in the database there is still one request in flight at a time, and the
\* process that holds it drives it: a row left running or waiting is the active one or is being
\* recovered.
OneDrivenRequest ==
  /\ Up => \A r \in LegacyRequests : status[r] \in InFlight =>
                                 active = r \/ r \in recovery
  /\ Cardinality({r \in LegacyRequests : status[r] \in InFlight}) <= 1
  /\ Cardinality(Current) <= 1

\* A directory is removed only when the queue is done with its Run: the request was completed with
\* an archive that completed, across crashes, scans and retries of the archive, it is not to be
\* recovered, and no later result of an archive takes that back.
RemovedIsDone ==
  \A r \in LegacyRequests : run[r] /= "none" /\ r \notin present =>
    status[r] = "completed" /\ rowArchive[r] = "completed" /\ r \notin recovery

\* A Run is not removed while an archive of it is under way for its own request, as the refusal of
\* cleanupRun says (a Run with an archive under way is not cleaned up).
RemovedIsUnused == \A r \in LegacyRequests : monitor[r] = "archive" => r \in present

\* Every request ends if its Run does, whatever fails or crashes (a bounded number of times).
LegacyRequestEnds == \A r \in LegacyRequests : (status[r] = "queued") ~> (status[r] \in Ended)

\* The directory of an archived Run goes: once nothing is under way, retention may remove it.
ArchivedMayGo ==
  \A r \in LegacyRequests :
    stored[r] = "completed" /\ r \in present /\ status[r] \in Ended => MayRemove(r)

\* automation/service.ts: one request is in flight and driven, and a directory goes only when the
\* queue is done with its Run.
LegacyDriven == OneDrivenRequest /\ RemovedIsDone
=============================================================================
