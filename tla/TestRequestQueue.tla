-------------------------- MODULE TestRequestQueue --------------------------
(***************************************************************************)
(* The persistent queue of test requests and its scheduler: the SQLite     *)
(* table test_request_queue (automation/queue.ts), the coordinator that    *)
(* claims the next request over all projects                               *)
(* (automation/project-queue-coordinator.ts) and the administrator's       *)
(* operations that decide what the queue accepts: pausing and resuming a   *)
(* project (projects/readiness.ts) and changing its configuration          *)
(* (projects/configuration.ts).                                            *)
(*                                                                         *)
(* Every operation is one SQLite transaction, hence one action.  QueueSpec *)
(* lets callers invoke the operations in any order the operations' own     *)
(* guards accept; Dispatcher restricts it to the order of its one caller.  *)
(*                                                                         *)
(* A Run's identifier is computed from the request that reserves it        *)
(* (queueRunId), so it is the same value in every call about a row: run_id *)
(* is the BOOLEAN "the row is linked to its Run".                          *)
(***************************************************************************)
EXTENDS Integers, FiniteSets

CONSTANTS
    NumProjects,  \* projects are numbered in their (created_at, project_id) order
    MaxRequests,  \* bound: rows ever inserted
    MaxRevision,  \* bound: configuration changes per project
    Triggers,     \* sources that submit requests, out of TriggerSources
    Commits,      \* commits a target can be fixed to
    NoCommit      \* SQL NULL in a commit column

TriggerSources == {"git", "schedule", "manual"}

ASSUME QueueAssumption ==
    /\ NumProjects \in Nat \ {0}
    /\ MaxRequests \in Nat
    /\ MaxRevision \in Nat
    /\ Triggers \subseteq TriggerSources
    /\ NoCommit \notin Commits

VARIABLES
    rows,           \* test_request_queue, by queue_id
    lastId,         \* the AUTOINCREMENT counter of queue_id
    projectStatus,  \* projects.status
    revision,       \* projects.config_revision
    semantics,      \* version of the test-semantic fields of project_config
    cursor          \* system_metadata.last_scheduled_project_id, 0 when absent

queueVars == <<rows, lastId, projectStatus, revision, semantics, cursor>>
adminVars == <<projectStatus, revision, semantics>>
-----------------------------------------------------------------------------
Projects == 1..NumProjects
RequestIds == 1..MaxRequests

Kinds == {"automatic-head", "manual-current-head", "manual-merge-source"}
Pending == {"queued", "running", "waiting_archive"}
Terminal == {"completed", "failed", "interrupted"}
ArchiveStatus == {"completed", "partial", "failed"}

Row == [status: {"absent"} \cup Pending \cup Terminal,
        project: 0..NumProjects,
        kind: {"none"} \cup Kinds,
        sources: SUBSET Triggers,
        revision: Nat,
        semantics: Nat,
        prepared: {NoCommit} \cup Commits,
        resolved: {NoCommit} \cup Commits,
        run: BOOLEAN,
        archive: {"none"} \cup ArchiveStatus]

\* A queue_id that has not been allocated yet.
NoRow == [status |-> "absent", project |-> 0, kind |-> "none", sources |-> {},
          revision |-> 0, semantics |-> 0, prepared |-> NoCommit,
          resolved |-> NoCommit, run |-> FALSE, archive |-> "none"]

QueueTypeOK ==
    /\ rows \in [RequestIds -> Row]
    /\ lastId \in 0..MaxRequests
    /\ projectStatus \in [Projects -> {"active", "paused"}]
    /\ revision \in [Projects -> Nat]
    /\ semantics \in [Projects -> Nat]
    /\ cursor \in 0..NumProjects
    /\ \A q \in RequestIds : q > lastId <=> rows[q].status = "absent"
    /\ \A q \in RequestIds : q <= lastId => rows[q].project \in Projects

\* The rows of project p in one of the given statuses.
RowsOf(p, statuses) ==
    {q \in RequestIds : rows[q].project = p /\ rows[q].status \in statuses}

Running == {q \in RequestIds : rows[q].status = "running"}

QueueInit ==
    /\ rows = [q \in RequestIds |-> NoRow]
    /\ lastId = 0
    /\ projectStatus = [p \in Projects |-> "paused"]
    /\ revision = [p \in Projects |-> 1]
    /\ semantics = [p \in Projects |-> 1]
    /\ cursor = 0
-----------------------------------------------------------------------------
(***************************************************************************)
(* Accepting requests.                                                     *)
(***************************************************************************)
\* The queued row the new request may join: the tail of the project's queue,
\* if it is an automatic request frozen under the current configuration.
\* Automatic requests never carry the initialization flag.
MergeableTail(p, kind) ==
    {q \in RowsOf(p, {"queued"}) :
        /\ \A r \in RowsOf(p, {"queued"}) : r <= q
        /\ kind = "automatic-head"
        /\ rows[q].kind = "automatic-head"
        /\ rows[q].revision = revision[p]}

\* The row of a new request keeps the project's configuration as it is now.
NewRow(p, kind, trigger) ==
    [status |-> "queued", project |-> p, kind |-> kind, sources |-> {trigger},
     revision |-> revision[p], semantics |-> semantics[p], prepared |-> NoCommit,
     resolved |-> NoCommit, run |-> FALSE, archive |-> "none"]

\* Mutant: the identifier of a new row is not counted up.
EnqueueSameId(p, kind, trigger) ==
    /\ projectStatus[p] = "active"
    /\ kind = "automatic-head" <=> trigger # "manual"
    /\ lastId < MaxRequests
    /\ rows' = [rows EXCEPT ![lastId + 1] = NewRow(p, kind, trigger)]
    /\ UNCHANGED <<lastId, adminVars, cursor>>

\* enqueue, refused for a paused project: join the tail or insert a row.
Enqueue(p, kind, trigger) ==
    /\ projectStatus[p] = "active"
    /\ kind = "automatic-head" <=> trigger # "manual"
    /\ \/ \E q \in MergeableTail(p, kind) :
            /\ rows' = [rows EXCEPT ![q].sources = @ \cup {trigger}]
            /\ UNCHANGED lastId
       \/ /\ MergeableTail(p, kind) = {}
          /\ lastId < MaxRequests
          /\ lastId' = lastId + 1
          /\ rows' = [rows EXCEPT ![lastId + 1] = NewRow(p, kind, trigger)]
    /\ UNCHANGED <<adminVars, cursor>>
-----------------------------------------------------------------------------
(***************************************************************************)
(* Claiming: one running request over all projects, projects in turn, the  *)
(* requests of a project in their queue order.                             *)
(***************************************************************************)
\* Mutant: a pending archive does not hold up its project.
EligibleDespiteArchive == {p \in Projects : /\ projectStatus[p] = "active"
                                            /\ RowsOf(p, {"queued"}) # {}}

Eligible == {p \in Projects : /\ projectStatus[p] = "active"
                              /\ RowsOf(p, {"queued"}) # {}
                              /\ RowsOf(p, {"waiting_archive"}) = {}}

\* Mutant: the scan always starts at the first project.
DistanceFromFirst(p) == p - 1

\* How many projects the scan that starts after the cursor visits before p.
Distance(p) == (p - cursor - 1) % NumProjects

\* The eligible project the scan reaches first.
Selected(p) ==
    /\ p \in Eligible
    /\ \A o \in Eligible : Distance(p) <= Distance(o)

Oldest(q, p) ==
    /\ q \in RowsOf(p, {"queued"})
    /\ \A r \in RowsOf(p, {"queued"}) : q <= r

\* Mutant: the slot is not looked at.
ClaimableAnyTime(q) == \E p \in Projects : Selected(p) /\ Oldest(q, p)

Claimable(q) ==
    /\ Running = {}
    /\ \E p \in Projects : Selected(p) /\ Oldest(q, p)

ClaimNext(q) ==
    /\ Claimable(q)
    /\ rows' = [rows EXCEPT ![q].status = "running"]
    /\ cursor' = rows[q].project
    /\ UNCHANGED <<lastId, adminVars>>
-----------------------------------------------------------------------------
(***************************************************************************)
(* What the caller of a claimed row records about it.  An operation whose  *)
(* guard fails raises QUEUE_STATE_INVALID and changes nothing.             *)
(***************************************************************************)
\* The steps below touch one row only.
RowStep == UNCHANGED <<lastId, adminVars, cursor>>

MarkPrepared(q, c) ==
    /\ rows[q].status = "running"
    /\ rows[q].kind = "manual-merge-source"
    /\ rows[q].prepared = NoCommit
    /\ rows' = [rows EXCEPT ![q].prepared = c]
    /\ RowStep

\* Mutant: the target is not compared with the prepared merge.
MarkResolvedUnchecked(q, c) ==
    /\ \/ rows[q].resolved = c
       \/ /\ rows[q].resolved = NoCommit
          /\ rows[q].status = "running" \/ rows[q].run
    /\ rows' = [rows EXCEPT ![q].resolved = c]
    /\ RowStep

\* Fixing the target; recording the same target again is accepted.
MarkResolved(q, c) ==
    /\ rows[q].kind = "manual-merge-source" => rows[q].prepared = c
    /\ \/ rows[q].resolved = c
       \/ /\ rows[q].resolved = NoCommit
          /\ rows[q].status = "running" \/ rows[q].run
    /\ rows' = [rows EXCEPT ![q].resolved = c]
    /\ RowStep

MarkStarted(q) ==
    /\ rows[q].status = "running"
    /\ rows' = [rows EXCEPT ![q].run = TRUE]
    /\ RowStep

\* Mutant: a request with a Run is put back too.
RequeueAny(q) ==
    /\ rows[q].status = "running"
    /\ rows' = [rows EXCEPT ![q].status = "queued"]
    /\ RowStep

Requeue(q) ==
    /\ rows[q].status = "running"
    /\ ~rows[q].run
    /\ rows' = [rows EXCEPT ![q].status = "queued"]
    /\ RowStep

MarkWaitingArchive(q) ==
    /\ rows[q].status = "running"
    /\ rows' = [rows EXCEPT ![q].status = "waiting_archive", ![q].run = TRUE]
    /\ RowStep

Complete(q, result) ==
    /\ rows[q].status \in {"running", "waiting_archive"}
    /\ rows' = [rows EXCEPT ![q].status = "completed",
                            ![q].run = TRUE,
                            ![q].archive = result]
    /\ RowStep

RecordArchiveRetry(q, result) ==
    /\ rows[q].status = "completed"
    /\ rows[q].run
    /\ rows[q].archive \in {"failed", "partial"}
    /\ rows' = [rows EXCEPT ![q].archive = result]
    /\ RowStep

\* Mutant: a request that has ended can fail.
FailAny(q, status) ==
    /\ rows[q].status # "absent"
    /\ rows' = [rows EXCEPT ![q].status = status]
    /\ RowStep

Fail(q, status) ==
    /\ rows[q].status \in Pending
    /\ rows' = [rows EXCEPT ![q].status = status]
    /\ RowStep
-----------------------------------------------------------------------------
(***************************************************************************)
(* The administrator.                                                      *)
(***************************************************************************)
Pause(p) ==
    /\ projectStatus' = [projectStatus EXCEPT ![p] = "paused"]
    /\ UNCHANGED <<rows, lastId, revision, semantics, cursor>>

\* The transaction that ends a successful readiness check.
Activate(p) ==
    /\ projectStatus' = [projectStatus EXCEPT ![p] = "active"]
    /\ UNCHANGED <<rows, lastId, revision, semantics, cursor>>

\* Mutant: a pending archive does not keep the configuration.
UpdateConfigurationEarly(p, semanticChange) ==
    /\ revision[p] <= MaxRevision
    /\ semanticChange => RowsOf(p, {"queued", "running"}) = {}
    /\ revision' = [revision EXCEPT ![p] = @ + 1]
    /\ semantics' = [semantics EXCEPT ![p] = IF semanticChange THEN @ + 1 ELSE @]
    /\ UNCHANGED <<rows, lastId, projectStatus, cursor>>

\* update: every change bumps the revision; one that touches a test-semantic
\* field is refused while the project has a pending request.
UpdateConfiguration(p, semanticChange) ==
    /\ revision[p] <= MaxRevision
    /\ semanticChange => RowsOf(p, Pending) = {}
    /\ revision' = [revision EXCEPT ![p] = @ + 1]
    /\ semantics' = [semantics EXCEPT ![p] = IF semanticChange THEN @ + 1 ELSE @]
    /\ UNCHANGED <<rows, lastId, projectStatus, cursor>>
-----------------------------------------------------------------------------
RowOperation(q) ==
    \/ ClaimNext(q)
    \/ \E c \in Commits : MarkPrepared(q, c) \/ MarkResolved(q, c)
    \/ MarkStarted(q)
    \/ Requeue(q)
    \/ MarkWaitingArchive(q)
    \/ \E result \in ArchiveStatus : Complete(q, result) \/ RecordArchiveRetry(q, result)
    \/ \E status \in {"failed", "interrupted"} : Fail(q, status)

ProjectOperation(p) ==
    \/ \E kind \in Kinds, trigger \in Triggers : Enqueue(p, kind, trigger)
    \/ Pause(p)
    \/ Activate(p)
    \/ \E semanticChange \in BOOLEAN : UpdateConfiguration(p, semanticChange)

QueueNext ==
    \/ \E q \in RequestIds : RowOperation(q)
    \/ \E p \in Projects : ProjectOperation(p)

QueueSpec == QueueInit /\ [][QueueNext]_queueVars
-----------------------------------------------------------------------------
(***************************************************************************)
(* Properties.                                                             *)
(***************************************************************************)
\* One execution slot for the whole deployment: whatever the order of claims,
\* completions, requeues and failures, at most one request is running.
OneRunning == \A q, r \in Running : q = r

\* A project's requests are worked on strictly in queue order: a request that
\* has been claimed and not failed has no older unfinished request of its
\* project behind it, not even one that a restart has put back or one whose
\* archive is pending.
OldestFirst ==
    \A q, r \in RequestIds :
        /\ r < q
        /\ rows[r].project = rows[q].project
        /\ rows[q].status \in {"running", "waiting_archive", "completed"}
        => rows[r].status \in Terminal

\* A pending request is executed under the test-semantic configuration its
\* project still has: no accepted change slips under a request that was
\* enqueued, coalesced, requeued or left waiting for its archive.
PendingSnapshotCurrent ==
    \A q \in RequestIds :
        rows[q].status \in Pending => rows[q].semantics = semantics[rows[q].project]

\* A merge request tests the commit that was prepared for it and no other,
\* through every requeue.
ResolvedIsPrepared ==
    \A q \in RequestIds :
        rows[q].kind = "manual-merge-source" /\ rows[q].resolved # NoCommit
        => rows[q].resolved = rows[q].prepared

\* Once fixed, the target, the prepared merge and the link to the Run of a
\* request never change, and a finished request never becomes pending again:
\* no sequence of calls replays a request that has ended.
RecordedFactsStay ==
    [][\A q \in RequestIds :
        /\ rows[q].resolved # NoCommit => rows'[q].resolved = rows[q].resolved
        /\ rows[q].prepared # NoCommit => rows'[q].prepared = rows[q].prepared
        /\ rows[q].run => rows'[q].run
        /\ rows[q].status \in Terminal => rows'[q].status = rows[q].status]_rows

\* A request linked to a Run is never put back in the queue, where a claim
\* would execute it again.
LinkedRunNotQueued ==
    \A q \in RequestIds : rows[q].run => rows[q].status # "queued"
=============================================================================
