--------------------------- MODULE DispatcherProofs ---------------------------
(***************************************************************************)
(* Theorems about Dispatcher for any number of projects, requests, commits *)
(* and crashes: it takes only steps the queue allows, so that the queue's  *)
(* theorems hold of it, and it orphans neither the execution slot nor an   *)
(* archive.                                                                *)
(***************************************************************************)
EXTENDS Dispatcher, TestRequestQueueProofs

\* Where the loop has a request in hand.
Working == {"claimed", "ref_made", "prepared", "published", "resolved", "started",
            "executing", "executed", "failing"}

\* The loop's request is the running one until it is given up or handed over.
DrainRow ==
    /\ drain.at \in Working => drain.q \in RequestIds /\ rows[drain.q].status = "running"
    /\ drain.at = "cleanup" => drain.q \in RequestIds /\ rows[drain.q].status \in Terminal

\* What a step of the loop is about to record is a commit.
DrainData ==
    /\ drain.at = "ref_made" => internalRef[drain.q] \in Commits
    /\ drain.at = "prepared" => rows[drain.q].prepared \in Commits
    /\ drain.at = "published" => published[drain.q] \in Commits

\* Nothing drains before the recovery has seen every row in flight, and nothing
\* ticks before it has ended.
Phases ==
    /\ recovery.at \in {"scan", "cleanup"} => drain.at = "idle"
    /\ recovery.at \notin {"scan", "cleanup"} => recovery.todo = {}
    /\ tick.at # "idle" => recovery.at = "done"

\* A worker's row is where the worker expects it, and nobody else's.
WorkerRows ==
    \A w \in workers :
        /\ w.phase = "archiving" /\ w.by # "retry" => rows[w.q].status = "waiting_archive"
        /\ w.phase = "cleanup" \/ w.by = "retry" => rows[w.q].status = "completed"
        /\ w.q \notin recovery.todo
        /\ w.q \notin deferred

DeferredRows == \A q \in deferred : rows[q].status = "waiting_archive" /\ q \notin recovery.todo

\* What the tick listed is still deferred, or archived once already.
TickRows == \A q \in tick.todo : q \in deferred \/ rows[q].status = "completed"

Control ==
    /\ DrainRow
    /\ DrainData
    /\ Phases
    /\ WorkerRows
    /\ OneArchiver
    /\ DeferredRows
    /\ TickRows
    /\ SlotOwned
    /\ PendingArchiveDriven

DispatcherInv == IndInv /\ DispatcherTypeOK /\ Control
-----------------------------------------------------------------------------
(***************************************************************************)
(* Every step is a step of the queue.                                      *)
(***************************************************************************)
LEMMA DrainIsQueueStep ==
  ASSUME DispatcherTypeOK, DrainRow, DrainData, DrainStep
  PROVE  [QueueNext]_queueVars
<1> DEFINE q == drain.q
<1>1. CASE DrainWait \/ DrainExit \/ StepFails \/ ReuseTarget \/ MakeMergeRef \/ ReusePrepared
           \/ PublishMerge \/ StartRun \/ RunCompletes \/ RunFails \/ DrainCleanup
  BY <1>1 DEF DrainWait, DrainExit, StepFails, ReuseTarget, MakeMergeRef, ReusePrepared,
     PublishMerge, StartRun, RunCompletes, RunFails, DrainCleanup, CleanedRef
<1>2. CASE DrainClaim
  BY <1>2 DEF DrainClaim, QueueNext, RowOperation
<1>3. CASE ServicesFail \/ RecordFailed
  <2>1. q \in RequestIds /\ \E status \in {"failed", "interrupted"} : Fail(q, status)
    BY <1>3 DEF ServicesFail, RecordFailed, DrainRow, Working
  <2> QED BY <2>1 DEF QueueNext, RowOperation
<1>4. CASE ResolveHead
  <2>1. q \in RequestIds /\ \E c \in Commits : MarkResolved(q, c)
    BY <1>4 DEF ResolveHead, DrainRow, Working
  <2> QED BY <2>1 DEF QueueNext, RowOperation
<1>5. CASE RecordPrepared
  <2>1. q \in RequestIds /\ \E c \in Commits : MarkPrepared(q, c)
    BY <1>5 DEF RecordPrepared, DrainRow, DrainData, Working
  <2> QED BY <2>1 DEF QueueNext, RowOperation
<1>6. CASE RecordPublished
  <2>1. q \in RequestIds /\ \E c \in Commits : MarkResolved(q, c)
    BY <1>6 DEF RecordPublished, DrainRow, DrainData, Working
  <2> QED BY <2>1 DEF QueueNext, RowOperation
<1>7. CASE RecordStarted
  <2>1. q \in RequestIds /\ MarkStarted(q)
    BY <1>7 DEF RecordStarted, DrainRow, Working
  <2> QED BY <2>1 DEF QueueNext, RowOperation
<1>8. CASE RecordExecuted
  <2>1. q \in RequestIds /\ MarkWaitingArchive(q)
    BY <1>8 DEF RecordExecuted, DrainRow, Working
  <2> QED BY <2>1 DEF QueueNext, RowOperation
<1> QED BY <1>1, <1>2, <1>3, <1>4, <1>5, <1>6, <1>7, <1>8 DEF DrainStep

LEMMA WorkerIsQueueStep ==
  ASSUME DispatcherTypeOK, NEW w \in workers, WorkerStep(w)
  PROVE  [QueueNext]_queueVars
<1>1. w.q \in RequestIds
  BY DEF DispatcherTypeOK
<1>2. CASE ArchiveEnds(w)
  BY <1>1, <1>2 DEF ArchiveEnds, QueueNext, RowOperation
<1>3. CASE RetryEnds(w)
  BY <1>1, <1>3 DEF RetryEnds, QueueNext, RowOperation
<1>4. CASE WorkerCleanup(w)
  BY <1>4 DEF WorkerCleanup, CleanedRef
<1> QED BY <1>2, <1>3, <1>4 DEF WorkerStep

LEMMA RecoveryIsQueueStep == RecoveryStep => [QueueNext]_queueVars
<1>1. ASSUME NEW q \in RequestIds, Defer(q) \/ ResumeArchive(q)
      PROVE  UNCHANGED queueVars
  BY <1>1 DEF Defer, ResumeArchive
<1>2. ASSUME NEW q \in RequestIds,
             RecoveryServicesFail(q) \/ PutBack(q) \/ AdoptRun(q) \/ ArchiveFinishedRun(q)
             \/ InterruptRun(q)
      PROVE  RowOperation(q)
  BY <1>2 DEF RecoveryServicesFail, PutBack, AdoptRun, ArchiveFinishedRun, InterruptRun,
     RowOperation
<1>3. RecoveryCleanup \/ FirstDrain \/ SecondDrain => UNCHANGED queueVars
  BY DEF RecoveryCleanup, FirstDrain, SecondDrain, CleanedRef
<1> QED BY <1>1, <1>2, <1>3 DEF RecoveryStep, QueueNext

LEMMA TickIsQueueStep == TickStep => [QueueNext]_queueVars
<1>1. ASSUME NEW q \in RequestIds, SkipRetry(q) PROVE UNCHANGED queueVars
  BY <1>1 DEF SkipRetry, TickOnly
<1>2. ASSUME NEW q \in RequestIds, ArchiveDeferred(q) \/ RetryArchive(q)
      PROVE  RowOperation(q) \/ UNCHANGED queueVars
  BY <1>2 DEF ArchiveDeferred, RetryArchive, RowOperation, ArchiveStatus
<1>3. TickStart \/ TickRetries \/ TickDrain => UNCHANGED queueVars
  BY DEF TickStart, TickRetries, TickDrain, TickOnly
<1> QED BY <1>1, <1>2, <1>3 DEF TickStep, QueueNext

LEMMA NextIsQueueStep ==
  ASSUME DispatcherTypeOK, DrainRow, DrainData, [Next]_vars
  PROVE  [QueueNext]_queueVars
<1>1. CASE UNCHANGED vars
  BY <1>1 DEF vars
<1>2. ASSUME NEW p \in Projects, NEW trigger \in Triggers, Poll(p, trigger)
      PROVE  ProjectOperation(p)
  BY <1>2 DEF Poll, ProjectOperation, Kinds
<1>3. CASE Operator
  <2>1. ASSUME NEW p \in Projects, NEW kind \in Kinds, SubmitRun(p, kind)
        PROVE  ProjectOperation(p)
    BY <2>1, DispatcherAssumption DEF SubmitRun, ProjectOperation
  <2>2. ASSUME NEW p \in Projects, PauseProject(p) \/ ResumeProject(p)
        PROVE  ProjectOperation(p)
    BY <2>2 DEF PauseProject, ResumeProject, ProjectOperation
  <2> QED BY <1>3, <2>1, <2>2 DEF Operator, QueueNext
<1>4. CASE Crash
  BY <1>4 DEF Crash
<1> QED BY <1>1, <1>2, <1>3, <1>4, DrainIsQueueStep, WorkerIsQueueStep, RecoveryIsQueueStep,
        TickIsQueueStep DEF Next, QueueNext
-----------------------------------------------------------------------------
(***************************************************************************)
(* What the queue's operations do to the rows, as far as Control sees it.  *)
(***************************************************************************)
\* Only row q changes, and its new status is s.
Becomes(q, s) ==
    /\ \A r \in RequestIds \ {q} : rows'[r] = rows[r]
    /\ rows'[q].status = s

LEMMA RowStatus ==
  ASSUME QueueTypeOK, NEW q \in RequestIds
  PROVE  /\ ClaimNext(q) => rows[q].status = "queued" /\ Running = {} /\ Becomes(q, "running")
         /\ \A c \in Commits : MarkPrepared(q, c) =>
               /\ Becomes(q, rows[q].status)
               /\ rows[q].kind = "manual-merge-source" /\ rows'[q].prepared = c
         /\ \A c \in Commits : MarkResolved(q, c) =>
               Becomes(q, rows[q].status) /\ rows'[q].prepared = rows[q].prepared
         /\ MarkStarted(q) => Becomes(q, rows[q].status)
         /\ Requeue(q) => rows[q].status = "running" /\ Becomes(q, "queued")
         /\ MarkWaitingArchive(q) => rows[q].status = "running" /\ Becomes(q, "waiting_archive")
         /\ \A result \in ArchiveStatus : Complete(q, result) => Becomes(q, "completed")
         /\ \A result \in ArchiveStatus :
               RecordArchiveRetry(q, result) =>
                  rows[q].status = "completed" /\ Becomes(q, "completed")
         /\ \A status \in {"failed", "interrupted"} :
               Fail(q, status) => rows[q].status \in Pending /\ Becomes(q, status)
<1>0. rows \in [RequestIds -> Row] /\ rows[q] \in Row
  BY DEF QueueTypeOK
<1>1. ClaimNext(q) => rows[q].status = "queued" /\ Running = {} /\ Becomes(q, "running")
  BY <1>0 DEF ClaimNext, Claimable, Oldest, RowsOf, Becomes, Row
<1>2. ASSUME NEW c \in Commits, MarkPrepared(q, c)
      PROVE  /\ Becomes(q, rows[q].status)
             /\ rows[q].kind = "manual-merge-source" /\ rows'[q].prepared = c
  BY <1>0, <1>2 DEF MarkPrepared, Becomes, Row
<1>3. ASSUME NEW c \in Commits, MarkResolved(q, c)
      PROVE  Becomes(q, rows[q].status) /\ rows'[q].prepared = rows[q].prepared
  BY <1>0, <1>3 DEF MarkResolved, Becomes, Row
<1>4. MarkStarted(q) => Becomes(q, rows[q].status)
  BY <1>0 DEF MarkStarted, Becomes, Row
<1>5. Requeue(q) => rows[q].status = "running" /\ Becomes(q, "queued")
  BY <1>0 DEF Requeue, Becomes, Row
<1>6. MarkWaitingArchive(q) => rows[q].status = "running" /\ Becomes(q, "waiting_archive")
  BY <1>0 DEF MarkWaitingArchive, Becomes, Row
<1>7. ASSUME NEW result \in ArchiveStatus, Complete(q, result) PROVE Becomes(q, "completed")
  BY <1>0, <1>7 DEF Complete, Becomes, Row
<1>8. ASSUME NEW result \in ArchiveStatus, RecordArchiveRetry(q, result)
      PROVE  rows[q].status = "completed" /\ Becomes(q, "completed")
  BY <1>0, <1>8 DEF RecordArchiveRetry, Becomes, Row
<1>9. ASSUME NEW status \in {"failed", "interrupted"}, Fail(q, status)
      PROVE  rows[q].status \in Pending /\ Becomes(q, status)
  BY <1>0, <1>9 DEF Fail, Becomes, Row
<1> QED BY <1>1, <1>2, <1>3, <1>4, <1>5, <1>6, <1>7, <1>8, <1>9

\* An enqueue touches queued and unallocated rows only.
LEMMA EnqueueStatus ==
  ASSUME QueueTypeOK, NEW p \in Projects, NEW kind \in Kinds, NEW trigger \in Triggers,
         Enqueue(p, kind, trigger), NEW r \in RequestIds
  PROVE  \/ rows'[r] = rows[r]
         \/ rows[r].status \in {"absent", "queued"} /\ rows'[r].status = "queued"
<1>0. rows \in [RequestIds -> Row] /\ lastId \in 0..MaxRequests
  BY DEF QueueTypeOK
<1>1. ASSUME NEW q \in MergeableTail(p, kind),
             rows' = [rows EXCEPT ![q].sources = @ \cup {trigger}]
      PROVE  \/ rows'[r] = rows[r]
             \/ rows[r].status = "queued" /\ rows'[r].status = "queued"
  <2>1. q \in RequestIds /\ rows[q].status = "queued"
    BY DEF MergeableTail, RowsOf
  <2> QED BY <1>0, <1>1, <2>1 DEF Row
<1>2. ASSUME rows' = [rows EXCEPT ![lastId + 1] = NewRow(p, kind, trigger)]
      PROVE  \/ rows'[r] = rows[r]
             \/ rows[r].status = "absent" /\ rows'[r].status = "queued"
  BY <1>0, <1>2 DEF QueueTypeOK, RequestIds, NewRow
<1> QED BY <1>1, <1>2 DEF Enqueue
-----------------------------------------------------------------------------
(***************************************************************************)
(* The loop's steps keep Control.                                          *)
(***************************************************************************)
\* A step within the work on one request moves no row to another status.
LEMMA StillWorking ==
  ASSUME DispatcherTypeOK, Control, drain.at \in Working, drain'.at \in Working, drain'.q = drain.q,
         \A r \in RequestIds : rows'[r].status = rows[r].status,
         UNCHANGED <<workers, recovery, deferred, tick>>, DrainData'
  PROVE  Control'
<1> USE DEF Control
<1>1. DrainRow'
  BY DEF DrainRow, Working
<1>2. Phases'
  BY DEF Phases, Working
<1>3. WorkerRows' /\ OneArchiver' /\ DeferredRows' /\ TickRows'
  BY DEF WorkerRows, OneArchiver, DeferredRows, TickRows, DispatcherTypeOK
<1>4. SlotOwned'
  BY DEF SlotOwned, Running, Working
<1>5. PendingArchiveDriven'
  BY DEF PendingArchiveDriven
<1> QED BY <1>1, <1>2, <1>3, <1>4, <1>5

LEMMA DrainKeepsControl ==
  ASSUME DispatcherTypeOK, Control, DrainStep
  PROVE  Control'
<1> DEFINE q == drain.q
<1>0. QueueTypeOK /\ drain \in [at: DrainAt, q: 0..MaxRequests]
  BY DEF DispatcherTypeOK
<1>1. CASE StepFails \/ ReuseTarget \/ StartRun \/ RunCompletes \/ RunFails
  <2>1. /\ drain.at \in Working /\ drain' = At(drain'.at, q)
        /\ drain'.at \in {"failing", "resolved", "started", "executed"}
        /\ UNCHANGED <<rows, workers, recovery, deferred, tick>>
    BY <1>1 DEF StepFails, ReuseTarget, StartRun, RunCompletes, RunFails, Goto, At, DrainOnly,
       queueVars, Working
  <2>2. DrainData'
    BY <2>1 DEF DrainData
  <2> QED BY <2>1, <2>2, StillWorking DEF Working, At
<1>2. CASE MakeMergeRef \/ ReusePrepared \/ PublishMerge
  <2>1. /\ drain.at \in Working /\ drain' = At(drain'.at, q)
        /\ drain'.at \in {"ref_made", "prepared", "published"}
        /\ UNCHANGED <<rows, workers, recovery, deferred, tick>>
    BY <1>2 DEF MakeMergeRef, ReusePrepared, PublishMerge, Goto, At, DrainOnly, queueVars, Working
  <2>2. q \in RequestIds /\ rows[q] \in Row
    BY <1>0, <2>1 DEF Control, DrainRow, QueueTypeOK
  <2>3. DrainData'
    <3>1. CASE MakeMergeRef
      BY <2>2, <3>1 DEF MakeMergeRef, Goto, At, DrainData, DispatcherTypeOK
    <3>2. CASE ReusePrepared
      BY <2>1, <2>2, <3>2 DEF ReusePrepared, Goto, At, DrainData, Row
    <3>3. CASE PublishMerge
      BY <2>2, <3>3 DEF PublishMerge, Goto, At, DrainData, DispatcherTypeOK, Control
    <3> QED BY <1>2, <3>1, <3>2, <3>3
  <2> QED BY <2>1, <2>3, StillWorking DEF Working, At
<1>3. CASE ResolveHead \/ RecordPrepared \/ RecordPublished \/ RecordStarted
  <2>1. /\ drain.at \in Working /\ drain' = At(drain'.at, q)
        /\ drain'.at \in {"resolved", "prepared", "executing"}
        /\ UNCHANGED <<workers, recovery, deferred, tick>>
    BY <1>3 DEF ResolveHead, RecordPrepared, RecordPublished, RecordStarted, Goto, At,
       DrainOnly, Working
  <2>2. q \in RequestIds
    BY <2>1 DEF Control, DrainRow
  <2>3. Becomes(q, rows[q].status) /\ (RecordPrepared => rows'[q].prepared \in Commits)
    <3>1. CASE ResolveHead
      BY <1>0, <2>2, <3>1, RowStatus DEF ResolveHead, RecordPrepared, Goto, At
    <3>2. CASE RecordPrepared
      BY <1>0, <2>2, <3>2, RowStatus DEF RecordPrepared, Control, DrainData
    <3>3. CASE RecordPublished
      BY <1>0, <2>2, <3>3, RowStatus DEF RecordPublished, RecordPrepared, Control, DrainData
    <3>4. CASE RecordStarted
      BY <1>0, <2>2, <3>4, RowStatus DEF RecordStarted, RecordPrepared
    <3> QED BY <1>3, <3>1, <3>2, <3>3, <3>4
  <2>4. DrainData'
    BY <1>3, <2>1, <2>3 DEF DrainData, ResolveHead, RecordPrepared, RecordPublished,
       RecordStarted, Goto, At
  <2> QED BY <2>1, <2>2, <2>3, <2>4, StillWorking DEF Working, At, Becomes
<1>4. CASE DrainWait \/ DrainExit \/ DrainCleanup
  <2>1. /\ UNCHANGED <<rows, workers, deferred>>
        /\ recovery'.todo = recovery.todo /\ tick'.todo = tick.todo
        /\ drain.at \in {"claim", "cleanup"} /\ drain'.at \in {"waiting", "idle", "claim"}
    BY <1>4 DEF DrainWait, DrainExit, DrainCleanup, CleanedRef, DrainOnly, At, Idle, Looping,
       queueVars, DispatcherTypeOK
  <2>2. Phases'
    BY <1>4, <2>1 DEF DrainWait, DrainExit, DrainCleanup, DrainOnly, Control, Phases, Idle,
       DispatcherTypeOK
  <2>3. DrainRow' /\ DrainData'
    BY <2>1 DEF DrainRow, DrainData, Working
  <2>4. WorkerRows' /\ OneArchiver' /\ DeferredRows' /\ TickRows'
    BY <2>1 DEF Control, WorkerRows, OneArchiver, DeferredRows, TickRows
  <2>5. SlotOwned' /\ PendingArchiveDriven'
    BY <2>1 DEF Control, SlotOwned, PendingArchiveDriven, Running
  <2> QED BY <2>2, <2>3, <2>4, <2>5 DEF Control
<1>5. CASE DrainClaim
  <2>1. PICK c \in RequestIds : ClaimNext(c) /\ drain' = At("claimed", c)
    BY <1>5 DEF DrainClaim
  <2>2. rows[c].status = "queued" /\ Running = {} /\ Becomes(c, "running")
    BY <1>0, <2>1, RowStatus
  <2>3. drain.at = "claim" /\ UNCHANGED <<workers, recovery, deferred, tick>>
    BY <1>5 DEF DrainClaim, DrainOnly
  <2> USE DEF Control
  <2>4. DrainRow' /\ DrainData' /\ Phases'
    BY <2>1, <2>2, <2>3 DEF At, DrainRow, DrainData, Phases, Working, Becomes
  <2>5. WorkerRows' /\ OneArchiver' /\ DeferredRows' /\ TickRows'
    BY <2>2, <2>3 DEF WorkerRows, OneArchiver, DeferredRows, TickRows, Becomes,
       DispatcherTypeOK
  <2>6. SlotOwned' /\ PendingArchiveDriven'
    BY <2>1, <2>2, <2>3 DEF SlotOwned, PendingArchiveDriven, Running, Becomes, At
  <2> QED BY <2>4, <2>5, <2>6
<1>6. CASE ServicesFail \/ RecordFailed
  <2>1. /\ drain.at \in Working /\ q \in RequestIds /\ rows[q].status = "running"
        /\ drain' \in {Looping, At("cleanup", q)}
        /\ UNCHANGED <<workers, recovery, deferred, tick>>
    BY <1>6 DEF ServicesFail, RecordFailed, DrainOnly, Working, Control, DrainRow
  <2>2. PICK status \in {"failed", "interrupted"} : Becomes(q, status)
    BY <1>0, <1>6, <2>1, RowStatus DEF ServicesFail, RecordFailed
  <2> USE DEF Control
  <2>3. DrainRow' /\ DrainData' /\ Phases'
    BY <2>1, <2>2 DEF At, Looping, DrainRow, DrainData, Phases, Working, Becomes, Terminal
  <2>4. WorkerRows' /\ OneArchiver' /\ DeferredRows' /\ TickRows'
    BY <2>1, <2>2 DEF WorkerRows, OneArchiver, DeferredRows, TickRows, Becomes,
       DispatcherTypeOK
  <2>5. SlotOwned' /\ PendingArchiveDriven'
    BY <2>1, <2>2 DEF SlotOwned, PendingArchiveDriven, Running, Becomes, Phases, Working
  <2> QED BY <2>3, <2>4, <2>5
<1>7. CASE RecordExecuted
  <2> DEFINE n == Archiving(q, "drain")
  <2>1. /\ drain.at \in Working /\ q \in RequestIds /\ rows[q].status = "running"
        /\ drain' = Looping /\ workers' = workers \cup {n}
        /\ UNCHANGED <<recovery, deferred, tick>>
    BY <1>7 DEF RecordExecuted, Working, Control, DrainRow
  <2>2. Becomes(q, "waiting_archive")
    BY <1>0, <1>7, <2>1, RowStatus DEF RecordExecuted
  <2>3. n.q = q /\ n.by = "drain" /\ n.phase = "archiving"
    BY DEF Archiving
  <2>4. recovery.todo = {} /\ \A w \in workers : w.q # q
    BY <2>1 DEF Control, Phases, WorkerRows, Working, DispatcherTypeOK
  <2> HIDE DEF n
  <2> USE DEF Control
  <2>5. DrainRow' /\ DrainData' /\ Phases'
    BY <2>1, <2>4 DEF At, Looping, DrainRow, DrainData, Phases, Working
  <2>6. WorkerRows'
    BY <2>1, <2>2, <2>3, <2>4 DEF WorkerRows, DeferredRows, Becomes, DispatcherTypeOK
  <2>7. OneArchiver'
    BY <2>1, <2>3, <2>4 DEF OneArchiver
  <2>8. DeferredRows' /\ TickRows'
    BY <2>1, <2>2, <2>4 DEF DeferredRows, TickRows, Becomes, DispatcherTypeOK
  <2>9. SlotOwned' /\ PendingArchiveDriven'
    BY <2>1, <2>2, <2>3, <2>4 DEF SlotOwned, PendingArchiveDriven, Running, Becomes
  <2> QED BY <2>5, <2>6, <2>7, <2>8, <2>9
<1> QED BY <1>1, <1>2, <1>3, <1>4, <1>5, <1>6, <1>7 DEF DrainStep
-----------------------------------------------------------------------------
(***************************************************************************)
(* The workers' steps keep Control.                                        *)
(***************************************************************************)
\* The loop that is woken up drops nothing: it slept, so it had no request.
LEMMA Woken ==
  ASSUME DispatcherTypeOK, Control, NEW w \in workers, Ends(w), recovery' = recovery, tick' = tick
  PROVE  /\ workers' = workers \ {w}
         /\ drain' = drain \/ (drain.at = "waiting" /\ drain' = Looping)
         /\ Phases'
  BY DEF Ends, Control, Phases, Looping, At

LEMMA WorkerKeepsControl ==
  ASSUME DispatcherTypeOK, Control, NEW w \in workers, WorkerStep(w)
  PROVE  Control'
<1>0. /\ QueueTypeOK /\ w.q \in RequestIds
      /\ workers \subseteq [q: RequestIds, by: Caller, phase: {"archiving", "cleanup"}]
  BY DEF DispatcherTypeOK
<1> USE DEF Control
<1>1. CASE ArchiveEnds(w)
  <2> DEFINE n == [w EXCEPT !.phase = "cleanup"]
  <2>1. /\ w.phase = "archiving" /\ w.by # "retry" /\ rows[w.q].status = "waiting_archive"
        /\ UNCHANGED <<recovery, deferred, tick, internalRef, published>>
    BY <1>1 DEF ArchiveEnds, WorkerRows, durableVars
  <2>2. Becomes(w.q, "completed")
    BY <1>0, <1>1, RowStatus DEF ArchiveEnds
  <2>3. n.q = w.q /\ n.by = w.by /\ n.phase = "cleanup"
    BY <1>0
  <2>4. \/ workers' = (workers \ {w}) \cup {n} /\ drain' = drain
        \/ Ends(w)
    BY <1>1 DEF ArchiveEnds
  <2>5. Phases' /\ (drain' = drain \/ (drain.at = "waiting" /\ drain' = Looping))
    BY <2>1, <2>4, Woken DEF Phases
  <2>6. workers' \subseteq (workers \ {w}) \cup {n} /\ workers \ {w} \subseteq workers'
    BY <2>4 DEF Ends
  <2>7. \A v \in workers \ {w} : v.q # w.q
    BY <1>0, <2>1 DEF WorkerRows, OneArchiver
  <2> HIDE DEF n
  <2>8. DrainRow' /\ DrainData'
    BY <1>0, <2>1, <2>2, <2>5 DEF DrainRow, DrainData, Becomes, Looping, At, Working, Terminal
  <2>9. WorkerRows'
    BY <1>0, <2>1, <2>2, <2>3, <2>6, <2>7 DEF WorkerRows, Becomes
  <2>10. OneArchiver'
    BY <1>0, <2>3, <2>6, <2>7 DEF OneArchiver
  <2>11. DeferredRows' /\ TickRows'
    BY <1>0, <2>1, <2>2 DEF DeferredRows, TickRows, WorkerRows, Becomes, DispatcherTypeOK
  <2>12. SlotOwned'
    BY <1>0, <2>1, <2>2, <2>5 DEF SlotOwned, Running, Becomes, Looping, At
  <2>13. PendingArchiveDriven'
    BY <1>0, <2>1, <2>2, <2>6 DEF PendingArchiveDriven, Becomes
  <2> QED BY <2>5, <2>8, <2>9, <2>10, <2>11, <2>12, <2>13
<1>2. CASE WorkerCleanup(w) \/ RetryEnds(w)
  <2>1. /\ w.phase = "cleanup" \/ w.by = "retry"
        /\ Ends(w) /\ UNCHANGED <<recovery, deferred, tick, published>>
    BY <1>2 DEF WorkerCleanup, RetryEnds, CleanedRef, durableVars
  <2>2. rows[w.q].status = "completed"
    BY <2>1 DEF WorkerRows
  <2>3. \A r \in RequestIds : /\ rows'[r].status = rows[r].status
                              /\ r # w.q => rows'[r] = rows[r] /\ internalRef'[r] = internalRef[r]
    <3>1. CASE WorkerCleanup(w)
      BY <1>0, <3>1 DEF WorkerCleanup, CleanedRef, queueVars, DispatcherTypeOK
    <3>2. CASE RetryEnds(w)
      BY <1>0, <2>2, <3>2, RowStatus DEF RetryEnds, Becomes, durableVars
    <3> QED BY <1>2, <3>1, <3>2
  <2>4. /\ workers' = workers \ {w} /\ Phases'
        /\ drain' = drain \/ (drain.at = "waiting" /\ drain' = Looping)
    BY <2>1, Woken
  <2>5. DrainRow' /\ DrainData'
    BY <2>1, <2>2, <2>3, <2>4 DEF DrainRow, DrainData, Looping, At, Working
  <2>6. WorkerRows' /\ OneArchiver'
    BY <1>0, <2>1, <2>3, <2>4 DEF WorkerRows, OneArchiver
  <2>7. DeferredRows' /\ TickRows'
    BY <2>1, <2>3 DEF DeferredRows, TickRows, DispatcherTypeOK
  <2>8. SlotOwned'
    BY <2>1, <2>3, <2>4 DEF SlotOwned, Running, Looping, At
  <2>9. PendingArchiveDriven'
    BY <2>1, <2>2, <2>3, <2>4 DEF PendingArchiveDriven
  <2> QED BY <2>4, <2>5, <2>6, <2>7, <2>8, <2>9
<1> QED BY <1>1, <1>2 DEF WorkerStep
-----------------------------------------------------------------------------
(***************************************************************************)
(* The recovery's steps keep Control.                                      *)
(***************************************************************************)
\* While the recovery scans, the loop has no request; the row at hand leaves the
\* list when it is somebody's, or nobody's any more.
LEMMA RecoveryKeepsControl ==
  ASSUME DispatcherTypeOK, Control, RecoveryStep
  PROVE  Control'
<1>0. QueueTypeOK /\ recovery.todo \subseteq RequestIds /\ tick.todo \subseteq RequestIds
      /\ deferred \subseteq RequestIds /\ \A w \in workers : w.q \in RequestIds
  BY DEF DispatcherTypeOK
<1> USE DEF Control
<1>1. ASSUME NEW q \in RequestIds,
             Defer(q) \/ RecoveryServicesFail(q) \/ ResumeArchive(q) \/ PutBack(q)
             \/ ArchiveFinishedRun(q) \/ InterruptRun(q)
      PROVE  Control'
  <2>1. /\ q \in recovery.todo /\ recovery'.todo = recovery.todo \ {q}
        /\ recovery'.at \in {"scan", "cleanup"}
        /\ recovery.at = "scan" /\ drain.at = "idle" /\ UNCHANGED <<drain, tick>>
    BY <1>1 DEF Defer, RecoveryServicesFail, ResumeArchive, PutBack, ArchiveFinishedRun,
       InterruptRun, Inspecting, Scanning, Dealt, RecoveryOnly, Phases, DispatcherTypeOK
  <2>2. q \notin deferred /\ \A w \in workers : w.q # q
    BY <2>1 DEF DeferredRows, WorkerRows
  <2>3. DrainRow' /\ DrainData' /\ Phases'
    BY <2>1 DEF DrainRow, DrainData, Phases, Working
  <2>4. CASE Defer(q)
    <3>1. /\ UNCHANGED <<rows, workers>> /\ deferred' = deferred \cup {q}
          /\ rows[q].status = "waiting_archive"
      BY <2>4 DEF Defer, AwaitsCutover, queueVars
    <3>2. WorkerRows' /\ OneArchiver' /\ DeferredRows' /\ TickRows'
      BY <2>1, <2>2, <3>1 DEF WorkerRows, OneArchiver, DeferredRows, TickRows
    <3>3. SlotOwned' /\ PendingArchiveDriven'
      BY <2>1, <3>1 DEF SlotOwned, PendingArchiveDriven, Running
    <3> QED BY <2>3, <3>2, <3>3
  <2>5. CASE RecoveryServicesFail(q) \/ PutBack(q) \/ InterruptRun(q)
    <3>1. UNCHANGED <<workers, deferred>>
      BY <2>5 DEF RecoveryServicesFail, PutBack, InterruptRun, RecoveryOnly
    <3>2. PICK s \in {"queued", "interrupted"} : Becomes(q, s) /\ rows[q].status \in Pending
      BY <1>0, <2>5, RowStatus DEF RecoveryServicesFail, PutBack, InterruptRun, Pending
    <3>3. WorkerRows' /\ OneArchiver' /\ DeferredRows'
      BY <1>0, <2>1, <2>2, <3>1, <3>2 DEF WorkerRows, OneArchiver, DeferredRows, Becomes
    <3>4. TickRows'
      BY <1>0, <2>1, <2>2, <3>1, <3>2 DEF TickRows, Becomes, Pending
    <3>5. SlotOwned' /\ PendingArchiveDriven'
      BY <1>0, <2>1, <3>1, <3>2 DEF SlotOwned, PendingArchiveDriven, Running, Becomes
    <3> QED BY <2>3, <3>3, <3>4, <3>5
  <2>6. CASE ResumeArchive(q) \/ ArchiveFinishedRun(q)
    <3> DEFINE n == Archiving(q, "recovery")
    <3>1. workers' = workers \cup {n} /\ deferred' = deferred
      BY <2>6 DEF ResumeArchive, ArchiveFinishedRun, RecoveryOnly
    <3>2. Becomes(q, "waiting_archive") /\ rows[q].status \in {"running", "waiting_archive"}
      <4>1. CASE ResumeArchive(q)
        BY <4>1 DEF ResumeArchive, Becomes, queueVars
      <4>2. CASE ArchiveFinishedRun(q)
        BY <1>0, <4>2, RowStatus DEF ArchiveFinishedRun
      <4> QED BY <2>6, <4>1, <4>2
    <3>3. n.q = q /\ n.by = "recovery" /\ n.phase = "archiving"
      BY DEF Archiving
    <3> HIDE DEF n
    <3>4. WorkerRows'
      BY <1>0, <2>1, <2>2, <3>1, <3>2, <3>3 DEF WorkerRows, Becomes
    <3>5. OneArchiver'
      BY <2>2, <3>1, <3>3 DEF OneArchiver
    <3>6. DeferredRows' /\ TickRows'
      BY <1>0, <2>1, <2>2, <3>1, <3>2 DEF DeferredRows, TickRows, Becomes
    <3>7. SlotOwned' /\ PendingArchiveDriven'
      BY <1>0, <2>1, <3>1, <3>2, <3>3 DEF SlotOwned, PendingArchiveDriven, Running, Becomes
    <3> QED BY <2>3, <3>4, <3>5, <3>6, <3>7
  <2> QED BY <1>1, <2>4, <2>5, <2>6
<1>2. ASSUME NEW q \in RequestIds, AdoptRun(q) PROVE Control'
  <2>1. /\ drain.at = "idle" /\ UNCHANGED <<drain, workers, recovery, deferred, tick>>
    BY <1>2 DEF AdoptRun, Inspecting, Scanning, RecoveryOnly, Phases
  <2>2. \A r \in RequestIds : rows'[r].status = rows[r].status
    BY <1>0, <1>2, RowStatus DEF AdoptRun, Becomes
  <2>3. DrainRow' /\ DrainData' /\ Phases'
    BY <2>1 DEF DrainRow, DrainData, Phases, Working
  <2>4. WorkerRows' /\ OneArchiver' /\ DeferredRows' /\ TickRows'
    BY <1>0, <2>1, <2>2 DEF WorkerRows, OneArchiver, DeferredRows, TickRows
  <2>5. SlotOwned' /\ PendingArchiveDriven'
    BY <2>1, <2>2 DEF SlotOwned, PendingArchiveDriven, Running
  <2> QED BY <2>3, <2>4, <2>5
<1>3. CASE RecoveryCleanup \/ FirstDrain \/ SecondDrain
  <2>1. /\ UNCHANGED <<rows, workers, deferred, tick>> /\ recovery'.todo = recovery.todo
        /\ drain.at = "idle" /\ drain' \in {drain, Looping}
    BY <1>3 DEF RecoveryCleanup, FirstDrain, SecondDrain, CleanedRef, StartDrain, queueVars,
       Phases, DispatcherTypeOK
  <2>2. Phases'
    BY <1>3, <2>1 DEF RecoveryCleanup, FirstDrain, SecondDrain, Phases, DispatcherTypeOK
  <2>3. DrainRow' /\ DrainData'
    BY <2>1 DEF DrainRow, DrainData, Working, Looping, At
  <2>4. WorkerRows' /\ OneArchiver' /\ DeferredRows' /\ TickRows'
    BY <2>1 DEF WorkerRows, OneArchiver, DeferredRows, TickRows
  <2>5. SlotOwned' /\ PendingArchiveDriven'
    BY <2>1 DEF SlotOwned, PendingArchiveDriven, Running
  <2> QED BY <2>2, <2>3, <2>4, <2>5
<1> QED BY <1>1, <1>2, <1>3 DEF RecoveryStep
-----------------------------------------------------------------------------
(***************************************************************************)
(* The scheduler's steps keep Control.                                     *)
(***************************************************************************)
LEMMA TickKeepsControl ==
  ASSUME DispatcherTypeOK, Control, TickStep
  PROVE  Control'
<1>0. /\ QueueTypeOK /\ tick.todo \subseteq RequestIds /\ deferred \subseteq RequestIds
      /\ \A w \in workers : w.q \in RequestIds /\ w.phase \in {"archiving", "cleanup"}
  BY DEF DispatcherTypeOK
<1> USE DEF Control
<1>1. CASE TickStart \/ TickRetries \/ TickDrain
  <2>1. /\ UNCHANGED <<rows, internalRef, published, workers, recovery, deferred>>
        /\ drain' = drain \/ (drain.at = "idle" /\ drain' = Looping)
        /\ recovery.at = "done"
    BY <1>1 DEF TickStart, TickRetries, TickDrain, TickOnly, StartDrain, Listening, queueVars,
       durableVars, Phases
  <2>2. Phases' /\ DrainRow' /\ DrainData'
    BY <2>1 DEF Phases, DrainRow, DrainData, Working, Looping, At
  <2>3. TickRows'
    BY <1>1, <2>1 DEF TickStart, TickRetries, TickDrain, TickRows, DispatcherTypeOK
  <2>4. WorkerRows' /\ OneArchiver' /\ DeferredRows'
    BY <2>1 DEF WorkerRows, OneArchiver, DeferredRows
  <2>5. SlotOwned' /\ PendingArchiveDriven'
    BY <2>1 DEF SlotOwned, PendingArchiveDriven, Running, Looping, At
  <2> QED BY <2>2, <2>3, <2>4, <2>5
<1>2. ASSUME NEW q \in RequestIds, SkipRetry(q) \/ ArchiveDeferred(q) \/ RetryArchive(q)
      PROVE  Control'
  <2>1. /\ q \in tick.todo /\ tick'.todo = tick.todo \ {q} /\ tick'.at = tick.at
        /\ recovery.at = "done" /\ recovery.todo = {}
        /\ \A w \in workers : w.by \notin {"retry", "deferred"}
        /\ UNCHANGED <<drain, recovery, internalRef, published>>
    BY <1>2 DEF SkipRetry, ArchiveDeferred, RetryArchive, Retrying, TickOnly, WorkersOf,
       durableVars, Phases, DispatcherTypeOK
  <2>2. Phases'
    BY <2>1 DEF Phases
  <2>3. CASE SkipRetry(q)
    <3>1. UNCHANGED <<rows, workers, deferred>>
      BY <2>3 DEF SkipRetry, TickOnly, queueVars
    <3>2. DrainRow' /\ DrainData' /\ SlotOwned' /\ PendingArchiveDriven'
      BY <2>1, <3>1 DEF DrainRow, DrainData, SlotOwned, PendingArchiveDriven, Running
    <3>3. WorkerRows' /\ OneArchiver' /\ DeferredRows' /\ TickRows'
      BY <2>1, <3>1 DEF WorkerRows, OneArchiver, DeferredRows, TickRows
    <3> QED BY <2>2, <3>2, <3>3
  <2>4. CASE ArchiveDeferred(q) /\ workers' # workers
    <3> DEFINE n == Archiving(q, "deferred")
    <3>1. /\ workers' = workers \cup {n} /\ deferred' = deferred \ {q} /\ UNCHANGED rows
          /\ q \in deferred /\ rows[q].status = "waiting_archive"
      BY <2>4 DEF ArchiveDeferred, queueVars, DeferredRows
    <3>2. n.q = q /\ n.by = "deferred" /\ n.phase = "archiving"
      BY DEF Archiving
    <3>3. \A w \in workers : w.q # q
      BY <3>1 DEF WorkerRows
    <3> HIDE DEF n
    <3>4. DrainRow' /\ DrainData' /\ SlotOwned' /\ PendingArchiveDriven'
      BY <2>1, <3>1, <3>2 DEF DrainRow, DrainData, SlotOwned, PendingArchiveDriven, Running
    <3>5. WorkerRows' /\ OneArchiver'
      BY <2>1, <3>1, <3>2, <3>3 DEF WorkerRows, OneArchiver
    <3>6. DeferredRows' /\ TickRows'
      BY <2>1, <3>1 DEF DeferredRows, TickRows
    <3> QED BY <2>2, <3>4, <3>5, <3>6
  <2>5. CASE ArchiveDeferred(q) /\ workers' = workers
    <3>1. /\ deferred' = deferred \ {q} /\ q \in deferred /\ rows[q].status = "waiting_archive"
          /\ \A w \in workers : w.q # q
      BY <2>5 DEF ArchiveDeferred, DeferredRows, WorkerRows
    <3>2. Becomes(q, "completed")
      <4>1. Archiving(q, "deferred") \notin workers
        BY <3>1 DEF Archiving
      <4>2. Complete(q, "failed")
        BY <2>5, <4>1 DEF ArchiveDeferred
      <4> QED BY <1>0, <4>2, RowStatus DEF ArchiveStatus
    <3>3. DrainRow' /\ DrainData' /\ SlotOwned' /\ PendingArchiveDriven'
      BY <1>0, <2>1, <2>5, <3>1, <3>2 DEF DrainRow, DrainData, SlotOwned, PendingArchiveDriven,
         Running, Becomes, Working, Terminal
    <3>4. WorkerRows' /\ OneArchiver'
      BY <1>0, <2>1, <2>5, <3>1, <3>2 DEF WorkerRows, OneArchiver, Becomes
    <3>5. DeferredRows' /\ TickRows'
      BY <1>0, <2>1, <3>1, <3>2 DEF DeferredRows, TickRows, Becomes
    <3> QED BY <2>2, <3>3, <3>4, <3>5
  <2>6. CASE RetryArchive(q)
    <3> DEFINE n == Archiving(q, "retry")
    <3>1. /\ rows[q].status = "completed" /\ q \notin deferred /\ deferred' = deferred
          /\ workers' \in {workers, workers \cup {n}}
      BY <2>1, <2>6 DEF RetryArchive, TickRows
    <3>2. \A r \in RequestIds : /\ rows'[r].status = rows[r].status
                                /\ r # q => rows'[r] = rows[r]
      BY <1>0, <2>6, RowStatus DEF RetryArchive, Becomes, ArchiveStatus, queueVars
    <3>3. n.q = q /\ n.by = "retry" /\ n.phase = "archiving"
      BY DEF Archiving
    <3>4. \A w \in workers : w.phase = "archiving" => w.q # q
      BY <2>1, <3>1 DEF WorkerRows
    <3> HIDE DEF n
    <3>5. DrainRow' /\ DrainData'
      BY <2>1, <3>1, <3>2 DEF DrainRow, DrainData, Working
    <3>6. SlotOwned' /\ PendingArchiveDriven'
      BY <1>0, <2>1, <3>1, <3>2 DEF SlotOwned, PendingArchiveDriven, Running
    <3>7. WorkerRows'
      BY <1>0, <2>1, <3>1, <3>2, <3>3 DEF WorkerRows
    <3>8. OneArchiver'
      BY <3>1, <3>3, <3>4 DEF OneArchiver
    <3>9. DeferredRows' /\ TickRows'
      BY <1>0, <2>1, <3>1, <3>2 DEF DeferredRows, TickRows
    <3> QED BY <2>2, <3>5, <3>6, <3>7, <3>8, <3>9
  <2> QED BY <1>2, <2>3, <2>4, <2>5, <2>6
<1> QED BY <1>1, <1>2 DEF TickStep
-----------------------------------------------------------------------------
(***************************************************************************)
(* Submissions, pauses, resumes and crashes keep Control.                  *)
(***************************************************************************)
LEMMA SubmissionKeepsControl ==
  ASSUME DispatcherTypeOK, Control,
         NEW p \in Projects, NEW kind \in Kinds, NEW trigger \in Triggers,
         Enqueue(p, kind, trigger),
         drain' = drain \/ (drain.at = "idle" /\ drain' = Looping /\ recovery.at = "done"),
         UNCHANGED <<internalRef, published, workers, recovery, deferred, tick>>
  PROVE  Control'
<1>0. /\ QueueTypeOK /\ tick.todo \subseteq RequestIds /\ deferred \subseteq RequestIds
      /\ \A w \in workers : w.q \in RequestIds /\ w.phase \in {"archiving", "cleanup"}
  BY DEF DispatcherTypeOK
<1>1. \A r \in RequestIds :
        \/ rows'[r] = rows[r]
        \/ rows[r].status \in {"absent", "queued"} /\ rows'[r].status = "queued"
  BY <1>0, EnqueueStatus
<1> USE DEF Control
<1>2. DrainRow' /\ DrainData' /\ Phases'
  BY <1>1 DEF DrainRow, DrainData, Phases, Working, Terminal, Looping, At
<1>3. WorkerRows' /\ OneArchiver'
  BY <1>0, <1>1 DEF WorkerRows, OneArchiver
<1>4. DeferredRows' /\ TickRows'
  BY <1>0, <1>1 DEF DeferredRows, TickRows
<1>5. SlotOwned' /\ PendingArchiveDriven'
  BY <1>1 DEF SlotOwned, PendingArchiveDriven, Running, Looping, At
<1> QED BY <1>2, <1>3, <1>4, <1>5

LEMMA SameStateKeepsControl ==
  ASSUME Control,
         UNCHANGED <<rows, internalRef, published, drain, workers, recovery, deferred, tick>>
  PROVE  Control'
<1>1. DrainRow' /\ DrainData' /\ Phases' /\ SlotOwned' /\ PendingArchiveDriven'
  BY DEF Control, DrainRow, DrainData, Phases, SlotOwned, PendingArchiveDriven, Running
<1>2. WorkerRows' /\ OneArchiver' /\ DeferredRows' /\ TickRows'
  BY DEF Control, WorkerRows, OneArchiver, DeferredRows, TickRows
<1> QED BY <1>1, <1>2 DEF Control

\* What a crash leaves in flight is what the recovery will look into.
LEMMA CrashKeepsControl == Crash => Control'
<1> SUFFICES ASSUME Crash PROVE Control'
  OBVIOUS
<1>1. /\ rows' = rows /\ drain' = Idle /\ workers' = {} /\ deferred' = {}
      /\ recovery'.at = "scan" /\ recovery'.todo = InFlight
      /\ tick'.at = "idle" /\ tick'.todo = {}
  BY DEF Crash, queueVars
<1>2. DrainRow' /\ DrainData' /\ Phases'
  BY <1>1 DEF DrainRow, DrainData, Phases, Working, Idle
<1>3. WorkerRows' /\ OneArchiver' /\ DeferredRows' /\ TickRows'
  BY <1>1 DEF WorkerRows, OneArchiver, DeferredRows, TickRows
<1>4. SlotOwned' /\ PendingArchiveDriven'
  BY <1>1 DEF SlotOwned, PendingArchiveDriven, Running, InFlight
<1> QED BY <1>2, <1>3, <1>4 DEF Control

LEMMA ControlStep == DispatcherTypeOK /\ Control /\ [Next]_vars => Control'
<1> SUFFICES ASSUME DispatcherTypeOK, Control, [Next]_vars PROVE Control'
  OBVIOUS
<1>1. CASE UNCHANGED vars
  BY <1>1, SameStateKeepsControl DEF vars, queueVars, durableVars, processVars
<1>2. ASSUME NEW p \in Projects, NEW trigger \in Triggers, Poll(p, trigger)
      PROVE  Control'
  BY <1>2, SubmissionKeepsControl DEF Poll, Kinds, durableVars, processVars
<1>3. CASE Operator
  <2>1. ASSUME NEW p \in Projects, NEW kind \in Kinds, SubmitRun(p, kind)
        PROVE  Control'
    BY <2>1, DispatcherAssumption, SubmissionKeepsControl
       DEF SubmitRun, Listening, StartDrain, durableVars
  <2>2. ASSUME NEW p \in Projects, PauseProject(p) \/ ResumeProject(p)
        PROVE  Control'
    BY <2>2, SameStateKeepsControl DEF PauseProject, ResumeProject, Pause, Activate,
       durableVars, processVars
  <2> QED BY <1>3, <2>1, <2>2 DEF Operator
<1> QED BY <1>1, <1>2, <1>3, DrainKeepsControl, WorkerKeepsControl, RecoveryKeepsControl,
        TickKeepsControl, CrashKeepsControl DEF Next
-----------------------------------------------------------------------------
(***************************************************************************)
(* Types.                                                                  *)
(***************************************************************************)
\* The variables of the process, without the queue's.
ProcessTypeOK ==
    /\ drain \in [at: DrainAt, q: 0..MaxRequests]
    /\ workers \subseteq [q: RequestIds, by: Caller, phase: {"archiving", "cleanup"}]
    /\ recovery \in [at: {"scan", "cleanup", "first", "second", "done"},
                     todo: SUBSET RequestIds, q: 0..MaxRequests]
    /\ deferred \subseteq RequestIds
    /\ tick \in [at: {"idle", "poll", "retry", "drain"}, todo: SUBSET RequestIds]
    /\ crashes \in 0..MaxCrashes

\* The durable variables, without the queue's.
DurableTypeOK ==
    /\ runDir \in [RequestIds -> {"none", "running", "completed"}]
    /\ internalRef \in [RequestIds -> {NoCommit} \cup Commits]
    /\ published \in [RequestIds -> {NoCommit} \cup Commits]
    /\ awaiting \subseteq Projects

LEMMA TypeParts ==
    /\ DispatcherTypeOK <=> QueueTypeOK /\ DurableTypeOK /\ ProcessTypeOK
    /\ DispatcherTypeOK' <=> QueueTypeOK' /\ DurableTypeOK' /\ ProcessTypeOK'
  BY DEF DispatcherTypeOK, DurableTypeOK, ProcessTypeOK

LEMMA DrainTypes ==
  ASSUME DispatcherTypeOK, DrainRow, DrainStep
  PROVE  DurableTypeOK' /\ ProcessTypeOK'
<1>0. /\ DurableTypeOK /\ ProcessTypeOK /\ rows \in [RequestIds -> Row]
      /\ MaxRequests \in Nat /\ RequestIds = 1..MaxRequests
      /\ drain.at \in Working => drain.q \in RequestIds
      /\ drain.q \in 0..MaxRequests /\ drain.at \in DrainAt
  BY QueueAssumption, TypeParts DEF QueueTypeOK, RequestIds, DrainRow, ProcessTypeOK
<1>1. DurableTypeOK'
  <2>0. /\ runDir \in [RequestIds -> {"none", "running", "completed"}]
        /\ internalRef \in [RequestIds -> {NoCommit} \cup Commits]
        /\ published \in [RequestIds -> {NoCommit} \cup Commits]
        /\ awaiting \subseteq Projects
    BY <1>0 DEF DurableTypeOK
  <2>1. runDir' \in [RequestIds -> {"none", "running", "completed"}]
    BY <1>0, <2>0 DEF DrainStep, DrainClaim, DrainWait, DrainExit, ServicesFail, StepFails, ReuseTarget,
       ResolveHead, MakeMergeRef, RecordPrepared, ReusePrepared, PublishMerge, RecordPublished,
       StartRun, RecordStarted, RunCompletes, RunFails, RecordExecuted, RecordFailed,
       DrainCleanup, CleanedRef, DrainOnly, durableVars, Working
  <2>2. internalRef' \in [RequestIds -> {NoCommit} \cup Commits]
    BY <1>0, <2>0 DEF DrainStep, DrainClaim, DrainWait, DrainExit, ServicesFail, StepFails, ReuseTarget,
       ResolveHead, MakeMergeRef, RecordPrepared, ReusePrepared, PublishMerge, RecordPublished,
       StartRun, RecordStarted, RunCompletes, RunFails, RecordExecuted, RecordFailed,
       DrainCleanup, CleanedRef, DrainOnly, durableVars, Working
  <2>3. published' \in [RequestIds -> {NoCommit} \cup Commits]
    BY <1>0, <2>0 DEF DrainStep, DrainClaim, DrainWait, DrainExit, ServicesFail, StepFails, ReuseTarget,
       ResolveHead, MakeMergeRef, RecordPrepared, ReusePrepared, PublishMerge, RecordPublished,
       StartRun, RecordStarted, RunCompletes, RunFails, RecordExecuted, RecordFailed,
       DrainCleanup, CleanedRef, DrainOnly, durableVars, Row, Working
  <2>4. awaiting' \subseteq Projects
    BY <2>0 DEF DrainStep, DrainClaim, DrainWait, DrainExit, ServicesFail, StepFails, ReuseTarget,
       ResolveHead, MakeMergeRef, RecordPrepared, ReusePrepared, PublishMerge, RecordPublished,
       StartRun, RecordStarted, RunCompletes, RunFails, RecordExecuted, RecordFailed,
       DrainCleanup, CleanedRef, DrainOnly, durableVars
  <2> QED BY <2>1, <2>2, <2>3, <2>4 DEF DurableTypeOK
<1>2. drain' \in [at: DrainAt, q: 0..MaxRequests]
  BY <1>0 DEF DrainStep, DrainClaim, DrainWait, DrainExit, ServicesFail, StepFails, ReuseTarget,
     ResolveHead, MakeMergeRef, RecordPrepared, ReusePrepared, PublishMerge, RecordPublished,
     StartRun, RecordStarted, RunCompletes, RunFails, RecordExecuted, RecordFailed,
     DrainCleanup, Goto, At, Idle, Looping, DrainAt
<1>3. CASE DrainExit
  BY <1>0, <1>1, <1>2, <1>3 DEF DrainExit, ProcessTypeOK
<1>4. CASE RecordExecuted
  BY <1>0, <1>1, <1>2, <1>4 DEF RecordExecuted, Archiving, Caller, ProcessTypeOK, Working
<1>5. CASE ~DrainExit /\ ~RecordExecuted
  <2>1. UNCHANGED <<workers, recovery, deferred, tick, crashes>>
    BY <1>5 DEF DrainStep, DrainClaim, DrainWait, ServicesFail, StepFails, ReuseTarget,
       ResolveHead, MakeMergeRef, RecordPrepared, ReusePrepared, PublishMerge, RecordPublished,
       StartRun, RecordStarted, RunCompletes, RunFails, RecordFailed, DrainCleanup, DrainOnly
  <2> QED BY <1>0, <1>1, <1>2, <2>1 DEF ProcessTypeOK
<1> QED BY <1>3, <1>4, <1>5

LEMMA WorkerTypes ==
  ASSUME DispatcherTypeOK, NEW w \in workers, WorkerStep(w)
  PROVE  DurableTypeOK' /\ ProcessTypeOK'
<1>0. /\ DurableTypeOK /\ ProcessTypeOK /\ MaxRequests \in Nat
      /\ w \in [q: RequestIds, by: Caller, phase: {"archiving", "cleanup"}]
      /\ Looping \in [at: DrainAt, q: 0..MaxRequests]
  BY QueueAssumption, TypeParts DEF ProcessTypeOK, Looping, At, DrainAt
<1>1. DurableTypeOK'
  BY <1>0 DEF WorkerStep, ArchiveEnds, WorkerCleanup, RetryEnds, CleanedRef, durableVars,
     DurableTypeOK
<1>2. UNCHANGED <<recovery, deferred, tick, crashes>>
  BY DEF WorkerStep, ArchiveEnds, WorkerCleanup, RetryEnds
<1>3. drain' \in {drain, Looping}
  BY DEF WorkerStep, ArchiveEnds, WorkerCleanup, RetryEnds, Ends
<1>4. workers' \subseteq workers \cup {[w EXCEPT !.phase = "cleanup"]}
  BY DEF WorkerStep, ArchiveEnds, WorkerCleanup, RetryEnds, Ends
<1> QED BY <1>0, <1>1, <1>2, <1>3, <1>4 DEF ProcessTypeOK

LEMMA RecoveryTypes ==
  ASSUME DispatcherTypeOK, RecoveryStep
  PROVE  DurableTypeOK' /\ ProcessTypeOK'
<1>0. /\ DurableTypeOK /\ ProcessTypeOK /\ MaxRequests \in Nat
      /\ RequestIds = 1..MaxRequests
      /\ Looping \in [at: DrainAt, q: 0..MaxRequests]
  BY QueueAssumption, TypeParts DEF RequestIds, Looping, At, DrainAt
<1>1. DurableTypeOK'
  BY <1>0 DEF RecoveryStep, Defer, RecoveryServicesFail, ResumeArchive, PutBack, AdoptRun,
     ArchiveFinishedRun, InterruptRun, RecoveryCleanup, FirstDrain, SecondDrain, CleanedRef,
     RecoveryOnly, durableVars, DurableTypeOK
<1>2. UNCHANGED <<tick, crashes>>
  BY DEF RecoveryStep, Defer, RecoveryServicesFail, ResumeArchive, PutBack, AdoptRun,
     ArchiveFinishedRun, InterruptRun, RecoveryCleanup, FirstDrain, SecondDrain, RecoveryOnly
<1>3. drain' \in {drain, Looping}
  BY DEF RecoveryStep, Defer, RecoveryServicesFail, ResumeArchive, PutBack, AdoptRun,
     ArchiveFinishedRun, InterruptRun, RecoveryCleanup, FirstDrain, SecondDrain, RecoveryOnly,
     StartDrain
<1>4. \A n \in workers' : n \in workers \/ \E q \in RequestIds : n = Archiving(q, "recovery")
  BY DEF RecoveryStep, Defer, RecoveryServicesFail, ResumeArchive, PutBack, AdoptRun,
     ArchiveFinishedRun, InterruptRun, RecoveryCleanup, FirstDrain, SecondDrain, RecoveryOnly
<1>5. deferred' \subseteq RequestIds
  BY <1>0 DEF RecoveryStep, Defer, RecoveryServicesFail, ResumeArchive, PutBack, AdoptRun,
     ArchiveFinishedRun, InterruptRun, RecoveryCleanup, FirstDrain, SecondDrain, RecoveryOnly,
     ProcessTypeOK
<1> DEFINE RecoveryState == [at: {"scan", "cleanup", "first", "second", "done"},
                             todo: SUBSET RequestIds, q: 0..MaxRequests]
<1>6. recovery' \in RecoveryState
  <2>0. recovery \in RecoveryState
    BY <1>0 DEF ProcessTypeOK
  <2>1. ASSUME NEW q \in RequestIds
        PROVE  Dealt(q) \in RecoveryState
               /\ [Dealt(q) EXCEPT !.at = "cleanup", !.q = q] \in RecoveryState
    <3> DEFINE cleaning == [Dealt(q) EXCEPT !.at = "cleanup"]
    <3>1. Dealt(q) \in RecoveryState
      BY <2>0 DEF Dealt
    <3>2. cleaning \in RecoveryState
      BY <3>1
    <3>3. ASSUME NEW r \in RecoveryState PROVE [r EXCEPT !.q = q] \in RecoveryState
      BY <1>0
    <3> QED BY <3>1, <3>2, <3>3
  <2>2. CASE RecoveryCleanup
    <3> DEFINE scanning == [recovery EXCEPT !.at = "scan"]
    <3>1. scanning \in RecoveryState
      BY <2>0
    <3>2. ASSUME NEW r \in RecoveryState PROVE [r EXCEPT !.q = 0] \in RecoveryState
      BY <1>0
    <3> QED BY <2>2, <3>1, <3>2 DEF RecoveryCleanup
  <2>3. CASE FirstDrain \/ SecondDrain
    BY <2>0, <2>3 DEF FirstDrain, SecondDrain
  <2>4. CASE ~(RecoveryCleanup \/ FirstDrain \/ SecondDrain)
    <3>1. recovery' = recovery \/ \E q \in RequestIds :
             recovery' \in {Dealt(q), [Dealt(q) EXCEPT !.at = "cleanup", !.q = q]}
      BY <2>4 DEF RecoveryStep, Defer, RecoveryServicesFail, ResumeArchive, PutBack, AdoptRun,
         ArchiveFinishedRun, InterruptRun
    <3> QED BY <2>0, <2>1, <3>1
  <2> QED BY <2>2, <2>3, <2>4
<1>7. workers' \subseteq [q: RequestIds, by: Caller, phase: {"archiving", "cleanup"}]
  BY <1>0, <1>4 DEF Archiving, Caller, ProcessTypeOK
<1> QED BY <1>0, <1>1, <1>2, <1>3, <1>5, <1>6, <1>7 DEF ProcessTypeOK

LEMMA TickTypes ==
  ASSUME DispatcherTypeOK, TickStep
  PROVE  DurableTypeOK' /\ ProcessTypeOK'
<1>0. /\ DurableTypeOK /\ ProcessTypeOK /\ MaxRequests \in Nat
      /\ Looping \in [at: DrainAt, q: 0..MaxRequests]
  BY QueueAssumption, TypeParts DEF Looping, At, DrainAt
<1>1. DurableTypeOK' /\ UNCHANGED <<recovery, crashes>>
  BY <1>0 DEF TickStep, TickStart, TickRetries, TickDrain, SkipRetry, ArchiveDeferred,
     RetryArchive, TickOnly, durableVars, DurableTypeOK
<1>2. drain' \in {drain, Looping}
  BY DEF TickStep, TickStart, TickRetries, TickDrain, SkipRetry, ArchiveDeferred,
     RetryArchive, TickOnly, StartDrain
<1>3. \A n \in workers' :
        n \in workers \/ \E q \in RequestIds : n \in {Archiving(q, "deferred"), Archiving(q, "retry")}
  BY DEF TickStep, TickStart, TickRetries, TickDrain, SkipRetry, ArchiveDeferred, RetryArchive,
     TickOnly
<1>4. workers' \subseteq [q: RequestIds, by: Caller, phase: {"archiving", "cleanup"}]
  BY <1>0, <1>3 DEF Archiving, Caller, ProcessTypeOK
<1>5. deferred' \subseteq RequestIds
  BY <1>0 DEF TickStep, TickStart, TickRetries, TickDrain, SkipRetry, ArchiveDeferred,
     RetryArchive, TickOnly, ProcessTypeOK
<1>6. tick' \in [at: {"idle", "poll", "retry", "drain"}, todo: SUBSET RequestIds]
  <2>1. CASE TickStart \/ TickDrain
    BY <1>0, <2>1 DEF TickStart, TickDrain, ProcessTypeOK
  <2>2. CASE TickRetries
    BY <1>0, <2>2 DEF TickRetries, ProcessTypeOK
  <2>3. ASSUME NEW q \in RequestIds, SkipRetry(q) \/ ArchiveDeferred(q) \/ RetryArchive(q)
        PROVE  tick' \in [at: {"idle", "poll", "retry", "drain"}, todo: SUBSET RequestIds]
    BY <1>0, <2>3 DEF SkipRetry, ArchiveDeferred, RetryArchive, Retrying, ProcessTypeOK
  <2> QED BY <2>1, <2>2, <2>3 DEF TickStep
<1> QED BY <1>0, <1>1, <1>2, <1>4, <1>5, <1>6 DEF ProcessTypeOK

LEMMA TypeStep ==
  ASSUME DispatcherTypeOK, DrainRow, QueueTypeOK', [Next]_vars
  PROVE  DispatcherTypeOK'
<1>0. /\ DurableTypeOK /\ ProcessTypeOK /\ MaxRequests \in Nat
      /\ Looping \in [at: DrainAt, q: 0..MaxRequests]
      /\ Idle \in [at: DrainAt, q: 0..MaxRequests]
  BY QueueAssumption, TypeParts DEF Looping, Idle, At, DrainAt
<1>1. CASE UNCHANGED <<durableVars, workers, recovery, deferred, tick, crashes>>
           /\ drain' \in {drain, Looping}
  BY <1>0, <1>1, TypeParts DEF durableVars, DurableTypeOK, ProcessTypeOK
<1>2. ASSUME NEW p \in Projects, ResumeProject(p) PROVE DispatcherTypeOK'
  BY <1>0, <1>2, TypeParts DEF ResumeProject, processVars, DurableTypeOK, ProcessTypeOK
<1>3. CASE Crash
  BY <1>0, <1>3, TypeParts, DispatcherAssumption DEF Crash, durableVars, DurableTypeOK,
     ProcessTypeOK, InFlight
<1>4. CASE UNCHANGED vars \/ \E p \in Projects, trigger \in Triggers : Poll(p, trigger)
  BY <1>1, <1>4 DEF vars, processVars, Poll
<1>5. CASE Operator
  BY <1>1, <1>2, <1>5 DEF Operator, SubmitRun, PauseProject, StartDrain, processVars
<1> QED BY <1>3, <1>4, <1>5, DrainTypes, WorkerTypes, RecoveryTypes, TickTypes, TypeParts DEF Next
-----------------------------------------------------------------------------
(***************************************************************************)
(* The initial states, and the invariant.                                  *)
(***************************************************************************)
LEMMA FreshRows == FreshInit => IndInv
  BY InitInd DEF FreshInit

\* The one row an upgrade may leave is like one that waits for its archive.
LEMMA CutoverRows == CutoverInit => IndInv
<1> SUFFICES ASSUME CutoverInit PROVE IndInv
  OBVIOUS
<1>0. NumProjects \in Nat \ {0} /\ MaxRequests \in Nat \ {0} /\ NoCommit \notin Commits
  BY QueueAssumption, DispatcherAssumption
<1>1. PICK c \in Commits : rows = [q \in RequestIds |-> IF q = 1 THEN CutoverRow(c) ELSE NoRow]
  BY DEF CutoverInit
<1>2. CutoverRow(c) \in Row /\ NoRow \in Row
  BY <1>0 DEF CutoverRow, NoRow, Row, Pending, Terminal, Kinds, ArchiveStatus
<1>3. /\ lastId = 1 /\ projectStatus = [p \in Projects |-> "paused"]
      /\ revision = [p \in Projects |-> 1] /\ semantics = [p \in Projects |-> 1] /\ cursor = 0
  BY DEF CutoverInit
<1>4. rows \in [RequestIds -> Row] /\ rows[1] = CutoverRow(c)
      /\ \A q \in RequestIds \ {1} : rows[q] = NoRow
  BY <1>0, <1>1, <1>2 DEF RequestIds
<1>5. TypeInv
  <2>1. \A q \in RequestIds : q > lastId <=> rows[q].status = "absent"
    BY <1>0, <1>3, <1>4 DEF RequestIds, CutoverRow, NoRow
  <2>2. UnallocatedBlank
    BY <1>4 DEF UnallocatedBlank, CutoverRow
  <2>3. lastId \in 0..MaxRequests /\ cursor \in 0..NumProjects
    BY <1>0, <1>3
  <2>4. /\ projectStatus \in [Projects -> {"active", "paused"}]
        /\ revision \in [Projects -> Nat] /\ semantics \in [Projects -> Nat]
    BY <1>3
  <2>5. \A q \in RequestIds : q <= lastId => rows[q].project \in Projects
    BY <1>0, <1>3, <1>4 DEF RequestIds, Projects, CutoverRow
  <2>6. QueueTypeOK
    BY <1>4, <2>1, <2>3, <2>4, <2>5 DEF QueueTypeOK
  <2> QED BY <2>2, <2>6 DEF TypeInv
<1>6. OneRunning /\ LinkedRunNotQueued /\ ResolvedIsPrepared
  BY <1>4 DEF OneRunning, Running, LinkedRunNotQueued, ResolvedIsPrepared, CutoverRow, NoRow
<1>7. OldestFirst
  BY <1>4 DEF OldestFirst, CutoverRow, NoRow, RequestIds
<1>8. PendingSnapshotCurrent
  BY <1>0, <1>3, <1>4 DEF PendingSnapshotCurrent, CutoverRow, NoRow, Pending, Projects
<1> QED BY <1>5, <1>6, <1>7, <1>8 DEF IndInv

LEMMA InitInv == Init => DispatcherInv
<1> SUFFICES ASSUME Init PROVE DispatcherInv
  OBVIOUS
<1>0. NumProjects \in Nat \ {0} /\ MaxRequests \in Nat \ {0} /\ MaxCrashes \in Nat
  BY QueueAssumption, DispatcherAssumption
<1>1. IndInv /\ QueueTypeOK
  BY FreshRows, CutoverRows DEF Init, IndInv, TypeInv
<1>2. DurableTypeOK
  BY <1>0 DEF Init, FreshInit, CutoverInit, DurableTypeOK, Projects
<1>3. PICK inFlight \in SUBSET RequestIds :
        /\ Booting(inFlight)
        /\ \A q \in RequestIds : rows[q].status \in Pending => q \in inFlight
  <2>1. CASE FreshInit
    BY <2>1 DEF FreshInit, QueueInit, NoRow, Pending
  <2>2. CASE CutoverInit
    BY <1>0, <2>2 DEF CutoverInit, NoRow, Pending, RequestIds
  <2> QED BY <2>1, <2>2 DEF Init
<1>4. ProcessTypeOK
  BY <1>0, <1>3 DEF Init, Booting, ProcessTypeOK, Idle, DrainAt
<1>5. Control
  <2>1. DrainRow /\ DrainData /\ Phases
    BY <1>3 DEF Booting, DrainRow, DrainData, Phases, Working, Idle
  <2>2. WorkerRows /\ OneArchiver /\ DeferredRows /\ TickRows
    BY <1>3 DEF Booting, WorkerRows, OneArchiver, DeferredRows, TickRows
  <2>3. SlotOwned /\ PendingArchiveDriven
    BY <1>3 DEF Booting, SlotOwned, PendingArchiveDriven, Running, Pending
  <2> QED BY <2>1, <2>2, <2>3 DEF Control
<1> QED BY <1>1, <1>2, <1>4, <1>5, TypeParts DEF DispatcherInv

LEMMA StepInv == DispatcherInv /\ [Next]_vars => DispatcherInv' /\ [QueueNext]_queueVars
<1> SUFFICES ASSUME DispatcherInv, [Next]_vars PROVE DispatcherInv' /\ [QueueNext]_queueVars
  OBVIOUS
<1>1. DispatcherTypeOK /\ DrainRow /\ DrainData /\ Control /\ IndInv
  BY DEF DispatcherInv, Control
<1>2. [QueueNext]_queueVars
  BY <1>1, NextIsQueueStep
<1>3. IndInv'
  BY <1>1, <1>2, StepInd
<1>4. DispatcherTypeOK'
  BY <1>1, <1>3, TypeStep DEF IndInv, TypeInv
<1>5. Control'
  BY <1>1, ControlStep
<1> QED BY <1>2, <1>3, <1>4, <1>5 DEF DispatcherInv

LEMMA InvCorrect == Spec => []DispatcherInv
  BY InitInv, StepInv, PTL DEF Spec
-----------------------------------------------------------------------------
(***************************************************************************)
(* The theorems.                                                           *)
(***************************************************************************)
\* The types of the dispatcher's variables.
THEOREM DispatcherTypeCorrect == Spec => []DispatcherTypeOK
<1>1. DispatcherInv => DispatcherTypeOK
  BY DEF DispatcherInv
<1> QED BY <1>1, InvCorrect, PTL

\* Whatever the loop, the archives, the recovery, the tick, the operator and the
\* crashes do, the queue sees only the operations it allows.
THEOREM DispatcherFollowsQueue == Spec => FollowsQueue
  BY InvCorrect, StepInv, PTL DEF Spec, FollowsQueue

\* So the queue's own invariants hold of the whole process.
THEOREM QueueInvariantsHold ==
  Spec => [](OneRunning /\ OldestFirst /\ PendingSnapshotCurrent /\ ResolvedIsPrepared
             /\ LinkedRunNotQueued)
<1>1. DispatcherInv => /\ OneRunning /\ OldestFirst /\ PendingSnapshotCurrent
                       /\ ResolvedIsPrepared /\ LinkedRunNotQueued
  BY DEF DispatcherInv, IndInv
<1> QED BY <1>1, InvCorrect, PTL

\* The execution slot is never left with a request nobody works on.
THEOREM SlotOwnedCorrect == Spec => []SlotOwned
<1>1. DispatcherInv => SlotOwned
  BY DEF DispatcherInv, Control
<1> QED BY <1>1, InvCorrect, PTL

\* A pending archive always has somebody who will run it.
THEOREM PendingArchiveDrivenCorrect == Spec => []PendingArchiveDriven
<1>1. DispatcherInv => PendingArchiveDriven
  BY DEF DispatcherInv, Control
<1> QED BY <1>1, InvCorrect, PTL

\* One request is never archived by two callers at once.
THEOREM OneArchiverCorrect == Spec => []OneArchiver
<1>1. DispatcherInv => OneArchiver
  BY DEF DispatcherInv, Control
<1> QED BY <1>1, InvCorrect, PTL

-----------------------------------------------------------------------------
(***************************************************************************)
(* What a request has outside the queue: its Run is started once and       *)
(* archived only when finished; its merge is made once, published once and *)
(* kept while it may still have to be published.                           *)
(*                                                                         *)
(* The argument.  RowOK says for each request what its status tells of its *)
(* Run directory, its internal ref and the scenario branch.  It is kept by *)
(* the loop because a claim takes a queued request, which has no Run yet,  *)
(* and by the recovery because it looks at the directory before it puts a  *)
(* request back or archives it; the refs are removed only for requests     *)
(* that have ended (RecoveryRow, and DispatcherInv for loop and workers).  *)
(***************************************************************************)
\* What a request's row says of its Run directory and of its merge.
RowOK(q) ==
    /\ rows[q].status = "absent" => published[q] = NoCommit
    /\ rows[q].status \in {"absent", "queued"} => runDir[q] = "none"
    /\ rows[q].status \in {"waiting_archive", "completed"} => runDir[q] = "completed"
    /\ rows[q].prepared # NoCommit /\ rows[q].status \in Pending
       => internalRef[q] = rows[q].prepared
    /\ published[q] # NoCommit => published[q] = rows[q].prepared
    /\ IsMerge(q) /\ rows[q].resolved # NoCommit => published[q] = rows[q].resolved

\* What the loop knows of the directory of its request.
DrainDir ==
    /\ drain.at \in {"claimed", "ref_made", "prepared", "published", "resolved"}
       => runDir[drain.q] = "none"
    /\ drain.at = "executed" => runDir[drain.q] = "completed"

\* The recovery removes the ref of a request that has ended.
RecoveryRow ==
    recovery.at = "cleanup" => recovery.q \in RequestIds /\ rows[recovery.q].status \in Terminal

RunInv == (\A q \in RequestIds : RowOK(q)) /\ DrainDir /\ RecoveryRow
-----------------------------------------------------------------------------
(***************************************************************************)
(* Rows.                                                                   *)
(***************************************************************************)
\* A step that is about one request leaves what the others' rows say true.
LEMMA OneRow ==
  ASSUME \A r \in RequestIds : RowOK(r), NEW q \in RequestIds, RowOK(q)',
         \A r \in RequestIds \ {q} : /\ rows'[r] = rows[r] /\ runDir'[r] = runDir[r]
                                     /\ internalRef'[r] = internalRef[r]
                                     /\ published'[r] = published[r]
  PROVE  \A r \in RequestIds : RowOK(r)'
BY DEF RowOK, IsMerge

\* The queue's operations on a row, where the directory and the branch are as they should be.
LEMMA RowOperations ==
  ASSUME QueueTypeOK, NEW q \in RequestIds, RowOK(q), UNCHANGED <<runDir, internalRef, published>>
  PROVE  /\ ClaimNext(q) => RowOK(q)' /\ runDir[q] = "none"
         /\ \A c \in Commits : MarkPrepared(q, c) /\ c = internalRef[q] => RowOK(q)'
         /\ \A c \in Commits :
               MarkResolved(q, c) /\ (IsMerge(q) => published[q] = c) => RowOK(q)'
         /\ MarkStarted(q) => RowOK(q)'
         /\ Requeue(q) /\ runDir[q] = "none" => RowOK(q)'
         /\ MarkWaitingArchive(q) /\ runDir[q] = "completed" => RowOK(q)'
         /\ \A result \in ArchiveStatus :
               Complete(q, result) /\ rows[q].status = "waiting_archive" => RowOK(q)'
         /\ \A result \in ArchiveStatus : RecordArchiveRetry(q, result) => RowOK(q)'
         /\ \A status \in {"failed", "interrupted"} : Fail(q, status) => RowOK(q)'
<1> USE DEF RowOK, IsMerge, Pending
<1>0. rows \in [RequestIds -> Row] /\ rows[q] \in Row
  BY DEF QueueTypeOK
<1>1. ClaimNext(q) => RowOK(q)' /\ runDir[q] = "none"
  <2>1. ClaimNext(q) => /\ rows[q].status = "queued"
                        /\ rows'[q] = [rows[q] EXCEPT !.status = "running"]
    BY <1>0 DEF ClaimNext, Claimable, Oldest, RowsOf
  <2> QED BY <1>0, <2>1 DEF Row
<1>2. ASSUME NEW c \in Commits, MarkPrepared(q, c), c = internalRef[q] PROVE RowOK(q)'
  <2>1. /\ rows'[q] = [rows[q] EXCEPT !.prepared = c] /\ rows[q].status = "running"
        /\ rows[q].prepared = NoCommit /\ IsMerge(q)
    BY <1>0, <1>2 DEF MarkPrepared
  <2> QED BY <1>0, <1>2, <2>1 DEF Row
<1>3. ASSUME NEW c \in Commits, MarkResolved(q, c), IsMerge(q) => published[q] = c
      PROVE  RowOK(q)'
  <2>1. rows'[q] = [rows[q] EXCEPT !.resolved = c]
    BY <1>0, <1>3 DEF MarkResolved
  <2> QED BY <1>0, <1>3, <2>1 DEF Row
<1>4. MarkStarted(q) => RowOK(q)'
  <2>1. MarkStarted(q) => rows'[q] = [rows[q] EXCEPT !.run = TRUE]
    BY <1>0 DEF MarkStarted
  <2> QED BY <1>0, <2>1 DEF Row
<1>5. Requeue(q) /\ runDir[q] = "none" => RowOK(q)'
  <2>1. Requeue(q) => /\ rows'[q] = [rows[q] EXCEPT !.status = "queued"]
                      /\ rows[q].status = "running"
    BY <1>0 DEF Requeue
  <2> QED BY <1>0, <2>1 DEF Row
<1>6. MarkWaitingArchive(q) /\ runDir[q] = "completed" => RowOK(q)'
  <2>1. MarkWaitingArchive(q) =>
          /\ rows'[q] = [rows[q] EXCEPT !.status = "waiting_archive", !.run = TRUE]
          /\ rows[q].status = "running"
    BY <1>0 DEF MarkWaitingArchive
  <2> QED BY <1>0, <2>1 DEF Row
<1>7. ASSUME NEW result \in ArchiveStatus, Complete(q, result),
             rows[q].status = "waiting_archive"
      PROVE  RowOK(q)'
  <2>1. rows'[q] = [rows[q] EXCEPT !.status = "completed", !.run = TRUE, !.archive = result]
    BY <1>0, <1>7 DEF Complete
  <2> QED BY <1>0, <1>7, <2>1 DEF Row
<1>8. ASSUME NEW result \in ArchiveStatus, RecordArchiveRetry(q, result) PROVE RowOK(q)'
  <2>1. rows'[q] = [rows[q] EXCEPT !.archive = result]
    BY <1>0, <1>8 DEF RecordArchiveRetry
  <2> QED BY <1>0, <2>1 DEF Row
<1>9. ASSUME NEW status \in {"failed", "interrupted"}, Fail(q, status) PROVE RowOK(q)'
  <2>1. rows'[q] = [rows[q] EXCEPT !.status = status] /\ rows[q].status \in Pending
    BY <1>0, <1>9 DEF Fail
  <2> QED BY <1>0, <2>1 DEF Row
<1> QED BY <1>1, <1>2, <1>3, <1>4, <1>5, <1>6, <1>7, <1>8, <1>9

\* A new or joined request has neither Run nor merge.
LEMMA EnqueueKeepsRows ==
  ASSUME IndInv, \A r \in RequestIds : RowOK(r), NEW p \in Projects, NEW kind \in Kinds,
         NEW trigger \in Triggers, Enqueue(p, kind, trigger),
         UNCHANGED <<runDir, internalRef, published>>
  PROVE  \A r \in RequestIds : RowOK(r)'
<1>0. rows \in [RequestIds -> Row] /\ TypeInv
  BY DEF IndInv, TypeInv, QueueTypeOK
<1>1. ASSUME NEW q \in MergeableTail(p, kind),
             rows' = [rows EXCEPT ![q].sources = @ \cup {trigger}]
      PROVE  \A r \in RequestIds : RowOK(r)'
  <2>1. q \in RequestIds /\ rows[q] \in Row
    BY <1>0 DEF MergeableTail, RowsOf
  <2>2. /\ rows'[q] = [rows[q] EXCEPT !.sources = @ \cup {trigger}]
        /\ \A r \in RequestIds \ {q} : rows'[r] = rows[r]
    BY <1>0, <1>1, <2>1
  <2>3. RowOK(q)'
    BY <2>1, <2>2 DEF RowOK, IsMerge, Row
  <2> QED BY <2>1, <2>2, <2>3, OneRow
<1>2. ASSUME lastId < MaxRequests,
             rows' = [rows EXCEPT ![lastId + 1] = NewRow(p, kind, trigger)]
      PROVE  \A r \in RequestIds : RowOK(r)'
  <2>q. PICK q : q = lastId + 1
    OBVIOUS
  <2>0. lastId \in 0..MaxRequests /\ q = lastId + 1
    BY <1>0, <2>q DEF TypeInv, QueueTypeOK
  <2>1. q \in RequestIds /\ rows[q] = NoRow
    <3>1. q \in RequestIds
      BY <1>2, <2>0, QueueAssumption DEF RequestIds
    <3> QED BY <1>0, <2>0, <3>1 DEF TypeInv, QueueTypeOK, UnallocatedBlank
  <2>2. rows'[q] = NewRow(p, kind, trigger) /\ \A r \in RequestIds \ {q} : rows'[r] = rows[r]
    BY <1>0, <1>2, <2>0, <2>1
  <2>3. RowOK(q)'
    <3>1. RowOK(q)
      BY <2>1
    <3> QED BY <2>1, <2>2, <3>1 DEF RowOK, IsMerge, NoRow, NewRow
  <2> QED BY <2>1, <2>2, <2>3, OneRow
<1> QED BY <1>1, <1>2 DEF Enqueue

\* A request that has ended stays ended.
LEMMA EndedStays ==
  ASSUME TypeInv, [QueueNext]_queueVars, NEW q \in RequestIds, rows[q].status \in Terminal
  PROVE  rows'[q].status \in Terminal
<1>1. ASSUME NEW r \in RequestIds, RowEffect(r) PROVE rows'[q].status \in Terminal
  BY <1>1 DEF RowEffect, FactsKept
<1>2. ASSUME NEW r \in RequestIds, RowOperation(r) PROVE rows'[q].status \in Terminal
  BY <1>1, <1>2, RowOperationEffect
<1>3. ASSUME NEW p \in Projects, ProjectOperation(p) PROVE rows'[q].status \in Terminal
  <2>1. ASSUME NEW kind \in Kinds, NEW trigger \in Triggers, Enqueue(p, kind, trigger)
        PROVE  rows'[q].status \in Terminal
    <3>1. CASE \E r \in RequestIds : RowEffect(r)
      BY <1>1, <3>1
    <3>2. CASE /\ \A r \in RequestIds \ {lastId + 1} : rows'[r] = rows[r]
               /\ rows[lastId + 1] = NoRow
      BY <3>2 DEF NoRow, Terminal
    <3> QED BY <2>1, <3>1, <3>2, EnqueueEffect
  <2> QED BY <1>3, <2>1 DEF ProjectOperation, Pause, Activate, UpdateConfiguration
<1> QED BY <1>2, <1>3 DEF QueueNext, queueVars
-----------------------------------------------------------------------------
(***************************************************************************)
(* The actors keep RunInv.                                                 *)
(***************************************************************************)
LEMMA DrainKeepsRuns ==
  ASSUME DispatcherInv, RunInv, DrainStep
  PROVE  (\A r \in RequestIds : RowOK(r)') /\ DrainDir'
<1>q. PICK q : q = drain.q
  OBVIOUS
<1>0. /\ QueueTypeOK /\ IndInv /\ DispatcherTypeOK /\ DrainRow /\ DrainData /\ DrainDir
      /\ q = drain.q /\ \A r \in RequestIds : RowOK(r)
  BY <1>q DEF DispatcherInv, DispatcherTypeOK, Control, RunInv
<1>1. CASE DrainWait \/ DrainExit \/ StepFails \/ ReuseTarget \/ ReusePrepared \/ RunFails
  <2>1. UNCHANGED <<rows, runDir, internalRef, published>>
    BY <1>1 DEF DrainWait, DrainExit, StepFails, ReuseTarget, ReusePrepared, RunFails,
       DrainOnly, queueVars, durableVars
  <2>2. DrainDir'
    BY <1>0, <1>1, <2>1 DEF DrainDir, DrainWait, DrainExit, StepFails, ReuseTarget,
       ReusePrepared, RunFails, Goto, At, Idle
  <2> QED BY <1>0, <2>1, <2>2 DEF RowOK, IsMerge
<1>2. CASE DrainClaim
  <2>1. PICK c \in RequestIds : ClaimNext(c) /\ drain' = At("claimed", c)
    BY <1>2 DEF DrainClaim
  <2>2. UNCHANGED <<runDir, internalRef, published>>
    BY <1>2 DEF DrainClaim, DrainOnly, durableVars
  <2>3. RowOK(c)' /\ runDir[c] = "none" /\ \A r \in RequestIds \ {c} : rows'[r] = rows[r]
    BY <1>0, <2>1, <2>2, RowOperations, RowStatus DEF Becomes
  <2>4. DrainDir'
    BY <2>1, <2>2, <2>3 DEF DrainDir, At
  <2> QED BY <1>0, <2>2, <2>3, <2>4, OneRow
<1>3. CASE ServicesFail \/ RecordFailed
  <2>1. /\ q \in RequestIds /\ \E status \in {"failed", "interrupted"} : Fail(q, status)
        /\ UNCHANGED <<runDir, internalRef, published>>
    BY <1>0, <1>3 DEF ServicesFail, RecordFailed, DrainRow, Working, DrainOnly, durableVars
  <2>2. RowOK(q)' /\ \A r \in RequestIds \ {q} : rows'[r] = rows[r]
    BY <1>0, <2>1, RowOperations, RowStatus DEF Becomes
  <2>3. DrainDir'
    BY <1>3 DEF DrainDir, ServicesFail, RecordFailed, Looping, At
  <2> QED BY <1>0, <2>1, <2>2, <2>3, OneRow
<1>4. CASE ResolveHead \/ RecordPublished
  <2>1. PICK c \in Commits : MarkResolved(q, c) /\ (IsMerge(q) => published[q] = c)
    BY <1>0, <1>4 DEF ResolveHead, RecordPublished, DrainData
  <2>2. /\ q \in RequestIds /\ UNCHANGED <<runDir, internalRef, published>>
        /\ drain.at \in {"claimed", "published"} /\ drain' = At("resolved", q)
    BY <1>0, <1>4 DEF ResolveHead, RecordPublished, DrainRow, Working, DrainOnly, durableVars,
       Goto
  <2>3. RowOK(q)' /\ \A r \in RequestIds \ {q} : rows'[r] = rows[r]
    BY <1>0, <2>1, <2>2, RowOperations, RowStatus DEF Becomes
  <2>4. DrainDir'
    BY <1>0, <2>2 DEF DrainDir, At
  <2> QED BY <1>0, <2>2, <2>3, <2>4, OneRow
<1>5. CASE MakeMergeRef
  <2>1. /\ q \in RequestIds /\ rows[q].prepared = NoCommit /\ UNCHANGED <<rows, runDir, published>>
        /\ drain.at = "claimed" /\ drain' = At("ref_made", q)
    BY <1>0, <1>5 DEF MakeMergeRef, DrainRow, Working, Goto, queueVars
  <2>2. \A r \in RequestIds \ {q} : internalRef'[r] = internalRef[r]
    BY <1>0, <1>5 DEF MakeMergeRef, DispatcherTypeOK
  <2>3. RowOK(q)'
    BY <1>0, <2>1 DEF RowOK, IsMerge
  <2>4. DrainDir'
    BY <1>0, <2>1 DEF DrainDir, At
  <2> QED BY <1>0, <2>1, <2>2, <2>3, <2>4, OneRow
<1>6. CASE RecordPrepared
  <2>1. /\ q \in RequestIds /\ MarkPrepared(q, internalRef[q]) /\ internalRef[q] \in Commits
        /\ UNCHANGED <<runDir, internalRef, published>>
        /\ drain.at = "ref_made" /\ drain' = At("prepared", q)
    BY <1>0, <1>6 DEF RecordPrepared, DrainRow, DrainData, Working, DrainOnly, durableVars, Goto
  <2>2. RowOK(q)' /\ \A r \in RequestIds \ {q} : rows'[r] = rows[r]
    BY <1>0, <2>1, RowOperations, RowStatus DEF Becomes
  <2>3. DrainDir'
    BY <1>0, <2>1 DEF DrainDir, At
  <2> QED BY <1>0, <2>1, <2>2, <2>3, OneRow
<1>7. CASE PublishMerge
  <2>1. /\ q \in RequestIds /\ rows[q].prepared \in Commits /\ rows[q].status = "running"
        /\ UNCHANGED <<rows, runDir, internalRef>>
        /\ drain.at = "prepared" /\ drain' = At("published", q)
    BY <1>0, <1>7 DEF PublishMerge, DrainRow, DrainData, Working, Goto, queueVars
  <2>2. /\ published'[q] = rows[q].prepared
        /\ \A r \in RequestIds \ {q} : published'[r] = published[r]
    BY <1>0, <1>7, <2>1 DEF PublishMerge, DispatcherTypeOK
  <2>3. IsMerge(q) /\ rows[q].resolved # NoCommit => rows[q].resolved = rows[q].prepared
    BY <1>0, <2>1 DEF IndInv, ResolvedIsPrepared, IsMerge
  <2>4. RowOK(q)'
    BY <1>0, <2>1, <2>2, <2>3 DEF RowOK, IsMerge, Pending
  <2>5. DrainDir'
    BY <1>0, <2>1 DEF DrainDir, At
  <2> QED BY <1>0, <2>1, <2>2, <2>4, <2>5, OneRow
<1>8. CASE StartRun \/ RunCompletes
  <2>1. /\ q \in RequestIds /\ rows[q].status = "running"
        /\ UNCHANGED <<rows, internalRef, published>>
    BY <1>0, <1>8 DEF StartRun, RunCompletes, DrainRow, Working, queueVars
  <2>2. /\ \A r \in RequestIds \ {q} : runDir'[r] = runDir[r]
        /\ drain'.at = "executed" => runDir'[q] = "completed"
        /\ drain' = At(drain'.at, q) /\ drain'.at \in {"started", "executed"}
    BY <1>0, <1>8, <2>1 DEF StartRun, RunCompletes, DispatcherTypeOK, Goto, At
  <2>3. RowOK(q)'
    BY <1>0, <2>1 DEF RowOK, IsMerge, Pending
  <2>4. DrainDir'
    BY <2>2 DEF DrainDir, At
  <2> QED BY <1>0, <2>1, <2>2, <2>3, <2>4, OneRow
<1>9. CASE RecordStarted
  <2>1. /\ q \in RequestIds /\ MarkStarted(q) /\ UNCHANGED <<runDir, internalRef, published>>
        /\ drain' = At("executing", q)
    BY <1>0, <1>9 DEF RecordStarted, DrainRow, Working, DrainOnly, durableVars, Goto
  <2>2. RowOK(q)' /\ \A r \in RequestIds \ {q} : rows'[r] = rows[r]
    BY <1>0, <2>1, RowOperations, RowStatus DEF Becomes
  <2>3. DrainDir'
    BY <2>1 DEF DrainDir, At
  <2> QED BY <1>0, <2>1, <2>2, <2>3, OneRow
<1>10. CASE RecordExecuted
  <2>1. /\ q \in RequestIds /\ MarkWaitingArchive(q) /\ runDir[q] = "completed"
        /\ UNCHANGED <<runDir, internalRef, published>> /\ drain' = Looping
    BY <1>0, <1>10 DEF RecordExecuted, DrainRow, DrainDir, Working, durableVars
  <2>2. RowOK(q)' /\ \A r \in RequestIds \ {q} : rows'[r] = rows[r]
    BY <1>0, <2>1, RowOperations, RowStatus DEF Becomes
  <2>3. DrainDir'
    BY <2>1 DEF DrainDir, Looping, At
  <2> QED BY <1>0, <2>1, <2>2, <2>3, OneRow
<1>11. CASE DrainCleanup
  <2>1. /\ q \in RequestIds /\ rows[q].status \in Terminal /\ CleanedRef(q) /\ drain' = Looping
    BY <1>0, <1>11 DEF DrainCleanup, DrainRow
  <2>2. /\ UNCHANGED <<rows, runDir, published>>
        /\ \A r \in RequestIds \ {q} : internalRef'[r] = internalRef[r]
    BY <1>0, <2>1 DEF CleanedRef, queueVars, DispatcherTypeOK
  <2>3. RowOK(q)'
    BY <1>0, <2>1, <2>2 DEF RowOK, IsMerge, Pending, Terminal
  <2>4. DrainDir'
    BY <2>1 DEF DrainDir, Looping, At
  <2> QED BY <1>0, <2>1, <2>2, <2>3, <2>4, OneRow
<1> QED BY <1>1, <1>2, <1>3, <1>4, <1>5, <1>6, <1>7, <1>8, <1>9, <1>10, <1>11 DEF DrainStep

\* Removing the ref of a request that has ended.
LEMMA CleaningKeepsRows ==
  ASSUME DispatcherTypeOK, \A r \in RequestIds : RowOK(r), NEW q \in RequestIds,
         rows[q].status \in Terminal, CleanedRef(q)
  PROVE  (\A r \in RequestIds : RowOK(r)') /\ UNCHANGED <<rows, runDir>>
<1>1. /\ UNCHANGED <<rows, runDir, published>>
      /\ \A r \in RequestIds \ {q} : internalRef'[r] = internalRef[r]
  BY DEF CleanedRef, queueVars, DispatcherTypeOK
<1>2. RowOK(q)'
  BY <1>1 DEF RowOK, IsMerge, Pending, Terminal
<1> QED BY <1>1, <1>2, OneRow

LEMMA WorkerKeepsRuns ==
  ASSUME DispatcherInv, RunInv, NEW w \in workers, WorkerStep(w)
  PROVE  (\A r \in RequestIds : RowOK(r)') /\ DrainDir'
<1>0. /\ QueueTypeOK /\ DispatcherTypeOK /\ WorkerRows /\ DrainDir /\ w.q \in RequestIds
      /\ \A r \in RequestIds : RowOK(r)
  BY DEF DispatcherInv, DispatcherTypeOK, Control, RunInv
<1>1. ASSUME UNCHANGED runDir, Ends(w) \/ UNCHANGED drain PROVE DrainDir'
  BY <1>0, <1>1 DEF DrainDir, Ends, Looping, At
<1>2. CASE ArchiveEnds(w)
  <2>1. PICK result \in ArchiveStatus : Complete(w.q, result)
    BY <1>2 DEF ArchiveEnds
  <2>2. /\ rows[w.q].status = "waiting_archive" /\ UNCHANGED <<runDir, internalRef, published>>
        /\ Ends(w) \/ UNCHANGED drain
    BY <1>0, <1>2 DEF ArchiveEnds, WorkerRows, durableVars
  <2>3. RowOK(w.q)' /\ \A r \in RequestIds \ {w.q} : rows'[r] = rows[r]
    BY <1>0, <2>1, <2>2, RowOperations, RowStatus DEF Becomes
  <2> QED BY <1>0, <1>1, <2>2, <2>3, OneRow
<1>3. CASE WorkerCleanup(w)
  <2>1. rows[w.q].status \in Terminal /\ CleanedRef(w.q) /\ Ends(w)
    BY <1>0, <1>3 DEF WorkerCleanup, WorkerRows, Terminal
  <2> QED BY <1>0, <1>1, <2>1, CleaningKeepsRows
<1>4. CASE RetryEnds(w)
  <2>1. PICK result \in ArchiveStatus : RecordArchiveRetry(w.q, result)
    BY <1>4 DEF RetryEnds
  <2>2. UNCHANGED <<runDir, internalRef, published>> /\ Ends(w)
    BY <1>4 DEF RetryEnds, durableVars
  <2>3. RowOK(w.q)' /\ \A r \in RequestIds \ {w.q} : rows'[r] = rows[r]
    BY <1>0, <2>1, <2>2, RowOperations, RowStatus DEF Becomes
  <2> QED BY <1>0, <1>1, <2>2, <2>3, OneRow
<1> QED BY <1>2, <1>3, <1>4 DEF WorkerStep

LEMMA RecoveryKeepsRuns ==
  ASSUME DispatcherInv, RunInv, RecoveryStep
  PROVE  (\A r \in RequestIds : RowOK(r)') /\ DrainDir' /\ RecoveryRow'
<1>0. /\ QueueTypeOK /\ DispatcherTypeOK /\ Phases /\ DrainDir /\ RecoveryRow
      /\ \A r \in RequestIds : RowOK(r)
  BY DEF DispatcherInv, DispatcherTypeOK, Control, RunInv
<1>1. ASSUME NEW q \in RequestIds,
             \/ Defer(q) \/ ResumeArchive(q) \/ RecoveryServicesFail(q) \/ PutBack(q)
             \/ AdoptRun(q) \/ ArchiveFinishedRun(q) \/ InterruptRun(q)
      PROVE  (\A r \in RequestIds : RowOK(r)') /\ DrainDir' /\ RecoveryRow'
  <2> USE DEF Inspecting, Scanning, RecoveryOnly
  <2>1. recovery.at = "scan" /\ UNCHANGED <<runDir, internalRef, published, drain>>
    BY <1>1 DEF Defer, ResumeArchive, RecoveryServicesFail, PutBack, AdoptRun,
       ArchiveFinishedRun, InterruptRun, durableVars
  <2>2. DrainDir'
    BY <1>0, <2>1 DEF DrainDir
  <2>3. \/ UNCHANGED rows
        \/ RowOK(q)' /\ \A r \in RequestIds \ {q} : rows'[r] = rows[r]
    <3>1. CASE Defer(q) \/ ResumeArchive(q)
      BY <3>1 DEF Defer, ResumeArchive, queueVars
    <3>2. CASE RecoveryServicesFail(q) \/ InterruptRun(q)
      BY <1>0, <2>1, <3>2, RowOperations, RowStatus DEF RecoveryServicesFail, InterruptRun,
         Becomes
    <3>3. CASE PutBack(q)
      BY <1>0, <2>1, <3>3, RowOperations, RowStatus DEF PutBack, Becomes
    <3>4. CASE AdoptRun(q)
      BY <1>0, <2>1, <3>4, RowOperations, RowStatus DEF AdoptRun, Becomes
    <3>5. CASE ArchiveFinishedRun(q)
      BY <1>0, <2>1, <3>5, RowOperations, RowStatus DEF ArchiveFinishedRun, Becomes
    <3> QED BY <1>1, <3>1, <3>2, <3>3, <3>4, <3>5
  <2>4. \A r \in RequestIds : RowOK(r)'
    <3>1. CASE UNCHANGED rows
      BY <1>0, <2>1, <3>1 DEF RowOK, IsMerge
    <3> QED BY <1>0, <2>1, <2>3, <3>1, OneRow
  <2>5. RecoveryRow'
    <3>1. CASE InterruptRun(q)
      <4>1. rows'[q].status \in Terminal
        BY <1>0, <3>1, RowStatus DEF InterruptRun, Becomes, Terminal
      <4>2. recovery'.at = "cleanup" => recovery'.q = q
        BY <1>0, <2>1, <3>1 DEF InterruptRun, Dealt, DispatcherTypeOK
      <4> QED BY <4>1, <4>2 DEF RecoveryRow
    <3>2. CASE ~InterruptRun(q)
      <4>1. recovery'.at = "scan"
        BY <1>0, <1>1, <2>1, <3>2 DEF Defer, ResumeArchive, RecoveryServicesFail, PutBack,
           AdoptRun, ArchiveFinishedRun, Dealt, DispatcherTypeOK
      <4> QED BY <4>1 DEF RecoveryRow
    <3> QED BY <3>1, <3>2
  <2> QED BY <2>2, <2>4, <2>5
<1>2. CASE RecoveryCleanup
  <2>1. recovery.q \in RequestIds /\ rows[recovery.q].status \in Terminal /\ CleanedRef(recovery.q)
    BY <1>0, <1>2 DEF RecoveryCleanup, RecoveryRow
  <2>2. (\A r \in RequestIds : RowOK(r)') /\ UNCHANGED <<rows, runDir>>
    BY <1>0, <2>1, CleaningKeepsRows
  <2>3. UNCHANGED drain /\ recovery'.at = "scan"
    BY <1>0, <1>2 DEF RecoveryCleanup, DispatcherTypeOK
  <2> QED BY <1>0, <2>2, <2>3 DEF DrainDir, RecoveryRow
<1>3. CASE FirstDrain \/ SecondDrain
  <2>1. /\ UNCHANGED <<rows, runDir, internalRef, published>> /\ StartDrain
        /\ recovery'.at \in {"first", "second"}
    BY <1>0, <1>3 DEF FirstDrain, SecondDrain, queueVars, durableVars, DispatcherTypeOK
  <2>2. \A r \in RequestIds : RowOK(r)'
    BY <1>0, <2>1 DEF RowOK, IsMerge
  <2>3. DrainDir'
    BY <1>0, <2>1 DEF DrainDir, StartDrain, Looping, At
  <2> QED BY <2>1, <2>2, <2>3 DEF RecoveryRow
<1> QED BY <1>1, <1>2, <1>3 DEF RecoveryStep

LEMMA TickKeepsRuns ==
  ASSUME DispatcherInv, RunInv, TickStep
  PROVE  (\A r \in RequestIds : RowOK(r)') /\ DrainDir'
<1>0. /\ QueueTypeOK /\ DispatcherTypeOK /\ DeferredRows /\ DrainDir
      /\ \A r \in RequestIds : RowOK(r)
  BY DEF DispatcherInv, DispatcherTypeOK, Control, RunInv
<1>1. UNCHANGED <<runDir, internalRef, published>> /\ (StartDrain \/ UNCHANGED drain)
  BY DEF TickStep, TickStart, TickRetries, TickDrain, SkipRetry, ArchiveDeferred, RetryArchive,
     TickOnly, durableVars
<1>2. DrainDir'
  BY <1>0, <1>1 DEF DrainDir, StartDrain, Looping, At
<1>3. CASE UNCHANGED rows
  BY <1>0, <1>1, <1>2, <1>3 DEF RowOK, IsMerge
<1>4. ASSUME NEW q \in RequestIds, ArchiveDeferred(q) \/ RetryArchive(q), rows' # rows
      PROVE  \A r \in RequestIds : RowOK(r)'
  <2>1. \/ Complete(q, "failed") /\ rows[q].status = "waiting_archive"
        \/ RecordArchiveRetry(q, "failed")
    BY <1>0, <1>4 DEF ArchiveDeferred, RetryArchive, DeferredRows, queueVars
  <2>2. "failed" \in ArchiveStatus
    BY DEF ArchiveStatus
  <2>3. RowOK(q)' /\ \A r \in RequestIds \ {q} : rows'[r] = rows[r]
    BY <1>0, <1>1, <2>1, <2>2, RowOperations, RowStatus DEF Becomes
  <2> QED BY <1>0, <1>1, <2>3, OneRow
<1>5. \/ UNCHANGED rows
      \/ \E q \in RequestIds : ArchiveDeferred(q) \/ RetryArchive(q)
  BY DEF TickStep, TickStart, TickRetries, TickDrain, SkipRetry, TickOnly, queueVars
<1> QED BY <1>2, <1>3, <1>4, <1>5

\* The poller, the operator and a crash.
LEMMA OthersKeepRuns ==
  ASSUME DispatcherInv, RunInv,
         \/ \E p \in Projects, trigger \in Triggers : Poll(p, trigger)
         \/ Operator \/ Crash \/ UNCHANGED vars
  PROVE  (\A r \in RequestIds : RowOK(r)') /\ DrainDir'
<1>0. IndInv /\ DrainDir /\ \A r \in RequestIds : RowOK(r)
  BY DEF DispatcherInv, RunInv
<1>1. ASSUME UNCHANGED <<rows, runDir, internalRef, published>>
      PROVE  \A r \in RequestIds : RowOK(r)'
  BY <1>0, <1>1 DEF RowOK, IsMerge
<1>2. ASSUME UNCHANGED runDir, StartDrain \/ UNCHANGED drain \/ drain' = Idle PROVE DrainDir'
  BY <1>0, <1>2 DEF DrainDir, StartDrain, Looping, Idle, At
<1>3. ASSUME NEW p \in Projects, NEW trigger \in Triggers, Poll(p, trigger)
      PROVE  (\A r \in RequestIds : RowOK(r)') /\ DrainDir'
  <2>1. /\ Enqueue(p, "automatic-head", trigger)
        /\ UNCHANGED <<runDir, internalRef, published, drain>>
    BY <1>3 DEF Poll, durableVars, processVars
  <2>2. "automatic-head" \in Kinds
    BY DEF Kinds
  <2> QED BY <1>0, <1>2, <2>1, <2>2, EnqueueKeepsRows
<1>4. ASSUME NEW p \in Projects, NEW kind \in Kinds, SubmitRun(p, kind)
      PROVE  (\A r \in RequestIds : RowOK(r)') /\ DrainDir'
  <2>1. /\ Enqueue(p, kind, "manual") /\ StartDrain
        /\ UNCHANGED <<runDir, internalRef, published>>
    BY <1>4 DEF SubmitRun, durableVars
  <2>2. "manual" \in Triggers
    BY DispatcherAssumption
  <2> QED BY <1>0, <1>2, <2>1, <2>2, EnqueueKeepsRows
<1>5. ASSUME NEW p \in Projects, PauseProject(p) \/ ResumeProject(p)
      PROVE  (\A r \in RequestIds : RowOK(r)') /\ DrainDir'
  <2>1. UNCHANGED <<rows, runDir, internalRef, published, drain>>
    BY <1>5 DEF PauseProject, ResumeProject, Pause, Activate, durableVars, processVars
  <2> QED BY <1>1, <1>2, <2>1
<1>6. CASE Crash
  <2>1. UNCHANGED <<rows, runDir, internalRef, published>> /\ drain' = Idle
    BY <1>6 DEF Crash, queueVars, durableVars
  <2> QED BY <1>1, <1>2, <2>1
<1>7. CASE UNCHANGED vars
  <2>1. UNCHANGED <<rows, runDir, internalRef, published, drain>>
    BY <1>7 DEF vars, queueVars, durableVars, processVars
  <2> QED BY <1>1, <1>2, <2>1
<1> QED BY <1>3, <1>4, <1>5, <1>6, <1>7 DEF Operator
-----------------------------------------------------------------------------
(***************************************************************************)
(* The invariant.                                                          *)
(***************************************************************************)
LEMMA RunInit == Init => RunInv
<1> SUFFICES ASSUME Init PROVE RunInv
  OBVIOUS
<1>1. /\ published = [q \in RequestIds |-> NoCommit] /\ recovery.at = "scan" /\ drain.at = "idle"
  BY DEF Init, FreshInit, CutoverInit, Booting, Idle
<1>2. CASE FreshInit
  <2>1. \A q \in RequestIds : rows[q] = NoRow /\ runDir[q] = "none"
    BY <1>2 DEF FreshInit, QueueInit
  <2> QED BY <1>1, <2>1 DEF RunInv, RowOK, IsMerge, NoRow, DrainDir, RecoveryRow
<1>3. CASE CutoverInit
  <2>1. PICK c \in Commits : rows = [q \in RequestIds |-> IF q = 1 THEN CutoverRow(c) ELSE NoRow]
    BY <1>3 DEF CutoverInit
  <2>2. runDir = [q \in RequestIds |-> IF q = 1 THEN "completed" ELSE "none"]
    BY <1>3 DEF CutoverInit
  <2>3. \A q \in RequestIds : RowOK(q)
    BY <1>1, <2>1, <2>2 DEF RowOK, IsMerge, NoRow, CutoverRow
  <2> QED BY <1>1, <2>3 DEF RunInv, DrainDir, RecoveryRow
<1> QED BY <1>2, <1>3 DEF Init

\* Only the recovery comes to remove a ref, and the request it does this for stays ended.
LEMMA RecoveryRowKept ==
  ASSUME DispatcherInv, RunInv, [Next]_vars, ~RecoveryStep
  PROVE  RecoveryRow'
<1>0. DispatcherTypeOK /\ Phases /\ RecoveryRow /\ TypeInv
  BY DEF DispatcherInv, Control, RunInv, IndInv
<1>1. [QueueNext]_queueVars
  BY StepInv
<1>2. UNCHANGED recovery \/ recovery'.at \in {"scan", "done"}
  <2>1. CASE DrainStep
    BY <1>0, <2>1 DEF DrainStep, DrainClaim, DrainWait, DrainExit, ServicesFail, StepFails,
       ReuseTarget, ResolveHead, MakeMergeRef, RecordPrepared, ReusePrepared, PublishMerge,
       RecordPublished, StartRun, RecordStarted, RunCompletes, RunFails, RecordExecuted,
       RecordFailed, DrainCleanup, DrainOnly, DispatcherTypeOK
  <2>2. CASE \E w \in workers : WorkerStep(w)
    BY <2>2 DEF WorkerStep, ArchiveEnds, WorkerCleanup, RetryEnds
  <2>3. CASE TickStep
    BY <2>3 DEF TickStep, TickStart, TickRetries, TickDrain, SkipRetry, ArchiveDeferred,
       RetryArchive, TickOnly
  <2>4. CASE Operator \/ \E p \in Projects, trigger \in Triggers : Poll(p, trigger)
    BY <2>4 DEF Operator, SubmitRun, PauseProject, ResumeProject, Poll, processVars
  <2>5. CASE Crash \/ UNCHANGED vars
    BY <2>5 DEF Crash, vars, processVars
  <2> QED BY <2>1, <2>2, <2>3, <2>4, <2>5 DEF Next
<1>3. CASE recovery'.at \in {"scan", "done"}
  BY <1>3 DEF RecoveryRow
<1>4. CASE UNCHANGED recovery
  <2>1. recovery.at = "cleanup" => rows'[recovery.q].status \in Terminal
    BY <1>0, <1>1, EndedStays DEF RecoveryRow
  <2> QED BY <1>0, <1>4, <2>1 DEF RecoveryRow
<1> QED BY <1>2, <1>3, <1>4

LEMMA RunStep == DispatcherInv /\ RunInv /\ [Next]_vars => RunInv'
<1> SUFFICES ASSUME DispatcherInv, RunInv, [Next]_vars PROVE RunInv'
  OBVIOUS
<1>1. (\A r \in RequestIds : RowOK(r)') /\ DrainDir'
  BY DrainKeepsRuns, WorkerKeepsRuns, RecoveryKeepsRuns, TickKeepsRuns, OthersKeepRuns DEF Next
<1>2. RecoveryRow'
  BY RecoveryKeepsRuns, RecoveryRowKept
<1> QED BY <1>1, <1>2 DEF RunInv

LEMMA RunCorrect == Spec => [](DispatcherInv /\ RunInv)
<1>1. Init => DispatcherInv /\ RunInv
  BY InitInv, RunInit
<1>2. DispatcherInv /\ RunInv /\ [Next]_vars => DispatcherInv' /\ RunInv'
  BY StepInv, RunStep
<1> QED BY <1>1, <1>2, PTL DEF Spec
-----------------------------------------------------------------------------
(***************************************************************************)
(* The theorems.                                                           *)
(***************************************************************************)
\* A Run is created only where no earlier try left a directory: no restart makes
\* the loop start the Run of a request again (runs.start, recoverInner).
THEOREM RunStartsOnceCorrect == Spec => []RunStartsOnce
<1>1. RunInv => RunStartsOnce
  BY DEF RunInv, DrainDir, RunStartsOnce
<1> QED BY <1>1, RunCorrect, PTL

\* Only finished Runs are archived (processClaimed, recoverInner).
THEOREM ArchivedRunFinishedCorrect == Spec => []ArchivedRunFinished
<1>1. RunInv => ArchivedRunFinished
  BY DEF RunInv, RowOK, ArchivedRunFinished
<1> QED BY <1>1, RunCorrect, PTL

\* The ref of a prepared merge outlives everything but the end of its request
\* (prepareMergeRequest, cleanupRef).
THEOREM PreparedMergeKeptCorrect == Spec => []PreparedMergeKept
<1>1. RunInv => PreparedMergeKept
  BY DEF RunInv, RowOK, PreparedMergeKept
<1> QED BY <1>1, RunCorrect, PTL

\* The target of a merge request is on the scenario branch before the queue knows
\* it (resolveTarget).
THEOREM TargetPublishedCorrect == Spec => []TargetPublished
<1>1. RunInv => TargetPublished
  BY DEF RunInv, RowOK, TargetPublished
<1> QED BY <1>1, RunCorrect, PTL

\* No second merge takes the place of the first, in the ref or on the branch
\* (prepareMergeRequest, publishPreparedMerge).
THEOREM MergeMadeOnceCorrect == Spec => MergeMadeOnce
<1>1. ASSUME DispatcherInv, RunInv, [Next]_vars, NEW q \in RequestIds
      PROVE  /\ internalRef[q] # NoCommit => internalRef'[q] \in {internalRef[q], NoCommit}
             /\ rows[q].prepared # NoCommit => internalRef'[q] \in {internalRef[q], NoCommit}
             /\ published[q] # NoCommit => published'[q] = published[q]
  <2>0. DispatcherTypeOK /\ RowOK(q)
    BY <1>1 DEF DispatcherInv, RunInv
  <2>1. CASE MakeMergeRef
    <3>1. /\ rows[drain.q].prepared = NoCommit /\ internalRef[drain.q] = NoCommit
          /\ UNCHANGED published
      BY <2>1 DEF MakeMergeRef
    <3>2. q # drain.q => internalRef'[q] = internalRef[q]
      BY <2>0, <2>1 DEF MakeMergeRef, DispatcherTypeOK
    <3> QED BY <3>1, <3>2
  <2>2. CASE PublishMerge
    <3>1. /\ UNCHANGED internalRef
          /\ published' = [published EXCEPT ![drain.q] = rows[drain.q].prepared]
      BY <2>2 DEF PublishMerge
    <3>2. \/ published'[q] = published[q]
          \/ q = drain.q /\ published'[q] = rows[q].prepared
      BY <2>0, <3>1 DEF DispatcherTypeOK
    <3> QED BY <2>0, <3>1, <3>2 DEF RowOK
  <2>3. ASSUME NEW r, CleanedRef(r)
        PROVE  UNCHANGED published /\ internalRef'[q] \in {internalRef[q], NoCommit}
    BY <2>0, <2>3 DEF CleanedRef, DispatcherTypeOK
  <2>4. CASE DrainCleanup \/ RecoveryCleanup \/ \E w \in workers : WorkerCleanup(w)
    BY <2>3, <2>4 DEF DrainCleanup, RecoveryCleanup, WorkerCleanup
  <2>5. \/ MakeMergeRef \/ PublishMerge
        \/ DrainCleanup \/ RecoveryCleanup \/ \E w \in workers : WorkerCleanup(w)
        \/ UNCHANGED <<internalRef, published>>
    <3>1. CASE DrainStep
      BY <3>1 DEF DrainStep, DrainClaim, DrainWait, DrainExit, ServicesFail, StepFails,
         ReuseTarget, ResolveHead, RecordPrepared, ReusePrepared, RecordPublished, StartRun,
         RecordStarted, RunCompletes, RunFails, RecordExecuted, RecordFailed, DrainOnly,
         durableVars
    <3>2. CASE \E w \in workers : WorkerStep(w)
      BY <3>2 DEF WorkerStep, ArchiveEnds, RetryEnds, durableVars
    <3>3. CASE RecoveryStep
      BY <3>3 DEF RecoveryStep, Defer, RecoveryServicesFail, ResumeArchive, PutBack, AdoptRun,
         ArchiveFinishedRun, InterruptRun, FirstDrain, SecondDrain, RecoveryOnly, durableVars
    <3>4. CASE TickStep
      BY <3>4 DEF TickStep, TickStart, TickRetries, TickDrain, SkipRetry, ArchiveDeferred,
         RetryArchive, TickOnly, durableVars
    <3>5. CASE Operator \/ Crash \/ UNCHANGED vars
               \/ \E p \in Projects, trigger \in Triggers : Poll(p, trigger)
      BY <3>5 DEF Operator, SubmitRun, PauseProject, ResumeProject, Poll, Crash, vars,
         durableVars
    <3> QED BY <1>1, <3>1, <3>2, <3>3, <3>4, <3>5 DEF Next
  <2>6. CASE UNCHANGED <<internalRef, published>>
    BY <2>6
  <2> QED BY <2>1, <2>2, <2>4, <2>5, <2>6
<1>2. DispatcherInv /\ RunInv /\ [Next]_vars =>
        [\A q \in RequestIds :
           /\ internalRef[q] # NoCommit => internalRef'[q] \in {internalRef[q], NoCommit}
           /\ rows[q].prepared # NoCommit => internalRef'[q] \in {internalRef[q], NoCommit}
           /\ published[q] # NoCommit => published'[q] = published[q]]_vars
  BY <1>1
<1> QED BY <1>2, RunCorrect, PTL DEF Spec, MergeMadeOnce
=============================================================================
