------------------------------ MODULE Dispatcher ------------------------------
(***************************************************************************)
(* The process that works the queue: the project dispatcher                *)
(* (automation/project-dispatcher.ts), the background scheduler's tick     *)
(* that keeps it going (projects/background-scheduler.ts), the API routes  *)
(* that submit Runs (projects/run-routes.ts) and the restart that cuts any *)
(* of them short.                                                          *)
(*                                                                         *)
(* One asynchronous function is one program counter here, and a step ends  *)
(* where the code awaits something or has just made something durable, so  *)
(* that a crash may fall between any two durable writes.  Durable are the  *)
(* queue's rows, the Run directories, the Git refs and the cutover marker; *)
(* every other variable is memory of the process and is lost by Crash.     *)
(***************************************************************************)
EXTENDS TestRequestQueue

CONSTANTS
    MaxCrashes,     \* bound: crashes of the process
    DeletionsFail   \* whether the deletion of a Git ref may fail

ASSUME DispatcherAssumption ==
    /\ MaxRequests # 0  \* room for the request an upgrade may leave
    /\ "manual" \in Triggers  \* the console submits requests
    /\ MaxCrashes \in Nat
    /\ DeletionsFail \in BOOLEAN

VARIABLES
    runDir,       \* where the Run directory of a request is
    internalRef,  \* refs/luowang/merge-requests/<queue_id> of the project's clone
    published,    \* the merge commit pushed to the scenario branch for a request
    awaiting,     \* projects whose background work waits for their first resume
    drain,        \* drainInner: where it is, the request it works on
    workers,      \* the running archive() calls and archive retries
    recovery,     \* recoverInner: where it is, the in-flight rows left, the row at hand
    deferred,     \* deferredArchives
    tick,         \* the scheduler's tick and what is left of its archive retries
    crashes       \* bounded by MaxCrashes

durableVars == <<runDir, internalRef, published, awaiting>>
processVars == <<drain, workers, recovery, deferred, tick, crashes>>
vars == <<queueVars, durableVars, processVars>>
-----------------------------------------------------------------------------
DrainAt == {"idle", "claim", "claimed", "ref_made", "prepared", "published",
            "resolved", "started", "executing", "executed", "failing", "cleanup", "waiting"}

Caller == {"drain", "recovery", "deferred", "retry"}

DispatcherTypeOK ==
    /\ QueueTypeOK
    /\ runDir \in [RequestIds -> {"none", "running", "completed"}]
    /\ internalRef \in [RequestIds -> {NoCommit} \cup Commits]
    /\ published \in [RequestIds -> {NoCommit} \cup Commits]
    /\ awaiting \subseteq Projects
    /\ drain \in [at: DrainAt, q: 0..MaxRequests]
    /\ workers \subseteq [q: RequestIds, by: Caller, phase: {"archiving", "cleanup"}]
    /\ recovery \in [at: {"scan", "cleanup", "first", "second", "done"},
                     todo: SUBSET RequestIds, q: 0..MaxRequests]
    /\ deferred \subseteq RequestIds
    /\ tick \in [at: {"idle", "poll", "retry", "drain"}, todo: SUBSET RequestIds]
    /\ crashes \in 0..MaxCrashes

IsMerge(q) == rows[q].kind = "manual-merge-source"

\* The HTTP server listens and the timer runs only once recovery has ended.
Listening == recovery.at = "done"

Idle == [at |-> "idle", q |-> 0]
At(step, q) == [at |-> step, q |-> q]
Goto(step) == drain' = At(step, drain.q)
Looping == At("claim", 0)

\* Mutant: the rows that were being executed are not listed.
InFlightArchivesOnly == {q \in RequestIds : rows[q].status = "waiting_archive"}

\* listInFlight
InFlight == {q \in RequestIds : rows[q].status \in {"running", "waiting_archive"}}

WorkersOf(by) == {w \in workers : w.by = by}
Archiving(q, by) == [q |-> q, by |-> by, phase |-> "archiving"]
-----------------------------------------------------------------------------
(***************************************************************************)
(* A fresh deployment, or the first start after an offline upgrade that    *)
(* left project 1 paused with one archive pending.                         *)
(***************************************************************************)
Booting(inFlight) ==
    /\ drain = Idle
    /\ workers = {}
    /\ recovery = [at |-> "scan", todo |-> inFlight, q |-> 0]
    /\ deferred = {}
    /\ tick = [at |-> "idle", todo |-> {}]

FreshInit ==
    /\ QueueInit
    /\ runDir = [q \in RequestIds |-> "none"]
    /\ awaiting = {}
    /\ Booting({})

CutoverRow(c) ==
    [status |-> "waiting_archive", project |-> 1, kind |-> "automatic-head", sources |-> {},
     revision |-> 1, semantics |-> 1, prepared |-> NoCommit, resolved |-> c, run |-> TRUE,
     archive |-> "none"]

CutoverInit ==
    /\ \E c \in Commits : rows = [q \in RequestIds |-> IF q = 1 THEN CutoverRow(c) ELSE NoRow]
    /\ lastId = 1
    /\ projectStatus = [p \in Projects |-> "paused"]
    /\ revision = [p \in Projects |-> 1]
    /\ semantics = [p \in Projects |-> 1]
    /\ cursor = 0
    /\ runDir = [q \in RequestIds |-> IF q = 1 THEN "completed" ELSE "none"]
    /\ awaiting = {1}
    /\ Booting({1})

Init ==
    /\ FreshInit \/ CutoverInit
    /\ internalRef = [q \in RequestIds |-> NoCommit]
    /\ published = [q \in RequestIds |-> NoCommit]
    /\ crashes = 0
-----------------------------------------------------------------------------
(***************************************************************************)
(* drain(): one loop at a time; a caller that finds it running joins it.   *)
(* processClaimed and resolveTarget are its steps.                         *)
(***************************************************************************)
StartDrain == drain' = IF drain.at = "idle" THEN Looping ELSE drain

\* A step of the loop that writes nothing but the queue.
DrainOnly == UNCHANGED <<durableVars, workers, recovery, deferred, tick, crashes>>

DrainClaim ==
    /\ drain.at = "claim"
    /\ \E q \in RequestIds : ClaimNext(q) /\ drain' = At("claimed", q)
    /\ DrainOnly

\* Nothing to claim: sleep until one of the loop's own archives has ended.
DrainWait ==
    /\ drain.at = "claim"
    /\ \A q \in RequestIds : ~Claimable(q)
    /\ WorkersOf("drain") # {}
    /\ drain' = At("waiting", 0)
    /\ UNCHANGED queueVars /\ DrainOnly

\* Whoever awaited the loop goes on.
DrainExit ==
    /\ drain.at = "claim"
    /\ \A q \in RequestIds : ~Claimable(q)
    /\ WorkersOf("drain") = {}
    /\ drain' = Idle
    /\ tick' = IF tick.at = "drain" THEN [tick EXCEPT !.at = "idle"] ELSE tick
    /\ recovery' = IF recovery.at = "second" THEN [recovery EXCEPT !.at = "done"] ELSE recovery
    /\ UNCHANGED <<queueVars, durableVars, workers, deferred, crashes>>

\* The services of the request cannot be built: there is nothing to clean up.
ServicesFail ==
    /\ drain.at = "claimed"
    /\ Fail(drain.q, "failed")
    /\ drain' = Looping
    /\ DrainOnly

\* The repository, Git or the start of the Run reports an error, which may come
\* after the ref, the push or the directory was made.
StepFails ==
    /\ drain.at \in {"claimed", "ref_made", "prepared", "published", "resolved", "started"}
    /\ Goto("failing")
    /\ UNCHANGED queueVars /\ DrainOnly

\* A target fixed before a restart is used again.
ReuseTarget ==
    /\ drain.at = "claimed"
    /\ rows[drain.q].resolved # NoCommit
    /\ Goto("resolved")
    /\ UNCHANGED queueVars /\ DrainOnly

\* The head of the scenario branch becomes the target.
ResolveHead ==
    /\ drain.at = "claimed"
    /\ rows[drain.q].resolved = NoCommit
    /\ ~IsMerge(drain.q)
    /\ \E c \in Commits : MarkResolved(drain.q, c)
    /\ Goto("resolved")
    /\ DrainOnly

\* Mutant: a ref left by an earlier try is not looked for.
MakeMergeRefAgain ==
    /\ drain.at = "claimed"
    /\ rows[drain.q].resolved = NoCommit
    /\ IsMerge(drain.q)
    /\ rows[drain.q].prepared = NoCommit
    /\ \E c \in Commits : internalRef' = [internalRef EXCEPT ![drain.q] = c]
    /\ Goto("ref_made")
    /\ UNCHANGED <<queueVars, runDir, published, awaiting>>
    /\ UNCHANGED <<workers, recovery, deferred, tick, crashes>>

\* prepareMergeRequest: a ref whose commit was not recorded stops the request
\* (StepFails is then the only way on).
MakeMergeRef ==
    /\ drain.at = "claimed"
    /\ rows[drain.q].resolved = NoCommit
    /\ IsMerge(drain.q)
    /\ rows[drain.q].prepared = NoCommit
    /\ internalRef[drain.q] = NoCommit
    /\ \E c \in Commits : internalRef' = [internalRef EXCEPT ![drain.q] = c]
    /\ Goto("ref_made")
    /\ UNCHANGED <<queueVars, runDir, published, awaiting>>
    /\ UNCHANGED <<workers, recovery, deferred, tick, crashes>>

RecordPrepared ==
    /\ drain.at = "ref_made"
    /\ MarkPrepared(drain.q, internalRef[drain.q])
    /\ Goto("prepared")
    /\ DrainOnly

\* Mutant: the prepared commit is taken for a published target.
ReusePreparedUnpublished ==
    /\ drain.at = "claimed"
    /\ rows[drain.q].resolved = NoCommit
    /\ IsMerge(drain.q)
    /\ rows[drain.q].prepared # NoCommit
    /\ MarkResolved(drain.q, rows[drain.q].prepared)
    /\ Goto("resolved")
    /\ DrainOnly

\* A merge prepared before a restart is published, not prepared again.
ReusePrepared ==
    /\ drain.at = "claimed"
    /\ rows[drain.q].resolved = NoCommit
    /\ IsMerge(drain.q)
    /\ rows[drain.q].prepared # NoCommit
    /\ Goto("prepared")
    /\ UNCHANGED queueVars /\ DrainOnly

\* publishPreparedMerge: nothing to do if the branch has the commit; else the
\* ref must still hold it.
PublishMerge ==
    /\ drain.at = "prepared"
    /\ published[drain.q] = rows[drain.q].prepared
         \/ internalRef[drain.q] = rows[drain.q].prepared
    /\ published' = [published EXCEPT ![drain.q] = rows[drain.q].prepared]
    /\ Goto("published")
    /\ UNCHANGED <<queueVars, runDir, internalRef, awaiting>>
    /\ UNCHANGED <<workers, recovery, deferred, tick, crashes>>

RecordPublished ==
    /\ drain.at = "published"
    /\ MarkResolved(drain.q, published[drain.q])
    /\ Goto("resolved")
    /\ DrainOnly

\* runs.start creates the Run directory and refuses one that exists (StepFails).
StartRun ==
    /\ drain.at = "resolved"
    /\ runDir[drain.q] = "none"
    /\ runDir' = [runDir EXCEPT ![drain.q] = "running"]
    /\ Goto("started")
    /\ UNCHANGED <<queueVars, internalRef, published, awaiting>>
    /\ UNCHANGED <<workers, recovery, deferred, tick, crashes>>

RecordStarted ==
    /\ drain.at = "started"
    /\ MarkStarted(drain.q)
    /\ Goto("executing")
    /\ DrainOnly

\* The Run's report is accepted: its directory is renamed to completed.
RunCompletes ==
    /\ drain.at = "executing"
    /\ runDir' = [runDir EXCEPT ![drain.q] = "completed"]
    /\ Goto("executed")
    /\ UNCHANGED <<queueVars, internalRef, published, awaiting>>
    /\ UNCHANGED <<workers, recovery, deferred, tick, crashes>>

\* A Run that fails leaves its directory in running.
RunFails ==
    /\ drain.at = "executing"
    /\ Goto("failing")
    /\ UNCHANGED queueVars /\ DrainOnly

\* Hand the Run over to its archive and go on claiming.
RecordExecuted ==
    /\ drain.at = "executed"
    /\ MarkWaitingArchive(drain.q)
    /\ workers' = workers \cup {Archiving(drain.q, "drain")}
    /\ drain' = Looping
    /\ UNCHANGED <<durableVars, recovery, deferred, tick, crashes>>

\* Mutant: the failure is not recorded in the queue.
RecordFailedNowhere ==
    /\ drain.at = "failing"
    /\ drain' = Looping
    /\ UNCHANGED queueVars /\ DrainOnly

\* A Run whose directory cannot be read any more is told as interrupted.
RecordFailed ==
    /\ drain.at = "failing"
    /\ \E status \in {"failed", "interrupted"} :
         Fail(drain.q, status) /\ (status = "interrupted" => rows[drain.q].run)
    /\ drain' = IF IsMerge(drain.q) THEN At("cleanup", drain.q) ELSE Looping
    /\ DrainOnly

\* cleanupRef: a deletion that fails is only logged.
CleanedRef(q) ==
    /\ \/ internalRef' = [internalRef EXCEPT ![q] = NoCommit]
       \/ DeletionsFail /\ UNCHANGED internalRef
    /\ UNCHANGED <<queueVars, runDir, published, awaiting>>

DrainCleanup ==
    /\ drain.at = "cleanup"
    /\ CleanedRef(drain.q)
    /\ drain' = Looping
    /\ UNCHANGED <<workers, recovery, deferred, tick, crashes>>

DrainStep ==
    \/ DrainClaim \/ DrainWait \/ DrainExit \/ ServicesFail \/ StepFails
    \/ ReuseTarget \/ ResolveHead \/ MakeMergeRef \/ RecordPrepared \/ ReusePrepared
    \/ PublishMerge \/ RecordPublished \/ StartRun \/ RecordStarted
    \/ RunCompletes \/ RunFails \/ RecordExecuted \/ RecordFailed \/ DrainCleanup
-----------------------------------------------------------------------------
(***************************************************************************)
(* archive() and the retry of a finished request's archive.  What the      *)
(* archiver does meanwhile is its own module's subject; here it ends with  *)
(* a result or an error, and an error counts as a failed archive.          *)
(***************************************************************************)
\* Mutant: the loop is not told that an archive has ended.
EndsUnseen(w) == workers' = workers \ {w} /\ UNCHANGED drain

\* The end of a worker wakes the loop if it sleeps on its archives.
Ends(w) ==
    /\ workers' = workers \ {w}
    /\ drain' = IF w.by = "drain" /\ drain.at = "waiting" THEN Looping ELSE drain

ArchiveEnds(w) ==
    /\ w.phase = "archiving"
    /\ w.by # "retry"
    /\ \E result \in ArchiveStatus : Complete(w.q, result)
    /\ IF IsMerge(w.q)
       THEN workers' = (workers \ {w}) \cup {[w EXCEPT !.phase = "cleanup"]} /\ UNCHANGED drain
       ELSE Ends(w)
    /\ UNCHANGED <<durableVars, recovery, deferred, tick, crashes>>

WorkerCleanup(w) ==
    /\ w.phase = "cleanup"
    /\ CleanedRef(w.q)
    /\ Ends(w)
    /\ UNCHANGED <<recovery, deferred, tick, crashes>>

RetryEnds(w) ==
    /\ w.by = "retry"
    /\ \E result \in ArchiveStatus : RecordArchiveRetry(w.q, result)
    /\ Ends(w)
    /\ UNCHANGED <<durableVars, recovery, deferred, tick, crashes>>

WorkerStep(w) == ArchiveEnds(w) \/ WorkerCleanup(w) \/ RetryEnds(w)
-----------------------------------------------------------------------------
(***************************************************************************)
(* recoverInner: the rows in flight when the process ended, in queue       *)
(* order, then the whole backlog.  The archives it starts run meanwhile.   *)
(***************************************************************************)
RecoveryOnly == UNCHANGED <<durableVars, drain, deferred, tick, crashes>>

\* The row at hand, and the recovery once it has been dealt with.
Scanning(q) ==
    /\ recovery.at = "scan"
    /\ q \in recovery.todo
    /\ \A r \in recovery.todo : q <= r
Dealt(q) == [recovery EXCEPT !.todo = @ \ {q}]

AwaitsCutover(q) == rows[q].status = "waiting_archive" /\ rows[q].project \in awaiting

\* Mutant: the row is passed over but not remembered.
DeferForgotten(q) ==
    /\ Scanning(q)
    /\ AwaitsCutover(q)
    /\ recovery' = Dealt(q)
    /\ UNCHANGED <<queueVars, durableVars, drain, workers, deferred, tick, crashes>>

Defer(q) ==
    /\ Scanning(q)
    /\ AwaitsCutover(q)
    /\ deferred' = deferred \cup {q}
    /\ recovery' = Dealt(q)
    /\ UNCHANGED <<queueVars, durableVars, drain, workers, tick, crashes>>

\* A row that is looked into.
Inspecting(q) == Scanning(q) /\ ~AwaitsCutover(q)

\* The services cannot be built: the row is given up.
RecoveryServicesFail(q) ==
    /\ Inspecting(q)
    /\ Fail(q, "interrupted")
    /\ recovery' = Dealt(q)
    /\ UNCHANGED workers /\ RecoveryOnly

ResumeArchive(q) ==
    /\ Inspecting(q)
    /\ rows[q].status = "waiting_archive"
    /\ workers' = workers \cup {Archiving(q, "recovery")}
    /\ recovery' = Dealt(q)
    /\ UNCHANGED queueVars /\ RecoveryOnly

\* Mutant: the Run directory is not consulted.
PutBackBlindly(q) ==
    /\ Inspecting(q)
    /\ rows[q].status = "running" /\ ~rows[q].run
    /\ Requeue(q)
    /\ recovery' = Dealt(q)
    /\ UNCHANGED workers /\ RecoveryOnly

\* Mutant: the ref is cleaned up as after a failure.
PutBackAndClean(q) ==
    /\ Inspecting(q)
    /\ rows[q].status = "running" /\ ~rows[q].run
    /\ runDir[q] = "none"
    /\ Requeue(q)
    /\ recovery' = Dealt(q)
    /\ internalRef' = [internalRef EXCEPT ![q] = NoCommit]
    /\ UNCHANGED <<runDir, published, awaiting, drain, workers, deferred, tick, crashes>>

\* Claimed, but no Run was created.
PutBack(q) ==
    /\ Inspecting(q)
    /\ rows[q].status = "running" /\ ~rows[q].run
    /\ runDir[q] = "none"
    /\ Requeue(q)
    /\ recovery' = Dealt(q)
    /\ UNCHANGED workers /\ RecoveryOnly

\* The Run exists and the row does not know it yet.
AdoptRun(q) ==
    /\ Inspecting(q)
    /\ rows[q].status = "running" /\ ~rows[q].run
    /\ runDir[q] # "none"
    /\ MarkStarted(q)
    /\ UNCHANGED <<recovery, workers>> /\ RecoveryOnly

\* Mutant: any Run found is taken for a finished one.
ArchiveFoundRun(q) ==
    /\ Inspecting(q)
    /\ rows[q].status = "running" /\ rows[q].run
    /\ MarkWaitingArchive(q)
    /\ workers' = workers \cup {Archiving(q, "recovery")}
    /\ recovery' = Dealt(q)
    /\ RecoveryOnly

ArchiveFinishedRun(q) ==
    /\ Inspecting(q)
    /\ rows[q].status = "running" /\ rows[q].run
    /\ runDir[q] = "completed"
    /\ MarkWaitingArchive(q)
    /\ workers' = workers \cup {Archiving(q, "recovery")}
    /\ recovery' = Dealt(q)
    /\ RecoveryOnly

\* The Run was cut short, or looking into it failed: it is not resumed.
InterruptRun(q) ==
    /\ Inspecting(q)
    /\ rows[q].status = "running"
    /\ Fail(q, "interrupted")
    /\ recovery' = IF IsMerge(q) THEN [Dealt(q) EXCEPT !.at = "cleanup", !.q = q] ELSE Dealt(q)
    /\ UNCHANGED workers /\ RecoveryOnly

RecoveryCleanup ==
    /\ recovery.at = "cleanup"
    /\ CleanedRef(recovery.q)
    /\ recovery' = [recovery EXCEPT !.at = "scan", !.q = 0]
    /\ UNCHANGED <<drain, workers, deferred, tick, crashes>>

FirstDrain ==
    /\ recovery.at = "scan" /\ recovery.todo = {}
    /\ recovery' = [recovery EXCEPT !.at = "first"]
    /\ StartDrain
    /\ UNCHANGED <<queueVars, durableVars, workers, deferred, tick, crashes>>

\* Mutant: the second loop is awaited but not started.
SecondDrainNotStarted ==
    /\ recovery.at = "first"
    /\ drain.at = "idle"
    /\ WorkersOf("recovery") = {}
    /\ recovery' = [recovery EXCEPT !.at = "second"]
    /\ UNCHANGED <<queueVars, durableVars, drain, workers, deferred, tick, crashes>>

\* The first loop and the recovered archives have ended; the projects those
\* archives held up are served now.
SecondDrain ==
    /\ recovery.at = "first"
    /\ drain.at = "idle"
    /\ WorkersOf("recovery") = {}
    /\ recovery' = [recovery EXCEPT !.at = "second"]
    /\ StartDrain
    /\ UNCHANGED <<queueVars, durableVars, workers, deferred, tick, crashes>>

RecoveryStep ==
    \/ \E q \in RequestIds :
          \/ Defer(q) \/ RecoveryServicesFail(q) \/ ResumeArchive(q) \/ PutBack(q)
          \/ AdoptRun(q) \/ ArchiveFinishedRun(q) \/ InterruptRun(q)
    \/ RecoveryCleanup \/ FirstDrain \/ SecondDrain
-----------------------------------------------------------------------------
(***************************************************************************)
(* The scheduler's tick: poll the projects, retry archives one after the   *)
(* other, drain.  The timer starts one when none is active.                *)
(***************************************************************************)
TickOnly == UNCHANGED <<queueVars, durableVars, drain, workers, recovery, deferred, crashes>>

TickStart ==
    /\ Listening
    /\ tick.at = "idle"
    /\ tick' = [tick EXCEPT !.at = "poll"]
    /\ TickOnly

\* The poller of a project, or its cron expression, submits a request.
Poll(p, trigger) ==
    /\ tick.at = "poll"
    /\ p \notin awaiting
    /\ Enqueue(p, "automatic-head", trigger)
    /\ UNCHANGED <<durableVars, processVars>>

\* Mutant: every pending archive is listed, not the deferred ones only.
TickRetriesAll ==
    /\ tick.at = "poll"
    /\ tick' = [at |-> "retry",
                todo |-> {q \in RequestIds :
                            \/ rows[q].status = "waiting_archive"
                            \/ rows[q].status = "completed" /\ rows[q].archive \in {"failed", "partial"}}]
    /\ TickOnly

\* retryArchives lists the queue once, before it awaits anything.
TickRetries ==
    /\ tick.at = "poll"
    /\ tick' = [at |-> "retry",
                todo |-> {q \in RequestIds :
                            \/ q \in deferred /\ rows[q].status = "waiting_archive"
                            \/ rows[q].status = "completed" /\ rows[q].archive \in {"failed", "partial"}}]
    /\ TickOnly

Retrying(q) ==
    /\ tick.at = "retry"
    /\ q \in tick.todo
    /\ \A r \in tick.todo : q <= r
    /\ WorkersOf("retry") \cup WorkersOf("deferred") = {}
    /\ tick' = [tick EXCEPT !.todo = @ \ {q}]

\* The project still waits for its first resume, or the last attempt is less
\* than a minute old.
SkipRetry(q) ==
    /\ Retrying(q)
    /\ rows[q].project \in awaiting \/ q \notin deferred
    /\ TickOnly

\* Its project resumed: the deferred archive runs like one of the loop's.
ArchiveDeferred(q) ==
    /\ Retrying(q)
    /\ rows[q].project \notin awaiting
    /\ q \in deferred
    /\ deferred' = deferred \ {q}
    /\ \/ workers' = workers \cup {Archiving(q, "deferred")} /\ UNCHANGED queueVars
       \/ Complete(q, "failed") /\ UNCHANGED workers
    /\ UNCHANGED <<durableVars, drain, recovery, crashes>>

RetryArchive(q) ==
    /\ Retrying(q)
    /\ rows[q].project \notin awaiting
    /\ q \notin deferred
    /\ \/ workers' = workers \cup {Archiving(q, "retry")} /\ UNCHANGED queueVars
       \/ RecordArchiveRetry(q, "failed") /\ UNCHANGED workers
    /\ UNCHANGED <<durableVars, drain, recovery, deferred, crashes>>

\* Mutant: the tick ends without draining.
TickEndsEarly ==
    /\ tick.at = "retry" /\ tick.todo = {}
    /\ WorkersOf("retry") \cup WorkersOf("deferred") = {}
    /\ tick' = [tick EXCEPT !.at = "idle"]
    /\ TickOnly

TickDrain ==
    /\ tick.at = "retry" /\ tick.todo = {}
    /\ WorkersOf("retry") \cup WorkersOf("deferred") = {}
    /\ tick' = [tick EXCEPT !.at = "drain"]
    /\ StartDrain
    /\ UNCHANGED <<queueVars, durableVars, workers, recovery, deferred, crashes>>

TickStep ==
    \/ TickStart \/ TickRetries \/ TickDrain
    \/ \E q \in RequestIds : SkipRetry(q) \/ ArchiveDeferred(q) \/ RetryArchive(q)
-----------------------------------------------------------------------------
(***************************************************************************)
(* The operator and the environment.                                       *)
(***************************************************************************)
\* POST .../runs and .../merge: enqueue, then drain without waiting for it.
SubmitRun(p, kind) ==
    /\ Listening
    /\ Enqueue(p, kind, "manual")
    /\ StartDrain
    /\ UNCHANGED <<durableVars, workers, recovery, deferred, tick, crashes>>

PauseProject(p) ==
    /\ Listening
    /\ Pause(p)
    /\ UNCHANGED <<durableVars, processVars>>

\* The resume that ends a readiness check; it ends the wait of a cutover too.
ResumeProject(p) ==
    /\ Listening
    /\ Activate(p)
    /\ awaiting' = awaiting \ {p}
    /\ UNCHANGED <<runDir, internalRef, published, processVars>>

\* Mutant: a start puts back whatever was running, Run or not.
CrashPutsBack ==
    /\ crashes < MaxCrashes
    /\ crashes' = crashes + 1
    /\ drain' = Idle
    /\ workers' = {}
    /\ recovery' = [at |-> "scan", todo |-> InFlight \ Running, q |-> 0]
    /\ deferred' = {}
    /\ tick' = [at |-> "idle", todo |-> {}]
    /\ rows' = [q \in RequestIds |-> IF q \in Running THEN [rows[q] EXCEPT !.status = "queued"]
                                                  ELSE rows[q]]
    /\ UNCHANGED <<lastId, adminVars, cursor, durableVars>>

\* The process dies and starts again.
Crash ==
    /\ crashes < MaxCrashes
    /\ crashes' = crashes + 1
    /\ drain' = Idle
    /\ workers' = {}
    /\ recovery' = [at |-> "scan", todo |-> InFlight, q |-> 0]
    /\ deferred' = {}
    /\ tick' = [at |-> "idle", todo |-> {}]
    /\ UNCHANGED <<queueVars, durableVars>>

Operator ==
    \E p \in Projects :
        \/ \E kind \in Kinds : SubmitRun(p, kind)
        \/ PauseProject(p)
        \/ ResumeProject(p)

Next ==
    \/ DrainStep
    \/ \E w \in workers : WorkerStep(w)
    \/ RecoveryStep
    \/ TickStep
    \/ \E p \in Projects, trigger \in Triggers : Poll(p, trigger)
    \/ Operator
    \/ Crash

Spec == Init /\ [][Next]_vars
-----------------------------------------------------------------------------
(***************************************************************************)
(* Safety.                                                                 *)
(***************************************************************************)
\* The dispatcher, the scheduler, the routes and the recovery after a crash use
\* the queue by its rules: whatever they interleave, the rows only ever change by
\* an operation whose own guard holds.
FollowsQueue == [][QueueNext]_queueVars

\* The global slot always has an owner who will free it: a running request is
\* in the hands of the drain loop or still to be looked into by the recovery.
\* A running row that nobody works on would block every project for good.
SlotOwned ==
    \A q \in Running :
        \/ drain.q = q /\ drain.at \notin {"idle", "claim", "cleanup", "waiting"}
        \/ q \in recovery.todo

\* A pending archive always has a driver: a running archive() call, the
\* recovery that has yet to reach it, or the deferral until a cutover project
\* is resumed.  Without one its project's queue would be stuck for good.
PendingArchiveDriven ==
    \A q \in RequestIds : rows[q].status = "waiting_archive" =>
        \/ \E w \in workers : w.q = q /\ w.phase = "archiving"
        \/ q \in deferred
        \/ q \in recovery.todo

\* The archiver works on a request for one caller at a time, through
\* restarts, deferrals and retries: no report or Issue is published twice at
\* once.
OneArchiver ==
    \A v, w \in workers :
        v.q = w.q /\ v.phase = "archiving" /\ w.phase = "archiving" => v = w

\* A request about to create its Run finds no directory of an earlier try: a
\* restart never makes the loop replay a Run that had begun or ended.
RunStartsOnce == drain.at = "resolved" => runDir[drain.q] = "none"

\* Only a Run whose directory was finished is archived.
ArchivedRunFinished ==
    \A q \in RequestIds :
        rows[q].status \in {"waiting_archive", "completed"} => runDir[q] = "completed"

\* The ref keeps the prepared merge of a request as long as the request is
\* pending: no restart, requeue, failed attempt or cleanup of another request
\* takes away the only copy of a merge that may still have to be published.
PreparedMergeKept ==
    \A q \in RequestIds :
        rows[q].prepared # NoCommit /\ rows[q].status \in Pending
        => internalRef[q] = rows[q].prepared

\* The target of a merge request was pushed to the scenario branch before it
\* was recorded.
TargetPublished ==
    \A q \in RequestIds :
        IsMerge(q) /\ rows[q].resolved # NoCommit => published[q] = rows[q].resolved

\* A merge is prepared once and published once: whatever the crashes, a second
\* merge commit never takes the place of the first in the ref or on the branch.
MergeMadeOnce ==
    [][\A q \in RequestIds :
        /\ internalRef[q] # NoCommit => internalRef'[q] \in {internalRef[q], NoCommit}
        /\ rows[q].prepared # NoCommit => internalRef'[q] \in {internalRef[q], NoCommit}
        /\ published[q] # NoCommit => published'[q] = published[q]]_vars
-----------------------------------------------------------------------------
(***************************************************************************)
(* Progress.  A promise whose awaited call has returned is resumed, an     *)
(* archive ends (its Git and GitHub calls have time limits) and the timer  *)
(* starts ticks.  That a Run ends is assumed of the environment: the code  *)
(* gives a Session no time limit (SlotFreeUnlessHung in RunOrchestrator).  *)
(* Nothing makes the operator act or the process crash.                    *)
(***************************************************************************)
LoopFairness == WF_vars(DrainStep) /\ WF_vars(RecoveryStep) /\ WF_vars(TickStep)

ArchiveFairness ==
    \A w \in [q: RequestIds, by: Caller, phase: {"archiving", "cleanup"}] :
        WF_vars(w \in workers /\ WorkerStep(w))

FairSpec == Spec /\ LoopFairness /\ ArchiveFairness

\* A running request always leaves the execution slot if its Run ends, also
\* when the process dies in the middle of it.
SlotFreed == \A q \in RequestIds : rows[q].status = "running" ~> rows[q].status # "running"

\* A queued request of an active project is always taken up: no wake-up of the
\* drain loop is lost between an enqueue, the end of an archive, the end of the
\* loop and a restart.
RequestTakenUp ==
    \A q \in RequestIds :
        rows[q].status = "queued"
            ~> rows[q].status # "queued" \/ projectStatus[rows[q].project] = "paused"

\* A pending archive ends, unless its project still waits for the first resume
\* after an upgrade.
PendingArchiveEnds ==
    \A q \in RequestIds :
        rows[q].status = "waiting_archive"
            ~> rows[q].status # "waiting_archive" \/ rows[q].project \in awaiting

\* After a restart the service listens again, whatever the crash left behind.
StartupEnds == ~Listening ~> Listening
-----------------------------------------------------------------------------
(***************************************************************************)
(* What the documentation says and the code does not do.                   *)
(***************************************************************************)
\* The archives the loop has started may take as long as they like.
SlowArchiveSpec ==
    /\ Spec /\ LoopFairness
    /\ \A w \in [q: RequestIds, by: Caller \ {"drain"}, phase: {"archiving", "cleanup"}] :
          WF_vars(w \in workers /\ WorkerStep(w))

\* spec.md, section 5: a pending archive holds up its own project and does not
\* occupy the global execution slot.  A request of an active project with no
\* pending archive would then be taken up however long the archives of other
\* projects take.
ArchiveHoldsOnlyItsProject ==
    \A q \in RequestIds :
        rows[q].status = "queued"
            ~> \/ rows[q].status # "queued"
               \/ projectStatus[rows[q].project] = "paused"
               \/ RowsOf(rows[q].project, {"waiting_archive"}) # {}

\* spec.md, section 2.2: a pending archive is retried until it is done.
PendingArchiveNotDropped ==
    [][\A q \in RequestIds :
        rows[q].status = "waiting_archive" => rows'[q].status \in {"waiting_archive", "completed"}]_vars

\* spec.md, section 5, keeps the rules of the production closure for internal
\* refs: they are deleted once their request has ended, at the next start at
\* the latest.
FinishedMergeRefDeleted ==
    \A q \in RequestIds :
        IsMerge(q) /\ rows[q].status \in Terminal ~> internalRef[q] = NoCommit
=============================================================================
