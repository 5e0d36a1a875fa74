----------------------- MODULE TestRequestQueueProofs -----------------------
(***************************************************************************)
(* Theorems about TestRequestQueue for any number of projects, requests,   *)
(* configuration changes and commits, and about its coordinator's turns    *)
(* (RoundRobin).                                                           *)
(***************************************************************************)
EXTENDS RoundRobin, TLAPS

\* An identifier not allocated yet carries nothing, so that a new row starts
\* with no recorded fact.
UnallocatedBlank == \A q \in RequestIds : rows[q].status = "absent" => rows[q] = NoRow

TypeInv == QueueTypeOK /\ UnallocatedBlank
-----------------------------------------------------------------------------
(***************************************************************************)
(* Types.                                                                  *)
(***************************************************************************)
LEMMA InitType == QueueInit => TypeInv
  BY QueueAssumption DEF QueueInit, TypeInv, QueueTypeOK, UnallocatedBlank, RequestIds,
     Projects, Row, NoRow, Pending, Terminal, Kinds, ArchiveStatus

\* The steps that change one allocated row and nothing else keep the types.
LEMMA RowStepType ==
  ASSUME TypeInv, NEW q \in RequestIds, q <= lastId,
         rows' \in [RequestIds -> Row],
         rows'[q].status # "absent", rows'[q].project = rows[q].project,
         \A r \in RequestIds \ {q} : rows'[r] = rows[r],
         UNCHANGED <<lastId, adminVars>>, cursor' \in 0..NumProjects
  PROVE  TypeInv'
<1>1. UNCHANGED <<lastId, projectStatus, revision, semantics>>
  BY DEF adminVars
<1>2. \A r \in RequestIds : r > lastId' <=> rows'[r].status = "absent"
  BY <1>1 DEF TypeInv, QueueTypeOK, RequestIds
<1>3. \A r \in RequestIds : r <= lastId' => rows'[r].project \in Projects
  BY <1>1 DEF TypeInv, QueueTypeOK
<1>4. UnallocatedBlank'
  BY DEF TypeInv, UnallocatedBlank
<1> QED BY <1>1, <1>2, <1>3, <1>4 DEF TypeInv, QueueTypeOK

LEMMA StepType == TypeInv /\ [QueueNext]_queueVars => TypeInv'
<1> SUFFICES ASSUME TypeInv, [QueueNext]_queueVars PROVE TypeInv'
  OBVIOUS
<1> USE QueueAssumption
<1>0. CASE UNCHANGED queueVars
  BY <1>0 DEF queueVars, TypeInv, QueueTypeOK, UnallocatedBlank
<1>1. ASSUME NEW q \in RequestIds, RowOperation(q) PROVE TypeInv'
  <2>1. q <= lastId => rows[q].status # "absent" /\ rows[q].project \in Projects
    BY DEF TypeInv, QueueTypeOK, RequestIds
  <2>2. rows \in [RequestIds -> Row] /\ cursor \in 0..NumProjects /\ lastId \in Int
    BY DEF TypeInv, QueueTypeOK
  <2>3. ~(q <= lastId) => rows[q] = NoRow
    BY <2>2 DEF TypeInv, QueueTypeOK, UnallocatedBlank, RequestIds
  <2>4. CASE ClaimNext(q)
    <3>1. rows[q].status = "queued" /\ q <= lastId
      BY <2>3, <2>4 DEF ClaimNext, Claimable, Oldest, RowsOf, NoRow
    <3>2. rows' = [rows EXCEPT ![q].status = "running"]
      BY <2>4 DEF ClaimNext
    <3>3. rows' \in [RequestIds -> Row]
      BY <2>2, <3>2 DEF Row, Pending
    <3>4. cursor' \in 0..NumProjects
      BY <2>1, <2>4, <3>1 DEF ClaimNext, Projects
    <3> QED BY <2>2, <2>4, <3>1, <3>2, <3>3, <3>4, RowStepType DEF ClaimNext, Row
  <2>5. ASSUME NEW c \in Commits, MarkPrepared(q, c) PROVE TypeInv'
    <3>1. q <= lastId
      BY <2>3, <2>5 DEF MarkPrepared, NoRow
    <3>2. rows' \in [RequestIds -> Row]
      BY <2>2, <2>5 DEF MarkPrepared, Row
    <3> QED BY <2>1, <2>2, <2>5, <3>1, <3>2, RowStepType DEF MarkPrepared, RowStep, Row
  <2>6. ASSUME NEW c \in Commits, MarkResolved(q, c) PROVE TypeInv'
    <3>1. q <= lastId
      BY <2>3, <2>6 DEF MarkResolved, NoRow
    <3>2. rows' \in [RequestIds -> Row]
      BY <2>2, <2>6 DEF MarkResolved, Row
    <3> QED BY <2>1, <2>2, <2>6, <3>1, <3>2, RowStepType DEF MarkResolved, RowStep, Row
  <2>7. CASE MarkStarted(q)
    <3>1. q <= lastId
      BY <2>3, <2>7 DEF MarkStarted, NoRow
    <3>2. rows' \in [RequestIds -> Row]
      BY <2>2, <2>7 DEF MarkStarted, Row
    <3> QED BY <2>1, <2>2, <2>7, <3>1, <3>2, RowStepType DEF MarkStarted, RowStep, Row
  <2>8. CASE Requeue(q)
    <3>1. q <= lastId
      BY <2>3, <2>8 DEF Requeue, NoRow
    <3>2. rows' \in [RequestIds -> Row]
      BY <2>2, <2>8 DEF Requeue, Row, Pending
    <3> QED BY <2>1, <2>2, <2>8, <3>1, <3>2, RowStepType DEF Requeue, RowStep, Row
  <2>9. CASE MarkWaitingArchive(q)
    <3>1. q <= lastId
      BY <2>3, <2>9 DEF MarkWaitingArchive, NoRow
    <3>2. rows' \in [RequestIds -> Row]
      <4> DEFINE linked == [rows[q] EXCEPT !.status = "waiting_archive", !.run = TRUE]
      <4>1. linked \in Row
        BY <2>2 DEF Row, Pending
      <4>2. rows' = [rows EXCEPT ![q] = linked]
        BY <2>2, <2>9 DEF MarkWaitingArchive, Row
      <4> HIDE DEF linked
      <4> QED BY <2>2, <4>1, <4>2
    <3> QED BY <2>1, <2>2, <2>9, <3>1, <3>2, RowStepType DEF MarkWaitingArchive, RowStep, Row
  <2>10. ASSUME NEW result \in ArchiveStatus, Complete(q, result) PROVE TypeInv'
    <3>1. q <= lastId
      BY <2>3, <2>10 DEF Complete, NoRow
    <3>2. rows' \in [RequestIds -> Row]
      <4> DEFINE done == [rows[q] EXCEPT !.status = "completed", !.run = TRUE, !.archive = result]
      <4>1. done \in Row
        BY <2>2 DEF Row, Terminal
      <4>2. rows' = [rows EXCEPT ![q] = done]
        BY <2>2, <2>10 DEF Complete, Row
      <4> HIDE DEF done
      <4> QED BY <2>2, <4>1, <4>2
    <3> QED BY <2>1, <2>2, <2>10, <3>1, <3>2, RowStepType DEF Complete, RowStep, Row
  <2>11. ASSUME NEW result \in ArchiveStatus, RecordArchiveRetry(q, result) PROVE TypeInv'
    <3>1. q <= lastId
      BY <2>3, <2>11 DEF RecordArchiveRetry, NoRow
    <3>2. rows' \in [RequestIds -> Row]
      BY <2>2, <2>11 DEF RecordArchiveRetry, Row
    <3> QED BY <2>1, <2>2, <2>11, <3>1, <3>2, RowStepType DEF RecordArchiveRetry, RowStep, Row
  <2>12. ASSUME NEW status \in {"failed", "interrupted"}, Fail(q, status) PROVE TypeInv'
    <3>1. q <= lastId
      BY <2>3, <2>12 DEF Fail, NoRow, Pending
    <3>2. rows' \in [RequestIds -> Row]
      BY <2>2, <2>12 DEF Fail, Row, Terminal
    <3> QED BY <2>1, <2>2, <2>12, <3>1, <3>2, RowStepType DEF Fail, RowStep, Row
  <2> QED BY <1>1, <2>4, <2>5, <2>6, <2>7, <2>8, <2>9, <2>10, <2>11, <2>12 DEF RowOperation
<1>2. ASSUME NEW p \in Projects, ProjectOperation(p) PROVE TypeInv'
  <2>1. CASE Pause(p) \/ Activate(p)
    BY <2>1 DEF Pause, Activate, TypeInv, QueueTypeOK, UnallocatedBlank
  <2>2. ASSUME NEW semanticChange \in BOOLEAN, UpdateConfiguration(p, semanticChange)
        PROVE  TypeInv'
    BY <2>2 DEF UpdateConfiguration, TypeInv, QueueTypeOK, UnallocatedBlank
  <2>3. ASSUME NEW kind \in Kinds, NEW trigger \in Triggers, Enqueue(p, kind, trigger)
        PROVE  TypeInv'
    <3>1. ASSUME NEW q \in MergeableTail(p, kind),
                 rows' = [rows EXCEPT ![q].sources = @ \cup {trigger}], UNCHANGED lastId
          PROVE  TypeInv'
      <4>1. q \in RequestIds /\ rows[q].status = "queued"
        BY DEF MergeableTail, RowsOf
      <4>2. q <= lastId
        BY <4>1 DEF TypeInv, QueueTypeOK, RequestIds
      <4>3. rows' \in [RequestIds -> Row]
        BY <3>1, <4>1 DEF TypeInv, QueueTypeOK, Row
      <4> QED BY <2>3, <3>1, <4>1, <4>2, <4>3, RowStepType
              DEF Enqueue, TypeInv, QueueTypeOK, Row
    <3>2. ASSUME lastId < MaxRequests, lastId' = lastId + 1,
                 rows' = [rows EXCEPT ![lastId + 1] = NewRow(p, kind, trigger)]
          PROVE  TypeInv'
      <4>1. rows' \in [RequestIds -> Row]
        <5>1. revision[p] \in Nat /\ semantics[p] \in Nat /\ p \in 0..NumProjects
          BY DEF TypeInv, QueueTypeOK, Projects
        <5>2. NewRow(p, kind, trigger) \in Row
          BY <5>1 DEF NewRow, Row, Pending
        <5> QED BY <3>2, <5>2 DEF TypeInv, QueueTypeOK
      <4>2. UNCHANGED <<projectStatus, revision, semantics, cursor>>
        BY <2>3 DEF Enqueue, adminVars
      <4>3. \A q \in RequestIds : q > lastId' <=> rows'[q].status = "absent"
        BY <3>2 DEF TypeInv, QueueTypeOK, RequestIds, NewRow
      <4>4. \A q \in RequestIds : q <= lastId' => rows'[q].project \in Projects
        BY <3>2 DEF TypeInv, QueueTypeOK, RequestIds, NewRow
      <4>5. UnallocatedBlank'
        BY <3>2 DEF TypeInv, QueueTypeOK, UnallocatedBlank, RequestIds, NewRow
      <4>6. lastId' \in 0..MaxRequests
        BY <3>2 DEF TypeInv, QueueTypeOK
      <4> QED BY <4>1, <4>2, <4>3, <4>4, <4>5, <4>6 DEF TypeInv, QueueTypeOK
    <3> QED BY <2>3, <3>1, <3>2 DEF Enqueue
  <2> QED BY <1>2, <2>1, <2>2, <2>3 DEF ProjectOperation
<1> QED BY <1>0, <1>1, <1>2 DEF QueueNext

\* Every value the queue stores has its type, and the rows are exactly those
\* with an allocated identifier.
THEOREM TypeCorrect == QueueSpec => []QueueTypeOK
<1>1. QueueSpec => []TypeInv
  BY InitType, StepType, PTL DEF QueueSpec
<1>2. TypeInv => QueueTypeOK
  BY DEF TypeInv
<1> QED BY <1>1, <1>2, PTL
-----------------------------------------------------------------------------
(***************************************************************************)
(* What an operation may do to the row it is about.                        *)
(***************************************************************************)
Claimed == {"running", "waiting_archive", "completed"}

\* What the row keeps for good.
FactsKept(q) ==
    /\ rows'[q].project = rows[q].project
    /\ rows'[q].kind = rows[q].kind
    /\ rows'[q].semantics = rows[q].semantics
    /\ rows[q].resolved # NoCommit => rows'[q].resolved = rows[q].resolved
    /\ rows[q].prepared # NoCommit => rows'[q].prepared = rows[q].prepared
    /\ rows[q].run => rows'[q].run
    /\ rows[q].status \in Terminal => rows'[q].status = rows[q].status

\* What it gains only from what it had.
NothingUnearned(q) ==
    /\ rows'[q].status \in Pending => rows[q].status \in Pending
    /\ rows'[q].run /\ rows'[q].status = "queued" => rows[q].run /\ rows[q].status = "queued"
    /\ rows'[q].kind = "manual-merge-source" /\ rows'[q].resolved # NoCommit
       => rows'[q].resolved = rows'[q].prepared
          \/ /\ rows[q].resolved # NoCommit
             /\ rows[q].prepared # rows[q].resolved

\* What only a claim does to a row: it takes the slot.
NotClaimed(q) ==
    /\ rows'[q].status = "running" => rows[q].status = "running"
    /\ rows'[q].status \in Claimed => rows[q].status \in Claimed

RowEffect(q) ==
    /\ \A r \in RequestIds \ {q} : rows'[r] = rows[r]
    /\ FactsKept(q)
    /\ NothingUnearned(q)

LEMMA RowOperationEffect ==
  ASSUME TypeInv, NEW q \in RequestIds, RowOperation(q)
  PROVE  /\ RowEffect(q)
         /\ ClaimNext(q) \/ NotClaimed(q)
         /\ semantics' = semantics
<1> USE DEF RowEffect, FactsKept, NothingUnearned, NotClaimed, Claimed, Pending, Terminal
<1>0. rows \in [RequestIds -> Row] /\ rows[q] \in Row
  BY DEF TypeInv, QueueTypeOK
<1>1. CASE ClaimNext(q)
  BY <1>0, <1>1 DEF ClaimNext, Claimable, Oldest, RowsOf, Row, adminVars
<1>2. ASSUME NEW c \in Commits, MarkPrepared(q, c)
      PROVE  RowEffect(q) /\ NotClaimed(q) /\ semantics' = semantics
  BY <1>0, <1>2 DEF MarkPrepared, RowStep, Row, adminVars
<1>3. ASSUME NEW c \in Commits, MarkResolved(q, c)
      PROVE  RowEffect(q) /\ NotClaimed(q) /\ semantics' = semantics
  BY <1>0, <1>3 DEF MarkResolved, RowStep, Row, adminVars
<1>4. CASE MarkStarted(q)
  BY <1>0, <1>4 DEF MarkStarted, RowStep, Row, adminVars
<1>5. CASE Requeue(q)
  BY <1>0, <1>5 DEF Requeue, RowStep, Row, adminVars
<1>6. CASE MarkWaitingArchive(q)
  BY <1>0, <1>6 DEF MarkWaitingArchive, RowStep, Row, adminVars
<1>7. ASSUME NEW result \in ArchiveStatus, Complete(q, result)
      PROVE  RowEffect(q) /\ NotClaimed(q) /\ semantics' = semantics
  BY <1>0, <1>7 DEF Complete, RowStep, Row, adminVars
<1>8. ASSUME NEW result \in ArchiveStatus, RecordArchiveRetry(q, result)
      PROVE  RowEffect(q) /\ NotClaimed(q) /\ semantics' = semantics
  BY <1>0, <1>8 DEF RecordArchiveRetry, RowStep, Row, adminVars
<1>9. ASSUME NEW status \in {"failed", "interrupted"}, Fail(q, status)
      PROVE  RowEffect(q) /\ NotClaimed(q) /\ semantics' = semantics
  BY <1>0, <1>9 DEF Fail, RowStep, Row, adminVars
<1> QED BY <1>1, <1>2, <1>3, <1>4, <1>5, <1>6, <1>7, <1>8, <1>9 DEF RowOperation

\* An accepted request joins a queued row, whose target and Run it leaves
\* alone, or becomes a blank row behind all others.
LEMMA EnqueueEffect ==
  ASSUME TypeInv, NEW p \in Projects, NEW kind \in Kinds, NEW trigger \in Triggers,
         Enqueue(p, kind, trigger)
  PROVE  /\ semantics' = semantics
         /\ \/ \E q \in RequestIds : RowEffect(q) /\ NotClaimed(q)
            \/ /\ lastId + 1 \in RequestIds
               /\ \A r \in RequestIds \ {lastId + 1} : rows'[r] = rows[r]
               /\ rows[lastId + 1] = NoRow
               /\ rows'[lastId + 1] = NewRow(p, kind, trigger)
<1>0. rows \in [RequestIds -> Row] /\ lastId \in 0..MaxRequests
  BY DEF TypeInv, QueueTypeOK
<1>1. ASSUME NEW q \in MergeableTail(p, kind),
             rows' = [rows EXCEPT ![q].sources = @ \cup {trigger}]
      PROVE  RowEffect(q) /\ NotClaimed(q)
  <2>1. q \in RequestIds /\ rows[q].status = "queued"
    BY DEF MergeableTail, RowsOf
  <2> QED BY <1>0, <1>1, <2>1 DEF RowEffect, FactsKept, NothingUnearned, NotClaimed, Claimed,
             Pending, Terminal, Row
<1>2. ASSUME lastId < MaxRequests,
             rows' = [rows EXCEPT ![lastId + 1] = NewRow(p, kind, trigger)]
      PROVE  /\ lastId + 1 \in RequestIds
             /\ \A r \in RequestIds \ {lastId + 1} : rows'[r] = rows[r]
             /\ rows[lastId + 1] = NoRow
             /\ rows'[lastId + 1] = NewRow(p, kind, trigger)
  <2>1. lastId + 1 \in RequestIds
    BY <1>0, <1>2, QueueAssumption DEF RequestIds
  <2>2. rows[lastId + 1] = NoRow
    BY <1>0, <2>1 DEF TypeInv, QueueTypeOK, UnallocatedBlank
  <2> QED BY <1>0, <1>2, <2>1, <2>2
<1>3. semantics' = semantics
  BY DEF Enqueue, adminVars
<1> QED BY <1>1, <1>2, <1>3 DEF Enqueue, MergeableTail, RowsOf
-----------------------------------------------------------------------------
(***************************************************************************)
(* The inductive invariant.  OldestFirst needs OneRunning: only because    *)
(* the slot is empty when a request is claimed is there no older request   *)
(* of its project still running.                                           *)
(***************************************************************************)
IndInv ==
    /\ TypeInv
    /\ OneRunning
    /\ OldestFirst
    /\ PendingSnapshotCurrent
    /\ ResolvedIsPrepared
    /\ LinkedRunNotQueued

LEMMA InitInd == QueueInit => IndInv
  BY InitType DEF QueueInit, IndInv, OneRunning, Running, OldestFirst, PendingSnapshotCurrent,
     ResolvedIsPrepared, LinkedRunNotQueued, NoRow, Pending

\* An operation on a row that does not claim it keeps every part.
LEMMA RowStepInd ==
  ASSUME IndInv, TypeInv', NEW q \in RequestIds, RowEffect(q), NotClaimed(q),
         semantics' = semantics
  PROVE  IndInv'
<1> USE DEF RowEffect, FactsKept, NothingUnearned, NotClaimed
<1>1. OneRunning'
  BY DEF IndInv, OneRunning, Running
<1>2. OldestFirst'
  BY DEF IndInv, OldestFirst, Claimed
<1>3. PendingSnapshotCurrent'
  BY DEF IndInv, PendingSnapshotCurrent
<1>4. ResolvedIsPrepared'
  BY DEF IndInv, ResolvedIsPrepared
<1>5. LinkedRunNotQueued'
  BY DEF IndInv, LinkedRunNotQueued
<1> QED BY <1>1, <1>2, <1>3, <1>4, <1>5 DEF IndInv

\* A claim finds the slot empty and every older request of the project ended.
LEMMA ClaimInd ==
  ASSUME IndInv, TypeInv', NEW q \in RequestIds, RowEffect(q), ClaimNext(q),
         semantics' = semantics
  PROVE  IndInv'
<1> USE DEF RowEffect, FactsKept, NothingUnearned
<1>0. rows \in [RequestIds -> Row] /\ rows'[q].status = "running"
  BY DEF IndInv, TypeInv, QueueTypeOK, ClaimNext, Row
<1>1. Running = {} /\ rows[q].status = "queued"
  BY DEF ClaimNext, Claimable, Oldest, RowsOf
<1>2. OneRunning'
  BY <1>1 DEF OneRunning, Running
<1>3. ASSUME NEW r \in RequestIds, r < q, rows[r].project = rows[q].project
      PROVE  rows[r].status \in Terminal
  <2>1. PICK p \in Projects : Selected(p) /\ Oldest(q, p)
    BY DEF ClaimNext, Claimable
  <2>2. rows[r].project = p
    BY <1>3, <2>1 DEF Oldest, RowsOf
  <2>3. rows[r].status # "queued"
    BY <1>3, <2>1, <2>2 DEF Oldest, RowsOf, RequestIds
  <2>4. rows[r].status # "waiting_archive"
    BY <2>1, <2>2 DEF Selected, Eligible, RowsOf
  <2>5. rows[r].status # "running"
    BY <1>1 DEF Running
  <2>6. rows[r].status # "absent"
    BY <1>1, <1>3 DEF IndInv, TypeInv, QueueTypeOK, RequestIds
  <2> QED BY <1>0, <2>3, <2>4, <2>5, <2>6 DEF Row, Pending
<1>4. OldestFirst'
  <2> SUFFICES ASSUME NEW a \in RequestIds, NEW b \in RequestIds, b < a,
                      rows'[b].project = rows'[a].project, rows'[a].status \in Claimed
               PROVE  rows'[b].status \in Terminal
    BY DEF OldestFirst, Claimed
  <2>1. rows[b].project = rows[a].project
    OBVIOUS
  <2>2. CASE a = q
    BY <1>3, <2>1, <2>2
  <2>3. CASE a # q
    BY <1>1, <2>1, <2>3 DEF IndInv, OldestFirst, Claimed, Terminal
  <2> QED BY <2>2, <2>3
<1>5. PendingSnapshotCurrent'
  BY DEF IndInv, PendingSnapshotCurrent
<1>6. ResolvedIsPrepared'
  BY DEF IndInv, ResolvedIsPrepared
<1>7. LinkedRunNotQueued'
  BY DEF IndInv, LinkedRunNotQueued
<1> QED BY <1>2, <1>4, <1>5, <1>6, <1>7 DEF IndInv

LEMMA EnqueueInd ==
  ASSUME IndInv, TypeInv', NEW p \in Projects, NEW kind \in Kinds, NEW trigger \in Triggers,
         Enqueue(p, kind, trigger)
  PROVE  IndInv'
<1>1. TypeInv
  BY DEF IndInv
<1>2. semantics' = semantics
  BY <1>1, EnqueueEffect
<1>3. ASSUME NEW q \in RequestIds, RowEffect(q), NotClaimed(q) PROVE IndInv'
  BY <1>2, <1>3, RowStepInd
<1>4. ASSUME lastId + 1 \in RequestIds,
             \A r \in RequestIds \ {lastId + 1} : rows'[r] = rows[r],
             rows[lastId + 1] = NoRow,
             rows'[lastId + 1] = NewRow(p, kind, trigger)
      PROVE  IndInv'
  <2> DEFINE new == lastId + 1
  <2>0. /\ rows'[new].status = "queued" /\ rows'[new].project = p /\ ~rows'[new].run
        /\ rows'[new].semantics = semantics[p] /\ rows'[new].resolved = NoCommit
    BY <1>4 DEF NewRow
  <2>1. OneRunning'
    BY <1>4, <2>0 DEF IndInv, OneRunning, Running
  <2>2. OldestFirst'
    <3> SUFFICES ASSUME NEW a \in RequestIds, NEW b \in RequestIds, b < a,
                        rows'[b].project = rows'[a].project, rows'[a].status \in Claimed
                 PROVE  rows'[b].status \in Terminal
      BY DEF OldestFirst, Claimed
    <3>1. a # new
      BY <2>0 DEF Claimed
    <3>2. a <= lastId
      BY <1>1, <1>4, <3>1 DEF TypeInv, QueueTypeOK, RequestIds, Claimed
    <3>3. b # new
      BY <1>1, <3>2 DEF TypeInv, QueueTypeOK, RequestIds
    <3> QED BY <1>4, <3>1, <3>3 DEF IndInv, OldestFirst, Claimed
  <2>3. PendingSnapshotCurrent'
    BY <1>2, <1>4, <2>0 DEF IndInv, PendingSnapshotCurrent
  <2>4. ResolvedIsPrepared'
    BY <1>4, <2>0 DEF IndInv, ResolvedIsPrepared
  <2>5. LinkedRunNotQueued'
    BY <1>4, <2>0 DEF IndInv, LinkedRunNotQueued
  <2> QED BY <2>1, <2>2, <2>3, <2>4, <2>5 DEF IndInv
<1> QED BY <1>1, <1>3, <1>4, EnqueueEffect

\* A semantic change is refused while one of the project's requests is pending.
LEMMA UpdateInd ==
  ASSUME IndInv, TypeInv', NEW p \in Projects, NEW semanticChange \in BOOLEAN,
         UpdateConfiguration(p, semanticChange)
  PROVE  IndInv'
<1>1. rows' = rows
  BY DEF UpdateConfiguration
<1>2. ASSUME NEW q \in RequestIds, rows[q].status \in Pending
      PROVE  rows[q].semantics = semantics'[rows[q].project]
  <2>1. rows[q].project \in Projects
    BY <1>2 DEF IndInv, TypeInv, QueueTypeOK, RequestIds, Pending
  <2>2. rows[q].semantics = semantics[rows[q].project] /\ semantics \in [Projects -> Nat]
    BY <1>2 DEF IndInv, PendingSnapshotCurrent, TypeInv, QueueTypeOK
  <2>3. CASE semanticChange
    <3>1. rows[q].project # p
      BY <1>2, <2>3 DEF UpdateConfiguration, RowsOf
    <3> QED BY <2>1, <2>2, <3>1 DEF UpdateConfiguration
  <2>4. CASE ~semanticChange
    BY <2>1, <2>2, <2>4 DEF UpdateConfiguration
  <2> QED BY <2>3, <2>4
<1>3. PendingSnapshotCurrent'
  BY <1>1, <1>2 DEF PendingSnapshotCurrent
<1> QED BY <1>1, <1>3 DEF IndInv, OneRunning, Running, OldestFirst, ResolvedIsPrepared,
           LinkedRunNotQueued

LEMMA StepInd == IndInv /\ [QueueNext]_queueVars => IndInv'
<1> SUFFICES ASSUME IndInv, [QueueNext]_queueVars PROVE IndInv'
  OBVIOUS
<1>0. TypeInv /\ TypeInv'
  BY StepType DEF IndInv
<1>1. CASE UNCHANGED <<rows, semantics>>
  BY <1>0, <1>1 DEF IndInv, OneRunning, Running, OldestFirst, PendingSnapshotCurrent,
     ResolvedIsPrepared, LinkedRunNotQueued
<1>2. ASSUME NEW q \in RequestIds, RowOperation(q) PROVE IndInv'
  BY <1>0, <1>2, RowOperationEffect, RowStepInd, ClaimInd
<1>3. ASSUME NEW p \in Projects, ProjectOperation(p) PROVE IndInv'
  <2>1. CASE Pause(p) \/ Activate(p)
    BY <1>1, <2>1 DEF Pause, Activate
  <2>2. ASSUME NEW kind \in Kinds, NEW trigger \in Triggers, Enqueue(p, kind, trigger)
        PROVE  IndInv'
    BY <1>0, <2>2, EnqueueInd
  <2>3. ASSUME NEW semanticChange \in BOOLEAN, UpdateConfiguration(p, semanticChange)
        PROVE  IndInv'
    BY <1>0, <2>3, UpdateInd
  <2> QED BY <1>3, <2>1, <2>2, <2>3 DEF ProjectOperation
<1> QED BY <1>1, <1>2, <1>3 DEF QueueNext, queueVars

LEMMA IndCorrect == QueueSpec => []IndInv
  BY InitInd, StepInd, PTL DEF QueueSpec
-----------------------------------------------------------------------------
(***************************************************************************)
(* The theorems.                                                           *)
(***************************************************************************)
\* At most one request of the whole deployment is running.
THEOREM OneRunningCorrect == QueueSpec => []OneRunning
<1>1. IndInv => OneRunning
  BY DEF IndInv
<1> QED BY <1>1, IndCorrect, PTL

\* A project's requests are worked on in queue order.
THEOREM OldestFirstCorrect == QueueSpec => []OldestFirst
<1>1. IndInv => OldestFirst
  BY DEF IndInv
<1> QED BY <1>1, IndCorrect, PTL

\* A pending request is executed under the configuration it was enqueued with.
THEOREM PendingSnapshotCorrect == QueueSpec => []PendingSnapshotCurrent
<1>1. IndInv => PendingSnapshotCurrent
  BY DEF IndInv
<1> QED BY <1>1, IndCorrect, PTL

\* A merge request tests the commit prepared for it.
THEOREM ResolvedIsPreparedCorrect == QueueSpec => []ResolvedIsPrepared
<1>1. IndInv => ResolvedIsPrepared
  BY DEF IndInv
<1> QED BY <1>1, IndCorrect, PTL

\* A request linked to a Run is never queued again.
THEOREM LinkedRunNotQueuedCorrect == QueueSpec => []LinkedRunNotQueued
<1>1. IndInv => LinkedRunNotQueued
  BY DEF IndInv
<1> QED BY <1>1, IndCorrect, PTL

\* Targets, prepared merges, links to Runs and endings are recorded for good.
THEOREM RecordedFactsStayCorrect == QueueSpec => RecordedFactsStay
<1> DEFINE Kept(q) == /\ rows[q].resolved # NoCommit => rows'[q].resolved = rows[q].resolved
                      /\ rows[q].prepared # NoCommit => rows'[q].prepared = rows[q].prepared
                      /\ rows[q].run => rows'[q].run
                      /\ rows[q].status \in Terminal => rows'[q].status = rows[q].status
<1>1. TypeInv /\ [QueueNext]_queueVars => [\A q \in RequestIds : Kept(q)]_rows
  <2> SUFFICES ASSUME TypeInv, QueueNext, rows' # rows
               PROVE  \A q \in RequestIds : Kept(q)
    BY DEF queueVars
  <2>1. ASSUME NEW q \in RequestIds, RowEffect(q) PROVE \A r \in RequestIds : Kept(r)
    BY <2>1 DEF RowEffect, FactsKept
  <2>2. ASSUME NEW q \in RequestIds, RowOperation(q) PROVE \A r \in RequestIds : Kept(r)
    BY <2>1, <2>2, RowOperationEffect
  <2>3. ASSUME NEW p \in Projects, ProjectOperation(p) PROVE \A r \in RequestIds : Kept(r)
    <3>1. PICK kind \in Kinds, trigger \in Triggers : Enqueue(p, kind, trigger)
      BY <2>3 DEF ProjectOperation, Pause, Activate, UpdateConfiguration
    <3>2. ASSUME lastId + 1 \in RequestIds, rows[lastId + 1] = NoRow,
                 \A r \in RequestIds \ {lastId + 1} : rows'[r] = rows[r]
          PROVE  \A r \in RequestIds : Kept(r)
      BY <3>2 DEF NoRow, Terminal
    <3> QED BY <2>1, <3>1, <3>2, EnqueueEffect
  <2> QED BY <2>2, <2>3 DEF QueueNext
<1>2. QueueSpec => []TypeInv
  BY InitType, StepType, PTL DEF QueueSpec
<1> QED BY <1>1, <1>2, PTL DEF QueueSpec, RecordedFactsStay

-----------------------------------------------------------------------------
(***************************************************************************)
(* RoundRobin: the coordinator's turns starve no project.                  *)
(*                                                                         *)
(* A claim puts the cursor on the project it serves.  Every eligible       *)
(* project that is passed over by it comes later in the scan, and is       *)
(* nearer to the new cursor by at least one.  So the claims that passed    *)
(* over a project and its distance from the cursor together never exceed   *)
(* the length of one round.                                                *)
(***************************************************************************)
\* A number from a round before zero to a round after it, modulo the round.
LEMMA RoundModulo ==
  ASSUME NEW n \in Nat \ {0}, NEW x \in Int
  PROVE  /\ 0 <= x /\ x < n => x % n = x
         /\ -n <= x /\ x < 0 => x % n = x + n
<1>1. ASSUME 0 <= x, x < n PROVE x % n = x
  BY <1>1
<1>2. ASSUME -n <= x, x < 0 PROVE x % n = x + n
  BY <1>2
<1> QED BY <1>1, <1>2

\* The distance a project has after the cursor has been put on c.
DistanceFrom(c, p) == IF p > c THEN p - c - 1 ELSE p - c - 1 + NumProjects

LEMMA ScanDistance ==
  ASSUME NEW c \in 0..NumProjects, NEW p \in Projects
  PROVE  /\ (p - c - 1) % NumProjects = DistanceFrom(c, p)
         /\ DistanceFrom(c, p) \in 0..NumProjects - 1
<1>1. NumProjects \in Nat \ {0} /\ p \in 1..NumProjects /\ p - c - 1 \in Int
  BY QueueAssumption DEF Projects
<1>2. CASE p > c
  <2>1. 0 <= p - c - 1 /\ p - c - 1 < NumProjects
    BY <1>1, <1>2
  <2> QED BY <1>1, <1>2, <2>1, RoundModulo DEF DistanceFrom
<1>3. CASE ~(p > c)
  <2>1. -NumProjects <= p - c - 1 /\ p - c - 1 < 0
    BY <1>1, <1>3
  <2> QED BY <1>1, <1>3, <2>1, RoundModulo DEF DistanceFrom
<1> QED BY <1>2, <1>3

LEMMA DistanceValue ==
  ASSUME TypeInv, NEW p \in Projects
  PROVE  Distance(p) = DistanceFrom(cursor, p) /\ Distance(p) \in 0..NumProjects - 1
  BY ScanDistance DEF TypeInv, QueueTypeOK, Distance

\* A project that comes after the served one in the scan is nearer to the new cursor.
LEMMA ScanAdvances ==
  ASSUME TypeInv, NEW o \in Projects, NEW p \in Projects, o # p, Distance(o) <= Distance(p)
  PROVE  DistanceFrom(o, p) + 1 <= Distance(p)
<1>1. NumProjects \in Nat /\ cursor \in 0..NumProjects /\ o \in Int /\ p \in Int
      /\ o \in 1..NumProjects /\ p \in 1..NumProjects
  BY QueueAssumption DEF TypeInv, QueueTypeOK, Projects
<1>2. DistanceFrom(cursor, o) <= DistanceFrom(cursor, p)
  BY DistanceValue
<1>3. DistanceFrom(o, p) + 1 <= DistanceFrom(cursor, p)
  BY <1>1, <1>2 DEF DistanceFrom
<1> QED BY <1>3, DistanceValue

\* Only a claim moves the cursor or makes a row running.
LEMMA OnlyClaims ==
  ASSUME TypeInv, QueueNext
  PROVE  \/ \E q \in RequestIds : ClaimNext(q)
         \/ cursor' = cursor /\ \A p \in Projects : ~ClaimedFrom(p)
<1> USE DEF ClaimedFrom, RowsOf
<1>0. rows \in [RequestIds -> Row]
  BY DEF TypeInv, QueueTypeOK
<1>1. ASSUME NEW q \in RequestIds, RowOperation(q), ~ClaimNext(q)
      PROVE  cursor' = cursor /\ \A p \in Projects : ~ClaimedFrom(p)
  <2>1. RowEffect(q) /\ NotClaimed(q)
    BY <1>1, RowOperationEffect
  <2>2. cursor' = cursor
    BY <1>1 DEF RowOperation, MarkPrepared, MarkResolved, MarkStarted, Requeue,
       MarkWaitingArchive, Complete, RecordArchiveRetry, Fail, RowStep
  <2> QED BY <2>1, <2>2 DEF RowEffect, FactsKept, NothingUnearned, NotClaimed, Claimed
<1>2. ASSUME NEW p \in Projects, NEW kind \in Kinds, NEW trigger \in Triggers,
             Enqueue(p, kind, trigger)
      PROVE  cursor' = cursor /\ \A o \in Projects : ~ClaimedFrom(o)
  <2>1. cursor' = cursor
    BY <1>2 DEF Enqueue
  <2>2. ASSUME NEW q \in RequestIds, RowEffect(q), NotClaimed(q)
        PROVE  \A o \in Projects : ~ClaimedFrom(o)
    BY <2>2 DEF RowEffect, FactsKept, NothingUnearned, NotClaimed, Claimed
  <2>3. ASSUME lastId + 1 \in RequestIds,
               \A r \in RequestIds \ {lastId + 1} : rows'[r] = rows[r],
               rows[lastId + 1] = NoRow
        PROVE  \A o \in Projects : ~ClaimedFrom(o)
    BY <2>3 DEF NoRow
  <2> QED BY <1>2, <2>1, <2>2, <2>3, EnqueueEffect
<1>3. ASSUME NEW p \in Projects,
             \/ Pause(p) \/ Activate(p)
             \/ \E semanticChange \in BOOLEAN : UpdateConfiguration(p, semanticChange)
      PROVE  cursor' = cursor /\ \A o \in Projects : ~ClaimedFrom(o)
  <2>1. UNCHANGED <<rows, cursor>>
    BY <1>3 DEF Pause, Activate, UpdateConfiguration
  <2> QED BY <2>1
<1> QED BY <1>1, <1>2, <1>3 DEF QueueNext, ProjectOperation
-----------------------------------------------------------------------------
\* What the claims that passed over a project leave of the round.
BypassInv ==
  /\ TypeInv
  /\ bypassed \in [Projects -> Nat]
  /\ \A p \in Projects : bypassed[p] + Distance(p) < NumProjects

LEMMA BypassInit == RoundRobinInit => BypassInv
<1> SUFFICES ASSUME RoundRobinInit PROVE BypassInv
  OBVIOUS
<1>1. TypeInv
  BY InitType DEF RoundRobinInit
<1>2. bypassed \in [Projects -> Nat] /\ \A p \in Projects : bypassed[p] = 0
  BY DEF RoundRobinInit
<1>3. ASSUME NEW p \in Projects PROVE bypassed[p] + Distance(p) < NumProjects
  BY <1>1, <1>2, DistanceValue, QueueAssumption
<1> QED BY <1>1, <1>2, <1>3 DEF BypassInv

LEMMA BypassStep == BypassInv /\ [RoundRobinNext]_roundRobinVars => BypassInv'
<1> SUFFICES ASSUME BypassInv, [RoundRobinNext]_roundRobinVars PROVE BypassInv'
  OBVIOUS
<1>0. NumProjects \in Nat \ {0} /\ bypassed \in [Projects -> Nat] /\ TypeInv
  BY QueueAssumption DEF BypassInv
<1>1. TypeInv'
  BY <1>0, StepType DEF RoundRobinNext, roundRobinVars
<1>2. CASE UNCHANGED roundRobinVars
  BY <1>1, <1>2 DEF roundRobinVars, queueVars, BypassInv, Distance
<1>3. CASE RoundRobinNext
  <2>1. bypassed' \in [Projects -> Nat]
    BY <1>0, <1>3 DEF RoundRobinNext, CountBypass
  <2>2. ASSUME NEW p \in Projects PROVE bypassed'[p] + Distance(p)' < NumProjects
    <3>1. /\ bypassed[p] \in Nat /\ bypassed[p] + Distance(p) < NumProjects
          /\ Distance(p) \in 0..NumProjects - 1
      BY <1>0, DistanceValue DEF BypassInv
    <3>2. Distance(p)' = DistanceFrom(cursor', p) /\ Distance(p)' \in 0..NumProjects - 1
      <4>1. cursor' \in 0..NumProjects
        BY <1>1 DEF TypeInv, QueueTypeOK
      <4>2. Distance(p)' = (p - cursor' - 1) % NumProjects
        BY DEF Distance
      <4> QED BY <4>1, <4>2, ScanDistance
    <3>3. bypassed'[p] \in {0, bypassed[p], bypassed[p] + 1}
      BY <1>3 DEF RoundRobinNext, CountBypass
    <3>4. CASE bypassed'[p] = 0
      BY <1>0, <3>2, <3>4
    <3>5. CASE /\ bypassed'[p] # 0
               /\ cursor' = cursor /\ \A o \in Projects : ~ClaimedFrom(o)
      <4>1. bypassed'[p] = bypassed[p]
        BY <1>3, <3>5 DEF RoundRobinNext, CountBypass
      <4>2. Distance(p)' = Distance(p)
        BY <3>5 DEF Distance
      <4> QED BY <3>1, <4>1, <4>2
    <3>6. ASSUME bypassed'[p] # 0, NEW q \in RequestIds, ClaimNext(q)
          PROVE  bypassed'[p] + Distance(p)' < NumProjects
      <4>1. p \in Eligible /\ ~ClaimedFrom(p)
        BY <1>3, <3>6 DEF RoundRobinNext, CountBypass
      <4>2. PICK o \in Projects : Selected(o) /\ Oldest(q, o)
        BY <3>6 DEF ClaimNext, Claimable
      <4>3. /\ rows \in [RequestIds -> Row] /\ q \in RowsOf(o, {"queued"})
            /\ rows'[q].status = "running" /\ cursor' = o
        BY <1>0, <3>6, <4>2 DEF TypeInv, QueueTypeOK, ClaimNext, Oldest, RowsOf, Row
      <4>4. o # p
        BY <4>1, <4>3 DEF ClaimedFrom
      <4>5. Distance(o) <= Distance(p)
        BY <4>1, <4>2 DEF Selected
      <4>6. DistanceFrom(o, p) + 1 <= Distance(p)
        BY <1>0, <4>4, <4>5, ScanAdvances
      <4> QED BY <1>0, <3>1, <3>2, <3>3, <4>3, <4>6
    <3> QED BY <1>0, <1>3, <3>4, <3>5, <3>6, OnlyClaims DEF RoundRobinNext
  <2> QED BY <1>1, <2>1, <2>2 DEF BypassInv
<1> QED BY <1>2, <1>3

\* A project that stays eligible is passed over by fewer than NumProjects claims, however many
\* projects there are and whatever they submit, pause, put back or fail (claimNext of the
\* coordinator).
THEOREM BoundedBypassCorrect == RoundRobinSpec => []BoundedBypass
<1>1. BypassInv => BoundedBypass
  <2> SUFFICES ASSUME BypassInv, NEW p \in Projects PROVE bypassed[p] < NumProjects
    BY DEF BoundedBypass
  <2>1. bypassed[p] \in Nat /\ Distance(p) \in 0..NumProjects - 1
        /\ bypassed[p] + Distance(p) < NumProjects /\ NumProjects \in Nat
    BY DistanceValue, QueueAssumption DEF BypassInv
  <2> QED BY <2>1
<1> QED BY <1>1, BypassInit, BypassStep, PTL DEF RoundRobinSpec
=============================================================================
