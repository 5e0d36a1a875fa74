---------------------------- MODULE MergeRequest ----------------------------
(***************************************************************************)
(* Preparing and publishing the merge of a merge-source request, command   *)
(* by command: GitRepository of src/server/repository/git-repository.ts,   *)
(* as the service (service.ts) and resolveTarget (project-dispatcher.ts)   *)
(* call it.                                                                *)
(*                                                                         *)
(* A commit is a number; history[c] is the set of its ancestors and        *)
(* itself.  The remote has the scenario branch and a work branch, which    *)
(* others push to, delete and make again between any two commands; the     *)
(* clone has its own view of them and one internal ref per request.  A     *)
(* push may be taken and its answer lost; the process may stop anywhere.   *)
(***************************************************************************)
EXTENDS Naturals, Sequences, FiniteSets

CONSTANTS Requests,    \* the queue ids of merge-source requests
          MaxCommit,   \* bound on the commits made by others and by merges
          MaxDelete,   \* bound on the branches others delete
          MaxFailure,  \* bound on failed commands and lost answers
          MaxCrash     \* bound on restarts

(* The bounds count, and leave room for the two commits there are at first. *)
ASSUME MergeAssumption ==
  MaxCommit \in Nat \ {0, 1} /\ MaxDelete \in Nat /\ MaxFailure \in Nat /\ MaxCrash \in Nat

VARIABLES
  history,    \* the commits and their ancestors
  head,       \* the remote's branches, 0 where there is none
  tracking,   \* refs/remotes/origin of the clone
  ref,        \* refs/luowang/merge-requests of the clone
  row,        \* the facts the queue keeps of a request
  op,         \* the command sequence in progress
  onBranch,   \* commits the scenario branch ever contained
  deletes, failures, crashes

mergeVars == <<history, head, tracking, ref, row, op, onBranch, deletes, failures, crashes>>
remoteVars == <<history, head, onBranch, deletes>>
countVars  == <<deletes, failures, crashes>>

Branches == {"scenario", "work"}
NoOp     == [at |-> "none", request |-> 0, head |-> 0, source |-> 0, commit |-> 0]

MergeTypeOK ==
  /\ history \in Seq(SUBSET (1 .. MaxCommit)) /\ Len(history) <= MaxCommit
  /\ head \in [Branches -> 0 .. MaxCommit] /\ tracking \in [Branches -> 0 .. MaxCommit]
  /\ ref \in [Requests -> 0 .. MaxCommit]
  /\ \A q \in Requests :
       /\ row[q].status \in {"running", "failed", "resolved"}
       /\ row[q].mode \in {"none", "initial-create", "existing-branch"}
       /\ {row[q].source, row[q].original, row[q].prepared} \subseteq 0 .. MaxCommit
  /\ op.at \in {"none", "fetch", "head", "source", "merge", "ref", "record", "publish",
                "check", "push", "verify", "resolve"}
  /\ onBranch \subseteq 1 .. MaxCommit
  /\ deletes \in 0 .. MaxDelete /\ failures \in 0 .. MaxFailure /\ crashes \in 0 .. MaxCrash

MergeInit ==
  /\ history = <<{1}, {1, 2}>>
  /\ head \in {[scenario |-> s, work |-> 2] : s \in {0, 1}}
  /\ tracking = [b \in Branches |-> 0] /\ ref = [q \in Requests |-> 0]
  /\ row \in [Requests -> {[status |-> "running", initialization |-> i, mode |-> "none",
                            source |-> 0, original |-> 0, prepared |-> 0] : i \in BOOLEAN}]
  /\ op = NoOp /\ onBranch = (IF head["scenario"] = 0 THEN {} ELSE {1})
  /\ deletes = 0 /\ failures = 0 /\ crashes = 0

(* isAncestor; a branch that is absent contains nothing. *)
IsAncestor(ancestor, descendant) == descendant # 0 /\ ancestor \in history[descendant]

Grown(ancestors) == Append(history, ancestors \union {Len(history) + 1})

(***************************************************************************)
(* Others who write to the remote, and fetches of the clone by others.     *)
(***************************************************************************)
Moved(branch, commit) ==
  /\ head' = [head EXCEPT ![branch] = commit]
  /\ onBranch' = IF branch = "scenario" /\ commit # 0 THEN onBranch \union history'[commit]
                                                      ELSE onBranch

OthersPush(branch, from) ==
  /\ Len(history) < MaxCommit /\ head[from] # 0
  /\ history' = Grown(history[head[from]] \union
                      IF head[branch] = 0 THEN {} ELSE history[head[branch]])
  /\ Moved(branch, Len(history'))
  /\ UNCHANGED <<tracking, ref, row, op, countVars>>

OthersCreate ==
  /\ head["scenario"] = 0 /\ UNCHANGED history
  /\ \E commit \in 1 .. Len(history) : Moved("scenario", commit)
  /\ UNCHANGED <<tracking, ref, row, op, countVars>>

OthersDelete(branch) ==
  /\ deletes < MaxDelete /\ deletes' = deletes + 1 /\ head[branch] # 0
  /\ Moved(branch, 0) /\ UNCHANGED <<history, tracking, ref, row, op, failures, crashes>>

OthersFetch ==
  /\ tracking # head /\ tracking' = head
  /\ UNCHANGED <<remoteVars, ref, row, op, failures, crashes>>

(***************************************************************************)
(* One command after the other.                                            *)
(***************************************************************************)
Goes(place) == op' = [op EXCEPT !.at = place]

Reads == UNCHANGED <<remoteVars, ref, row, failures, crashes>>

(* An error anywhere fails the request and then removes its ref. *)
RequestFails ==
  /\ row' = [row EXCEPT ![op.request].status = "failed"]
  /\ ref' = [ref EXCEPT ![op.request] = 0] /\ op' = NoOp

(* resolveTarget, also of a request taken up again after a restart. *)
Resolve(q) ==
  /\ op = NoOp /\ row[q].status = "running"
  /\ LET begun == [NoOp EXCEPT !.request = q]
     IN CASE row[q].prepared # 0 -> /\ op' = [begun EXCEPT !.at = "publish"]
                                    /\ UNCHANGED <<row, ref>>
          [] row[q].prepared = 0 /\ ref[q] # 0 ->
               /\ row' = [row EXCEPT ![q].status = "failed"]
               /\ ref' = [ref EXCEPT ![q] = 0] /\ op' = NoOp
          [] OTHER -> op' = [begun EXCEPT !.at = "fetch"] /\ UNCHANGED <<row, ref>>
  /\ UNCHANGED <<remoteVars, tracking, failures, crashes>>

FetchToPrepare == /\ op.at = "fetch" /\ tracking' = head /\ Goes("head") /\ Reads

ReadHead ==
  /\ op.at = "head" /\ op' = [op EXCEPT !.at = "source", !.head = head["scenario"]]
  /\ UNCHANGED tracking /\ Reads

(* A branch counts when the remote still advertises what the clone has; a   *)
(* commit, when a branch of the clone contains it.                          *)
PublishedSource(commit) ==
  \/ commit = tracking["work"] /\ tracking["work"] = head["work"]
  \/ \E b \in Branches : IsAncestor(commit, tracking[b])

ResolveSource ==
  /\ op.at = "source"
  /\ \/ \E commit \in 1 .. Len(history) :
          /\ PublishedSource(commit)
          /\ op.head # 0 \/ row[op.request].initialization
          /\ op' = [op EXCEPT !.at = "merge", !.source = commit] /\ UNCHANGED <<row, ref>>
     \/ RequestFails
  /\ UNCHANGED <<remoteVars, tracking, failures, crashes>>

(* The source itself for a first creation, the head when it contains the    *)
(* source, else a merge commit; a conflict fails the request.               *)
MergeSource ==
  /\ op.at = "merge"
  /\ \/ /\ op.head = 0 /\ op' = [op EXCEPT !.at = "ref", !.commit = op.source]
        /\ UNCHANGED <<history, row, ref>>
     \/ /\ IsAncestor(op.source, op.head)
        /\ op' = [op EXCEPT !.at = "ref", !.commit = op.head] /\ UNCHANGED <<history, row, ref>>
     \/ /\ op.head # 0 /\ ~IsAncestor(op.source, op.head) /\ Len(history) < MaxCommit
        /\ history' = Grown(history[op.head] \union history[op.source])
        /\ op' = [op EXCEPT !.at = "ref", !.commit = Len(history')] /\ UNCHANGED <<row, ref>>
     \/ /\ op.head # 0 /\ ~IsAncestor(op.source, op.head)
        /\ RequestFails /\ UNCHANGED history
  /\ UNCHANGED <<head, onBranch, tracking, countVars>>

CreateRef ==
  /\ op.at = "ref" /\ ref[op.request] = 0 /\ ref' = [ref EXCEPT ![op.request] = op.commit]
  /\ Goes("record") /\ UNCHANGED <<remoteVars, tracking, row, failures, crashes>>

MarkPrepared ==
  /\ op.at = "record"
  /\ row' = [row EXCEPT ![op.request] =
               [@ EXCEPT !.mode = IF op.head = 0 THEN "initial-create" ELSE "existing-branch",
                         !.source = op.source, !.original = op.head, !.prepared = op.commit]]
  /\ Goes("publish") /\ UNCHANGED <<remoteVars, tracking, ref, failures, crashes>>

Mine == row[op.request]

FetchToPublish == /\ op.at = "publish" /\ tracking' = head /\ Goes("check") /\ Reads

MayPush(remoteHead) == /\ ref[op.request] = Mine.prepared
                       /\ Mine.mode = "initial-create" <=> remoteHead = 0

CheckHead ==
  /\ op.at = "check"
  /\ LET remoteHead == head["scenario"]
     IN \/ IsAncestor(Mine.prepared, remoteHead) /\ Goes("resolve") /\ UNCHANGED <<row, ref>>
        \/ /\ ~IsAncestor(Mine.prepared, remoteHead) /\ MayPush(remoteHead)
           /\ op' = [op EXCEPT !.at = "push", !.head = remoteHead] /\ UNCHANGED <<row, ref>>
        \/ ~IsAncestor(Mine.prepared, remoteHead) /\ ~MayPush(remoteHead) /\ RequestFails
  /\ UNCHANGED <<remoteVars, tracking, failures, crashes>>

(* Mutant: the first creation pushes without the empty lease. *)
PushTakenUnleased == head["scenario"] = 0 \/ IsAncestor(head["scenario"], Mine.prepared)

(* What the remote takes: for a first creation only an absent branch (the   *)
(* empty lease), else what contains the branch.                             *)
PushTaken == \/ head["scenario"] = 0
             \/ Mine.mode = "existing-branch" /\ IsAncestor(head["scenario"], Mine.prepared)

(* An answer that is lost and a push that is refused are both checked.      *)
Push ==
  /\ op.at = "push" /\ UNCHANGED history
  /\ \/ PushTaken /\ Moved("scenario", Mine.prepared) /\ UNCHANGED failures
     \/ ~PushTaken /\ UNCHANGED <<head, onBranch, failures>>
     \/ /\ PushTaken /\ failures < MaxFailure /\ failures' = failures + 1
        /\ UNCHANGED <<head, onBranch>>
  /\ Goes("verify") /\ UNCHANGED <<tracking, ref, row, deletes, crashes>>

(* Mutant: the push is believed. *)
VerifyBelieved == /\ op.at = "verify" /\ tracking' = head /\ Goes("resolve") /\ Reads

Verify ==
  /\ op.at = "verify" /\ tracking' = head
  /\ \/ IsAncestor(Mine.prepared, head["scenario"]) /\ Goes("resolve") /\ UNCHANGED <<row, ref>>
     \/ ~IsAncestor(Mine.prepared, head["scenario"]) /\ RequestFails
  /\ UNCHANGED <<remoteVars, failures, crashes>>

MarkResolved ==
  /\ op.at = "resolve" /\ row' = [row EXCEPT ![op.request].status = "resolved"] /\ op' = NoOp
  /\ UNCHANGED <<remoteVars, tracking, ref, failures, crashes>>

(* A resolved request whose Run was not started is checked once more when   *)
(* it is taken up after a restart.                                          *)
RecheckResolved(q) ==
  /\ op = NoOp /\ crashes > 0 /\ row[q].status = "resolved" /\ tracking' = head
  /\ ~IsAncestor(row[q].prepared, head["scenario"])
  /\ row' = [row EXCEPT ![q].status = "failed"] /\ ref' = [ref EXCEPT ![q] = 0]
  /\ UNCHANGED <<remoteVars, op, failures, crashes>>

(* The ref is removed when the Run's archive completed. *)
CleanupRef(q) ==
  /\ row[q].status = "resolved" /\ ref[q] # 0 /\ ref' = [ref EXCEPT ![q] = 0]
  /\ UNCHANGED <<remoteVars, tracking, row, op, failures, crashes>>

(* Any command may fail or exceed its time. *)
CommandFails ==
  /\ op.at \notin {"none", "record", "resolve", "push"}
  /\ failures < MaxFailure /\ failures' = failures + 1
  /\ RequestFails /\ UNCHANGED <<remoteVars, tracking, crashes>>

MergeCrash == /\ crashes < MaxCrash /\ crashes' = crashes + 1 /\ op' = NoOp
              /\ UNCHANGED <<remoteVars, tracking, ref, row, failures>>

MergeNext ==
  \/ \E b, from \in Branches : OthersPush(b, from)
  \/ \E b \in Branches : OthersDelete(b)
  \/ \E q \in Requests : Resolve(q) \/ RecheckResolved(q) \/ CleanupRef(q)
  \/ OthersCreate \/ OthersFetch \/ FetchToPrepare \/ ReadHead \/ ResolveSource \/ MergeSource \/ CreateRef
  \/ MarkPrepared \/ FetchToPublish \/ CheckHead \/ Push \/ Verify \/ MarkResolved
  \/ CommandFails \/ MergeCrash

MergeSpec == MergeInit /\ [][MergeNext]_mergeVars

(***************************************************************************)
(* A request resolved to a commit the scenario branch really contained,    *)
(* and that commit contains both the source the administrator chose and    *)
(* the head the merge was prepared on, whatever others pushed, deleted or  *)
(* made again meanwhile and whichever answers were lost                    *)
(* (publishPreparedMerge, prepareMergeRequest).                            *)
(***************************************************************************)
ResolvedIsPublishedMerge ==
  \A q \in Requests : row[q].status = "resolved" =>
     /\ row[q].prepared \in onBranch
     /\ IsAncestor(row[q].source, row[q].prepared)
     /\ row[q].original # 0 => IsAncestor(row[q].original, row[q].prepared)

(***************************************************************************)
(* A push adds to the scenario branch, and the push of a first creation    *)
(* only makes it: others who made the branch between the check and the     *)
(* push keep what they pushed (the comment at publishPreparedMerge's       *)
(* pushArguments).                                                         *)
(***************************************************************************)
OthersWorkKept ==
  [][op.at = "push" /\ head'["scenario"] # head["scenario"] /\ op'.at = "verify" =>
       \/ head["scenario"] = 0
       \/ Mine.mode = "existing-branch" /\ history[head["scenario"]] \subseteq
                                           history[head'["scenario"]]]_mergeVars

(* repository/git-repository.ts: what a merge request resolves to was      *)
(* published with both sides in it, and no push loses others' work.        *)
MergesPublished == OthersWorkKept /\ []ResolvedIsPublishedMerge
=============================================================================
