------------------------- MODULE MergeRequestProofs -------------------------
(***************************************************************************)
(* Proofs about MergeRequest, for any requests, any number of commits,     *)
(* deletions, failures and restarts.                                       *)
(*                                                                         *)
(* The argument.  Commits are only added, with all their ancestors, and    *)
(* what the scenario branch once contained stays in onBranch (Grows).      *)
(* What the sequence of commands remembers is true of these: the commit    *)
(* it prepared contains the source and the head it read (OpInv), what it   *)
(* recorded stays so (RowInv), and it resolves a request only after it saw *)
(* the commit on the branch.                                               *)
(***************************************************************************)
EXTENDS MergeRequest, TLAPS

\* Every commit has itself and the ancestors of its ancestors among its ancestors.
MergeCommits ==
  /\ history \in Seq(SUBSET Nat)
  /\ \A c \in 1 .. Len(history) :
       /\ c \in history[c] /\ history[c] \subseteq 1 .. Len(history)
       /\ \A a \in history[c] : history[a] \subseteq history[c]

\* The branches name commits, and what the scenario branch has now it has contained.
CommandPlaces ==
  /\ head \in [Branches -> 0 .. Len(history)] /\ tracking \in [Branches -> 0 .. Len(history)]
  /\ onBranch \subseteq 1 .. Len(history)
  /\ head["scenario"] # 0 => history[head["scenario"]] \subseteq onBranch

\* The rows and where the commands stand have these fields.
MergeRowType == [status : {"running", "failed", "resolved"}, initialization : BOOLEAN,
            mode : {"none", "initial-create", "existing-branch"},
            source : Nat, original : Nat, prepared : Nat]
OpType == [at : {"none", "fetch", "head", "source", "merge", "ref", "record", "publish",
                 "check", "push", "verify", "resolve"},
           request : Requests \union {0}, head : Nat, source : Nat, commit : Nat]
Types  == row \in [Requests -> MergeRowType] /\ op \in OpType

\* commit contains the source and the head the merge was prepared on.
Holds(commit, source, original) ==
  /\ commit \in 1 .. Len(history) /\ source \in history[commit]
  /\ original # 0 => original \in history[commit]

RowInv(q) ==
  /\ row[q].prepared # 0 => Holds(row[q].prepared, row[q].source, row[q].original)
  /\ row[q].status = "resolved" => row[q].prepared # 0 /\ row[q].prepared \in onBranch

\* What the commands know when they stand where op says.
OpInv ==
  /\ op.at # "none" => op.request \in Requests /\ row[op.request].status = "running"
  /\ op.at \in {"source", "merge"} => op.head \in 0 .. Len(history)
  /\ op.at = "merge" => op.source \in 1 .. Len(history)
  /\ op.at \in {"ref", "record"} => Holds(op.commit, op.source, op.head)
  /\ op.at \in {"publish", "check", "push", "verify", "resolve"} => row[op.request].prepared # 0
  /\ op.at = "resolve" => row[op.request].prepared \in onBranch

MergeInv ==
  /\ MergeCommits /\ CommandPlaces /\ Types /\ OpInv
  /\ \A q \in Requests : RowInv(q)

\* Commits are added and none changes; what the branch contained stays.
RemoteGrows ==
  /\ Len(history) <= Len(history') /\ onBranch \subseteq onBranch'
  /\ \A c \in 1 .. Len(history) : history'[c] = history[c]

-----------------------------------------------------------------------------
\* A commit on top of commits: a set of ancestors that is closed under ancestors.
LEMMA GrownKeeps ==
  ASSUME MergeCommits, NEW anc, anc \subseteq 1 .. Len(history), history' = Grown(anc),
         \A a \in anc : history[a] \subseteq anc
  PROVE  /\ MergeCommits' /\ Len(history') = Len(history) + 1
         /\ history'[Len(history')] = anc \union {Len(history')}
         /\ \A c \in 1 .. Len(history) : history'[c] = history[c]
<1> DEFINE n == Len(history)
<1>1. n \in Nat /\ history \in Seq(SUBSET Nat) BY DEF MergeCommits
<1>2. anc \union {n + 1} \in SUBSET Nat
  <2>1. n + 1 \in Nat /\ \A a \in anc : a \in 1 .. n BY <1>1
  <2>2. \A a \in 1 .. n : a \in Nat BY <1>1
  <2> QED BY <2>1, <2>2
<1>3. /\ history' \in Seq(SUBSET Nat) /\ Len(history') = n + 1
      /\ history'[n + 1] = anc \union {n + 1}
      /\ \A c \in 1 .. n : history'[c] = history[c]
  BY <1>1, <1>2 DEF Grown
<1>4. ASSUME NEW c \in 1 .. n + 1
      PROVE  /\ c \in history'[c] /\ history'[c] \subseteq 1 .. n + 1
             /\ \A a \in history'[c] : history'[a] \subseteq history'[c]
  <2>1. CASE c \in 1 .. n
    <3>1. c \in history[c] /\ history[c] \subseteq 1 .. n
          /\ \A a \in history[c] : history[a] \subseteq history[c]
      BY <2>1 DEF MergeCommits
    <3>2. \A a \in history[c] : history'[a] = history[a] BY <1>3, <3>1
    <3>3. history'[c] = history[c] BY <1>3, <2>1
    <3> QED BY <1>1, <3>1, <3>2, <3>3
  <2>2. CASE c = n + 1
    <3>1. \A a \in anc : history'[a] = history[a] BY <1>3
    <3> QED BY <1>1, <1>3, <2>2, <3>1
  <2> QED BY <1>1, <2>1, <2>2
<1> QED BY <1>3, <1>4 DEF MergeCommits

\* The ancestors of a branch, or of two, are closed under ancestors.
LEMMA AncestorsClosed ==
  ASSUME MergeCommits, NEW a \in 1 .. Len(history), NEW b \in 1 .. Len(history)
  PROVE  /\ history[a] \union history[b] \subseteq 1 .. Len(history)
         /\ \A c \in history[a] \union history[b] : history[c] \subseteq history[a] \union history[b]
BY DEF MergeCommits

\* What a request recorded and what the commands know stays true while commits are added.
LEMMA FactsStay ==
  ASSUME MergeCommits, RemoteGrows, Len(history') \in Nat, Types, UNCHANGED row,
         \A q \in Requests : RowInv(q)
  PROVE  /\ \A q \in Requests : RowInv(q)'
         /\ OpInv /\ op' = op => OpInv'
<1>1. \A commit, source, original :
        Holds(commit, source, original) => Holds(commit, source, original)'
  BY DEF Holds, RemoteGrows, MergeCommits
<1>2. ASSUME NEW q \in Requests PROVE RowInv(q)' BY <1>1 DEF RowInv, RemoteGrows
<1>3. ASSUME OpInv, op' = op PROVE OpInv'
  <2>1. Len(history) \in Nat BY DEF MergeCommits
  <2> QED BY <1>1, <1>3, <2>1 DEF OpInv, RemoteGrows
<1> QED BY <1>2, <1>3

LEMMA InitInv == MergeInit => MergeInv
<1> SUFFICES ASSUME MergeInit PROVE MergeInv OBVIOUS
<1>1. history = <<{1}, {1, 2}>> /\ Len(history) = 2 /\ history[1] = {1} /\ history[2] = {1, 2}
      /\ history \in Seq(SUBSET Nat)
  BY DEF MergeInit
<1>2. MergeCommits BY <1>1 DEF MergeCommits
<1>3. CommandPlaces BY <1>1 DEF CommandPlaces, MergeInit, Branches
<1>4. Types BY DEF Types, OpType, MergeRowType, MergeInit, NoOp
<1>5. OpInv BY DEF OpInv, MergeInit, NoOp
<1>6. \A q \in Requests : RowInv(q) BY DEF RowInv, MergeInit
<1> QED BY <1>2, <1>3, <1>4, <1>5, <1>6 DEF MergeInv

-----------------------------------------------------------------------------
\* The remote and the clone move, the commands and the rows rest.
LEMMA RemoteMoves ==
  ASSUME MergeInv, RemoteGrows, MergeCommits', CommandPlaces', UNCHANGED <<row, op>>
  PROVE  MergeInv'
<1>1. Len(history') \in Nat BY DEF MergeCommits
<1>2. Types' BY DEF Types, OpType, MergeRowType, MergeInv
<1> QED BY <1>1, <1>2, FactsStay DEF MergeInv

\* The commands move, the remote rests; the clone rests or sees the remote as it is.
LEMMA RemoteRests ==
  ASSUME MergeInv, UNCHANGED <<history, head, onBranch>>, tracking' \in {tracking, head}
  PROVE  /\ MergeCommits' /\ CommandPlaces'
         /\ UNCHANGED row => \A q \in Requests : RowInv(q)'
<1>1. MergeCommits' BY DEF MergeInv, MergeCommits
<1>2. CommandPlaces' BY DEF MergeInv, CommandPlaces
<1>3. ASSUME UNCHANGED row, NEW q \in Requests PROVE RowInv(q)'
  BY <1>3 DEF MergeInv, RowInv, Holds
<1> QED BY <1>1, <1>2, <1>3

\* A request that fails leaves nothing to be resolved.
LEMMA FailingKeeps ==
  ASSUME MergeInv, NEW r \in Requests, row' = [row EXCEPT ![r].status = "failed"], op' = NoOp,
         UNCHANGED <<history, onBranch>>
  PROVE  Types' /\ OpInv' /\ \A q \in Requests : RowInv(q)'
<1>1. Types' BY DEF MergeInv, Types, OpType, MergeRowType, NoOp
<1>2. OpInv' BY DEF OpInv, NoOp
<1>3. ASSUME NEW q \in Requests PROVE RowInv(q)'
  <2>1. row[q] \in MergeRowType BY DEF MergeInv, Types
  <2>2. row'[q] = IF q = r THEN [row[q] EXCEPT !.status = "failed"] ELSE row[q]
    BY DEF MergeInv, Types
  <2>3. /\ row'[q].prepared = row[q].prepared /\ row'[q].source = row[q].source
        /\ row'[q].original = row[q].original
        /\ row'[q].status = "resolved" => row[q].status = "resolved"
    BY <2>1, <2>2 DEF MergeRowType
  <2> QED BY <2>3 DEF MergeInv, RowInv, Holds
<1> QED BY <1>1, <1>2, <1>3

\* A branch that moves to a commit, in a history that only grew.
LEMMA MovedPlaces ==
  ASSUME MergeInv, RemoteGrows, MergeCommits', NEW branch \in Branches,
         NEW commit \in 0 .. Len(history'), Moved(branch, commit), UNCHANGED tracking
  PROVE  CommandPlaces'
<1>1. Len(history) \in Nat /\ Len(history') \in Nat BY DEF MergeInv, MergeCommits
<1>2. /\ head \in [Branches -> 0 .. Len(history)] /\ tracking \in [Branches -> 0 .. Len(history)]
      /\ onBranch \subseteq 1 .. Len(history)
      /\ head["scenario"] # 0 => history[head["scenario"]] \subseteq onBranch
  BY DEF MergeInv, CommandPlaces
<1>3. Len(history) <= Len(history') /\ onBranch \subseteq onBranch' BY DEF RemoteGrows
<1>4. head' \in [Branches -> 0 .. Len(history')] /\ tracking' \in [Branches -> 0 .. Len(history')]
  BY <1>1, <1>2, <1>3 DEF Moved
<1>5. commit # 0 => history'[commit] \subseteq 1 .. Len(history') BY <1>1 DEF MergeCommits
<1>6. onBranch' \subseteq 1 .. Len(history')
  <2>1. \A c \in 1 .. Len(history) : c \in 1 .. Len(history') BY <1>1, <1>3
  <2>2. onBranch \subseteq 1 .. Len(history') BY <1>2, <2>1
  <2> QED BY <1>5, <2>2 DEF Moved
<1>7. head'["scenario"] # 0 => history'[head'["scenario"]] \subseteq onBranch'
  <2>1. CASE branch = "scenario" BY <1>2, <2>1 DEF Moved, Branches
  <2>2. CASE branch # "scenario"
    <3>1. head'["scenario"] = head["scenario"] /\ head["scenario"] \in 0 .. Len(history)
      BY <1>2, <2>2 DEF Moved, Branches
    <3>2. head["scenario"] # 0 => history'[head["scenario"]] = history[head["scenario"]]
      BY <1>1, <3>1 DEF RemoteGrows
    <3> QED BY <1>2, <1>3, <3>1, <3>2
  <2> QED BY <2>1, <2>2
<1> QED BY <1>4, <1>6, <1>7 DEF CommandPlaces

-----------------------------------------------------------------------------
\* The others keep the invariant.
LEMMA OthersKeep ==
  ASSUME MergeInv,
         \/ \E b, from \in Branches : OthersPush(b, from)
         \/ \E b \in Branches : OthersDelete(b)
         \/ OthersCreate \/ OthersFetch
  PROVE  MergeInv'
<1>0. MergeCommits /\ CommandPlaces /\ Len(history) \in Nat BY DEF MergeInv, MergeCommits
<1>1. ASSUME NEW b \in Branches, NEW from \in Branches, OthersPush(b, from) PROVE MergeInv'
  <2>1. head[b] \in 0 .. Len(history) /\ head[from] \in 1 .. Len(history)
    BY <1>0, <1>1 DEF OthersPush, CommandPlaces
  <2> DEFINE anc == history[head[from]] \union IF head[b] = 0 THEN {} ELSE history[head[b]]
  <2>2. anc \subseteq 1 .. Len(history) /\ \A a \in anc : history[a] \subseteq anc
    <3>1. CASE head[b] = 0
      <4>1. anc = history[head[from]] \union history[head[from]] BY <3>1
      <4> HIDE DEF anc
      <4> QED BY <1>0, <2>1, <4>1, AncestorsClosed
    <3>2. CASE head[b] # 0
      <4>1. anc = history[head[from]] \union history[head[b]] BY <3>2
      <4>2. head[b] \in 1 .. Len(history) BY <2>1, <3>2, <1>0
      <4> HIDE DEF anc
      <4> QED BY <1>0, <2>1, <4>1, <4>2, AncestorsClosed
    <3> QED BY <3>1, <3>2
  <2>3. history' = Grown(anc) /\ Moved(b, Len(history')) /\ UNCHANGED <<tracking, row, op>>
    BY <1>1 DEF OthersPush
  <2> HIDE DEF anc
  <2>4. /\ MergeCommits' /\ Len(history') = Len(history) + 1
        /\ \A c \in 1 .. Len(history) : history'[c] = history[c]
    BY <1>0, <2>2, <2>3, GrownKeeps
  <2>5. onBranch \subseteq onBranch' BY <2>3 DEF Moved
  <2>6. RemoteGrows BY <1>0, <2>4, <2>5 DEF RemoteGrows
  <2>7. Len(history') \in 0 .. Len(history') BY <1>0, <2>4
  <2>8. CommandPlaces' BY <2>3, <2>4, <2>6, <2>7, MovedPlaces
  <2> QED BY <2>3, <2>4, <2>6, <2>8, RemoteMoves
<1>2. ASSUME NEW b \in Branches, NEW commit \in 0 .. Len(history), Moved(b, commit),
             UNCHANGED <<history, tracking, row, op>>
      PROVE  MergeInv'
  <2>1. MergeCommits' BY <1>0, <1>2 DEF MergeCommits
  <2>2. RemoteGrows BY <1>0, <1>2 DEF RemoteGrows, Moved
  <2>3. commit \in 0 .. Len(history') BY <1>2
  <2>4. CommandPlaces' BY <1>2, <2>1, <2>2, <2>3, MovedPlaces
  <2> QED BY <1>2, <2>1, <2>2, <2>4, RemoteMoves
<1>3. ASSUME NEW b \in Branches, OthersDelete(b) PROVE MergeInv'
  <2>1. Moved(b, 0) /\ UNCHANGED <<history, tracking, row, op>> BY <1>3 DEF OthersDelete
  <2>2. 0 \in 0 .. Len(history) BY <1>0
  <2> QED BY <1>2, <2>1, <2>2
<1>4. ASSUME OthersCreate PROVE MergeInv'
  <2>1. PICK commit \in 1 .. Len(history) : Moved("scenario", commit)
    BY <1>4 DEF OthersCreate
  <2>2. UNCHANGED <<history, tracking, row, op>> BY <1>4 DEF OthersCreate
  <2>3. commit \in 0 .. Len(history) /\ "scenario" \in Branches BY <1>0 DEF Branches
  <2> QED BY <1>2, <2>1, <2>2, <2>3
<1>5. ASSUME OthersFetch PROVE MergeInv'
  <2>1. UNCHANGED <<history, head, onBranch, row, op>> /\ tracking' = head
    BY <1>5 DEF OthersFetch, remoteVars
  <2>2. MergeCommits' /\ CommandPlaces' BY <2>1, RemoteRests
  <2>3. RemoteGrows BY <1>0, <2>1 DEF RemoteGrows
  <2> QED BY <2>1, <2>2, <2>3, RemoteMoves
<1> QED BY <1>1, <1>3, <1>4, <1>5

\* A step that only moves the commands, or fails a request, keeps the invariant when what the
\* commands then know is true.
LEMMA CommandMoves ==
  ASSUME MergeInv, UNCHANGED <<history, head, onBranch>>, tracking' \in {tracking, head},
         \/ UNCHANGED row /\ Types' /\ OpInv'
         \/ op.at # "none" /\ RequestFails
         \/ op' = NoOp /\ \E r \in Requests : row' = [row EXCEPT ![r].status = "failed"]
  PROVE  MergeInv'
<1>1. MergeCommits' /\ CommandPlaces' /\ (UNCHANGED row => \A q \in Requests : RowInv(q)') BY RemoteRests
<1>2. CASE UNCHANGED row /\ Types' /\ OpInv' BY <1>1, <1>2 DEF MergeInv
<1>3. CASE op' = NoOp /\ \E r \in Requests : row' = [row EXCEPT ![r].status = "failed"]
  <2>1. Types' /\ OpInv' /\ \A q \in Requests : RowInv(q)' BY <1>3, FailingKeeps
  <2> QED BY <1>1, <2>1 DEF MergeInv
<1>4. CASE op.at # "none" /\ RequestFails
  <2>1. op.request \in Requests BY <1>4 DEF MergeInv, OpInv
  <2> QED BY <1>3, <1>4, <2>1 DEF RequestFails
<1> QED BY <1>2, <1>3, <1>4

\* The steps up to the merge commit.
LEMMA PreparingKeeps ==
  ASSUME MergeInv, FetchToPrepare \/ ReadHead \/ ResolveSource \/ CreateRef \/ FetchToPublish
  PROVE  MergeInv'
<1> USE DEF remoteVars
<1>0. /\ MergeCommits /\ CommandPlaces /\ Types /\ OpInv /\ Len(history) \in Nat
  BY DEF MergeInv, MergeCommits
<1>1. CASE FetchToPrepare
  <2>1. Types' /\ OpInv' BY <1>0, <1>1 DEF FetchToPrepare, Reads, Goes, Types, OpType, MergeRowType, OpInv
  <2> QED BY <1>1, <2>1, CommandMoves DEF FetchToPrepare, Reads
<1>2. CASE ReadHead
  <2>1. head["scenario"] \in 0 .. Len(history) BY <1>0 DEF CommandPlaces, Branches
  <2>2. head["scenario"] \in Nat BY <1>0, <2>1
  <2>3. Types' BY <1>0, <1>2, <2>2 DEF ReadHead, Reads, Types, OpType
  <2>4. OpInv' BY <1>0, <1>2, <2>1 DEF ReadHead, Reads, Types, OpType, OpInv
  <2> QED BY <1>2, <2>3, <2>4, CommandMoves DEF ReadHead, Reads
<1>3. CASE ResolveSource
  <2>1. CASE RequestFails
    BY <1>3, <2>1, CommandMoves DEF ResolveSource
  <2>2. ASSUME NEW commit \in 1 .. Len(history),
               op' = [op EXCEPT !.at = "merge", !.source = commit], UNCHANGED row
        PROVE  MergeInv'
    <3>1. op.at = "source" /\ UNCHANGED <<history, head, onBranch, tracking>>
      BY <1>3 DEF ResolveSource
    <3>2. commit \in Nat BY <1>0
    <3>3. Types' BY <1>0, <2>2, <3>1, <3>2 DEF Types, OpType
    <3>4. OpInv' BY <1>0, <2>2, <3>1 DEF Types, OpType, OpInv
    <3> QED BY <2>2, <3>1, <3>3, <3>4, CommandMoves
  <2> QED BY <1>3, <2>1, <2>2 DEF ResolveSource
<1>4. CASE CreateRef
  <2>1. UNCHANGED <<history, onBranch, row>> /\ op' = [op EXCEPT !.at = "record"]
        /\ op.at = "ref"
    BY <1>4 DEF CreateRef, Goes
  <2>2. Types' BY <1>0, <2>1 DEF Types, OpType, MergeRowType
  <2>3. OpInv' BY <1>0, <2>1 DEF Types, OpType, MergeRowType, OpInv, Holds
  <2> QED BY <1>4, <2>1, <2>2, <2>3, CommandMoves DEF CreateRef
<1>5. CASE FetchToPublish
  <2>1. Types' /\ OpInv' BY <1>0, <1>5 DEF FetchToPublish, Reads, Goes, Types, OpType, MergeRowType, OpInv
  <2> QED BY <1>5, <2>1, CommandMoves DEF FetchToPublish, Reads
<1> QED BY <1>1, <1>2, <1>3, <1>4, <1>5

\* The commit that is prepared contains the source and the head that was read.
LEMMA MergeKeeps ==
  ASSUME MergeInv, MergeSource
  PROVE  MergeInv'
<1>0. /\ MergeCommits /\ CommandPlaces /\ Types /\ OpInv /\ Len(history) \in Nat
      /\ \A q \in Requests : RowInv(q)
  BY DEF MergeInv, MergeCommits
<1>1. /\ op.at = "merge" /\ op.head \in 0 .. Len(history) /\ op.source \in 1 .. Len(history)
      /\ op.request \in Requests /\ row[op.request].status = "running"
      /\ UNCHANGED <<head, onBranch, tracking>>
  BY <1>0 DEF OpInv, MergeSource
<1>2. ASSUME NEW commit \in 1 .. Len(history), Holds(commit, op.source, op.head),
             op' = [op EXCEPT !.at = "ref", !.commit = commit], UNCHANGED <<history, row>>
      PROVE  MergeInv'
  <2>0. commit \in Nat BY <1>0
  <2>1. Types' BY <1>0, <1>2, <2>0 DEF Types, OpType
  <2>2. OpInv' BY <1>0, <1>1, <1>2 DEF OpInv, Types, OpType, MergeRowType, Holds
  <2> QED BY <1>1, <1>2, <2>1, <2>2, CommandMoves
<1>3. CASE op.head = 0 /\ op' = [op EXCEPT !.at = "ref", !.commit = op.source]
           /\ UNCHANGED <<history, row>>
  <2>1. Holds(op.source, op.source, op.head) BY <1>0, <1>1, <1>3 DEF Holds, MergeCommits
  <2> QED BY <1>1, <1>2, <1>3, <2>1
<1>4. CASE IsAncestor(op.source, op.head) /\ op' = [op EXCEPT !.at = "ref", !.commit = op.head]
           /\ UNCHANGED <<history, row>>
  <2>1. op.head \in 1 .. Len(history) BY <1>0, <1>1, <1>4 DEF IsAncestor
  <2>2. Holds(op.head, op.source, op.head)
    BY <1>0, <1>1, <1>4, <2>1 DEF Holds, MergeCommits, IsAncestor
  <2> QED BY <1>2, <1>4, <2>1, <2>2
<1>5. CASE op.head # 0 /\ history' = Grown(history[op.head] \union history[op.source])
           /\ op' = [op EXCEPT !.at = "ref", !.commit = Len(history')] /\ UNCHANGED row
  <2> DEFINE anc == history[op.head] \union history[op.source]
  <2>1. op.head \in 1 .. Len(history) BY <1>0, <1>1, <1>5
  <2>2. anc \subseteq 1 .. Len(history) /\ \A a \in anc : history[a] \subseteq anc
    BY <1>0, <1>1, <2>1, AncestorsClosed
  <2>3. op.head \in anc /\ op.source \in anc BY <1>0, <1>1, <2>1 DEF MergeCommits
  <2>4. history' = Grown(anc) BY <1>5
  <2> HIDE DEF anc
  <2>5. /\ MergeCommits' /\ Len(history') = Len(history) + 1
        /\ history'[Len(history')] = anc \union {Len(history')}
        /\ \A c \in 1 .. Len(history) : history'[c] = history[c]
    BY <1>0, <2>2, <2>4, GrownKeeps
  <2>6. RemoteGrows BY <1>0, <1>1, <2>5 DEF RemoteGrows
  <2>7. Len(history') \in Nat BY <1>0, <2>5
  <2>8. \A q \in Requests : RowInv(q)'
    BY <1>0, <1>5, <2>6, <2>7, FactsStay
  <2>9. CommandPlaces'
    <3>1. head["scenario"] # 0 => history'[head["scenario"]] = history[head["scenario"]]
      BY <1>0, <2>5 DEF CommandPlaces, Branches
    <3> QED BY <1>0, <1>1, <2>5, <3>1 DEF CommandPlaces
  <2>10. Types' BY <1>0, <1>5, <2>7 DEF Types, OpType, MergeRowType
  <2>11. OpInv'
    <3>1. /\ op'.at = "ref" /\ op'.request = op.request /\ op'.commit = Len(history')
          /\ op'.source = op.source /\ op'.head = op.head
      BY <1>0, <1>5 DEF Types, OpType, MergeRowType
    <3>2. /\ op'.commit \in 1 .. Len(history') /\ op'.source \in history'[op'.commit]
          /\ op'.head # 0 => op'.head \in history'[op'.commit]
      BY <1>0, <2>3, <2>5, <3>1
    <3> QED BY <1>1, <1>5, <3>1, <3>2 DEF OpInv, Holds
  <2> QED BY <2>5, <2>8, <2>9, <2>10, <2>11 DEF MergeInv
<1>6. CASE RequestFails /\ UNCHANGED history BY <1>1, <1>6, CommandMoves
<1> QED BY <1>3, <1>4, <1>5, <1>6 DEF MergeSource

\* Recording the merge, publishing it and resolving the request.
LEMMA PublishingKeeps ==
  ASSUME MergeInv, MarkPrepared \/ CheckHead \/ Push \/ Verify \/ MarkResolved
  PROVE  MergeInv'
<1> USE DEF remoteVars
<1>0. /\ MergeCommits /\ CommandPlaces /\ Types /\ OpInv /\ Len(history) \in Nat
      /\ \A q \in Requests : RowInv(q)
  BY DEF MergeInv, MergeCommits
<1>1. CASE MarkPrepared
  <2> DEFINE r == op.request
             new == [row[r] EXCEPT !.mode = IF op.head = 0 THEN "initial-create"
                                                           ELSE "existing-branch",
                                   !.source = op.source, !.original = op.head,
                                   !.prepared = op.commit]
  <2>1. /\ r \in Requests /\ row[r].status = "running" /\ row[r] \in MergeRowType /\ op \in OpType
        /\ Holds(op.commit, op.source, op.head) /\ op.at = "record"
    BY <1>0, <1>1 DEF MarkPrepared, OpInv, Types
  <2>2. /\ row' = [row EXCEPT ![r] = new] /\ op' = [op EXCEPT !.at = "publish"]
        /\ UNCHANGED <<history, head, onBranch, tracking>>
    BY <1>1 DEF MarkPrepared, Goes
  <2>3. /\ new \in MergeRowType /\ new.status = "running" /\ new.source = op.source
        /\ new.original = op.head /\ new.prepared = op.commit
    BY <2>1 DEF MergeRowType, OpType
  <2> HIDE DEF new
  <2>4. row'[r] = new /\ \A q \in Requests : q # r => row'[q] = row[q]
    BY <1>0, <2>1, <2>2 DEF Types
  <2>5. Types' BY <1>0, <2>1, <2>2, <2>3 DEF Types, OpType
  <2>6. op.commit # 0 BY <1>0, <2>1 DEF Holds
  <2>7. OpInv' BY <2>1, <2>2, <2>3, <2>4, <2>6 DEF OpInv, OpType
  <2>8. ASSUME NEW q \in Requests PROVE RowInv(q)'
    <3>1. CASE q = r BY <2>1, <2>2, <2>3, <2>4, <3>1 DEF RowInv, Holds
    <3>2. CASE q # r BY <1>0, <2>2, <2>4, <3>2 DEF RowInv, Holds
    <3> QED BY <3>1, <3>2
  <2>9. MergeCommits' /\ CommandPlaces' BY <2>2, RemoteRests
  <2> QED BY <2>5, <2>7, <2>8, <2>9 DEF MergeInv
<1>2. CASE CheckHead
  <2>1. /\ op.at = "check" /\ UNCHANGED <<history, head, onBranch, tracking>>
        /\ head["scenario"] \in 0 .. Len(history)
    BY <1>0, <1>2 DEF CheckHead, CommandPlaces, Branches
  <2>2. CASE IsAncestor(Mine.prepared, head["scenario"]) /\ Goes("resolve") /\ UNCHANGED row
    <3>1. row[op.request].prepared \in onBranch
      BY <1>0, <2>2 DEF IsAncestor, Mine, CommandPlaces
    <3>2. Types' BY <1>0, <2>2 DEF Types, OpType, Goes
    <3>3. OpInv' BY <1>0, <2>1, <2>2, <3>1 DEF OpInv, Types, OpType, Goes
    <3> QED BY <2>1, <2>2, <3>2, <3>3, CommandMoves
  <2>3. CASE op' = [op EXCEPT !.at = "push", !.head = head["scenario"]] /\ UNCHANGED row
    <3>1. head["scenario"] \in Nat BY <1>0, <2>1
    <3>2. Types' BY <1>0, <2>3, <3>1 DEF Types, OpType
    <3>3. OpInv' BY <1>0, <2>1, <2>3 DEF OpInv, Types, OpType
    <3> QED BY <2>1, <2>3, <3>2, <3>3, CommandMoves
  <2>4. CASE RequestFails BY <2>1, <2>4, CommandMoves
  <2> QED BY <1>2, <2>2, <2>3, <2>4 DEF CheckHead
<1>3. CASE Push
  <2>1. /\ op.at = "push" /\ UNCHANGED <<history, tracking, row>> /\ Goes("verify")
        /\ op.request \in Requests /\ row[op.request].prepared # 0
    BY <1>0, <1>3 DEF Push, OpInv
  <2>2. Mine.prepared \in 0 .. Len(history')
    BY <1>0, <2>1 DEF Mine, RowInv, Holds
  <2>3. Moved("scenario", Mine.prepared) \/ UNCHANGED <<head, onBranch>> BY <1>3 DEF Push
  <2>4. RemoteGrows BY <1>0, <2>1, <2>3 DEF RemoteGrows, Moved
  <2>5. MergeCommits' BY <1>0, <2>1 DEF MergeCommits
  <2>6. CommandPlaces'
    <3>1. CASE Moved("scenario", Mine.prepared)
      <4>1. "scenario" \in Branches BY DEF Branches
      <4> QED BY <2>1, <2>2, <2>4, <2>5, <3>1, <4>1, MovedPlaces
    <3>2. CASE UNCHANGED <<head, onBranch>> BY <1>0, <2>1, <3>2 DEF CommandPlaces
    <3> QED BY <2>3, <3>1, <3>2
  <2>7. \A q \in Requests : RowInv(q)' BY <1>0, <2>1, <2>4, FactsStay
  <2>8. Types' BY <1>0, <2>1 DEF Types, OpType, Goes
  <2>9. OpInv' BY <1>0, <2>1 DEF OpInv, Types, OpType, Goes
  <2> QED BY <2>5, <2>6, <2>7, <2>8, <2>9 DEF MergeInv
<1>4. CASE Verify
  <2>1. op.at = "verify" /\ UNCHANGED <<history, head, onBranch>> /\ tracking' = head
    BY <1>4 DEF Verify
  <2>2. CASE IsAncestor(Mine.prepared, head["scenario"]) /\ Goes("resolve") /\ UNCHANGED row
    <3>1. row[op.request].prepared \in onBranch
      BY <1>0, <2>2 DEF IsAncestor, Mine, CommandPlaces
    <3>2. Types' BY <1>0, <2>2 DEF Types, OpType, Goes
    <3>3. OpInv' BY <1>0, <2>1, <2>2, <3>1 DEF OpInv, Types, OpType, Goes
    <3> QED BY <2>1, <2>2, <3>2, <3>3, CommandMoves
  <2>3. CASE RequestFails BY <2>1, <2>3, CommandMoves
  <2> QED BY <1>4, <2>2, <2>3 DEF Verify
<1>5. CASE MarkResolved
  <2> DEFINE r == op.request
  <2>1. /\ r \in Requests /\ row[r] \in MergeRowType /\ op.at = "resolve"
        /\ row[r].prepared # 0 /\ row[r].prepared \in onBranch
        /\ row' = [row EXCEPT ![r].status = "resolved"] /\ op' = NoOp
        /\ UNCHANGED <<history, head, onBranch, tracking>>
    BY <1>0, <1>5 DEF MarkResolved, OpInv, Types
  <2>2. /\ row'[r].prepared = row[r].prepared /\ row'[r].source = row[r].source
        /\ row'[r].original = row[r].original /\ row'[r] \in MergeRowType
        /\ \A q \in Requests : q # r => row'[q] = row[q]
    BY <1>0, <2>1 DEF Types, MergeRowType
  <2>3. Types' BY <1>0, <2>1 DEF Types, MergeRowType, OpType, NoOp
  <2>4. OpInv' BY <2>1 DEF OpInv, NoOp
  <2>5. ASSUME NEW q \in Requests PROVE RowInv(q)'
    <3>1. CASE q = r BY <1>0, <2>1, <2>2, <3>1 DEF RowInv, Holds
    <3>2. CASE q # r BY <1>0, <2>1, <2>2, <3>2 DEF RowInv, Holds
    <3> QED BY <3>1, <3>2
  <2>6. MergeCommits' /\ CommandPlaces' BY <2>1, RemoteRests
  <2> QED BY <2>3, <2>4, <2>5, <2>6 DEF MergeInv
<1> QED BY <1>1, <1>2, <1>3, <1>4, <1>5

\* Taking a request up, failing it, tidying up and crashing.
LEMMA OtherStepsKeep ==
  ASSUME MergeInv,
         \/ \E q \in Requests : Resolve(q) \/ RecheckResolved(q) \/ CleanupRef(q)
         \/ CommandFails \/ MergeCrash \/ UNCHANGED mergeVars
  PROVE  MergeInv'
<1> USE DEF remoteVars
<1>0. Types /\ OpInv BY DEF MergeInv
<1>1. ASSUME NEW q \in Requests, Resolve(q) PROVE MergeInv'
  <2>1. /\ op = NoOp /\ row[q].status = "running"
        /\ UNCHANGED <<history, head, onBranch, tracking>>
    BY <1>1 DEF Resolve
  <2>2. CASE row[q].prepared # 0
    <3>1. op' = [[NoOp EXCEPT !.request = q] EXCEPT !.at = "publish"] /\ UNCHANGED row
      BY <1>1, <2>2 DEF Resolve
    <3>2. Types' BY <1>0, <3>1 DEF Types, OpType, NoOp
    <3>3. OpInv' BY <2>1, <2>2, <3>1 DEF OpInv, NoOp
    <3> QED BY <2>1, <3>1, <3>2, <3>3, CommandMoves
  <2>3. CASE row[q].prepared = 0 /\ ref[q] # 0
    <3>1. row' = [row EXCEPT ![q].status = "failed"] /\ op' = NoOp BY <1>1, <2>3 DEF Resolve
    <3> QED BY <2>1, <3>1, CommandMoves
  <2>4. CASE row[q].prepared = 0 /\ ref[q] = 0
    <3>1. op' = [[NoOp EXCEPT !.request = q] EXCEPT !.at = "fetch"] /\ UNCHANGED row
      BY <1>1, <2>4 DEF Resolve
    <3>2. Types' BY <1>0, <3>1 DEF Types, OpType, NoOp
    <3>3. OpInv' BY <2>1, <3>1 DEF OpInv, NoOp
    <3> QED BY <2>1, <3>1, <3>2, <3>3, CommandMoves
  <2> QED BY <2>2, <2>3, <2>4
<1>2. ASSUME NEW q \in Requests, RecheckResolved(q) PROVE MergeInv'
  BY <1>2, CommandMoves DEF RecheckResolved
<1>3. ASSUME NEW q \in Requests, CleanupRef(q) PROVE MergeInv'
  <2>1. UNCHANGED <<history, head, onBranch, tracking, row, op>> BY <1>3 DEF CleanupRef
  <2>2. Types' /\ OpInv' BY <1>0, <2>1 DEF Types, OpInv, Holds
  <2> QED BY <2>1, <2>2, CommandMoves
<1>4. ASSUME CommandFails PROVE MergeInv'
  <2>1. /\ op.at # "none" /\ RequestFails /\ UNCHANGED <<history, head, onBranch, tracking>>
    BY <1>4 DEF CommandFails
  <2> QED BY <2>1, CommandMoves
<1>5. ASSUME MergeCrash PROVE MergeInv'
  <2>1. op' = NoOp /\ UNCHANGED <<history, head, onBranch, tracking, row>>
    BY <1>5 DEF MergeCrash
  <2>2. Types' /\ OpInv' BY <1>0, <2>1 DEF Types, OpType, OpInv, NoOp
  <2> QED BY <2>1, <2>2, CommandMoves
<1>6. ASSUME UNCHANGED mergeVars PROVE MergeInv'
  <2>1. UNCHANGED <<history, head, onBranch, tracking, row, op>> BY <1>6 DEF mergeVars
  <2>2. Types' /\ OpInv' BY <1>0, <2>1 DEF Types, OpInv, Holds
  <2> QED BY <2>1, <2>2, CommandMoves
<1> QED BY <1>1, <1>2, <1>3, <1>4, <1>5, <1>6

-----------------------------------------------------------------------------
LEMMA InvStep == MergeInv /\ [MergeNext]_mergeVars => MergeInv'
BY OthersKeep, PreparingKeeps, MergeKeeps, PublishingKeeps, OtherStepsKeep DEF MergeNext

LEMMA InvAlways == MergeSpec => []MergeInv
BY InitInv, InvStep, PTL DEF MergeSpec

(***************************************************************************)
(* Whatever others push, delete or make again, and whichever answers are   *)
(* lost, a request is resolved only to a commit that the scenario branch   *)
(* contained and that contains the chosen source and the head the merge    *)
(* was prepared on (prepareMergeRequest, publishPreparedMerge).            *)
(***************************************************************************)
THEOREM ResolvedIsPublishedMergeCorrect == MergeSpec => []ResolvedIsPublishedMerge
<1>1. MergeInv => ResolvedIsPublishedMerge
  <2> SUFFICES ASSUME MergeInv, NEW q \in Requests, row[q].status = "resolved"
               PROVE  /\ row[q].prepared \in onBranch
                      /\ IsAncestor(row[q].source, row[q].prepared)
                      /\ row[q].original # 0 => IsAncestor(row[q].original, row[q].prepared)
    BY DEF ResolvedIsPublishedMerge
  <2> QED BY DEF MergeInv, RowInv, Holds, IsAncestor
<1> QED BY <1>1, InvAlways, PTL

(***************************************************************************)
(* The push of a merge adds to what others have on the scenario branch, or *)
(* makes a branch that is not there (the comment at pushArguments in       *)
(* publishPreparedMerge).                                                  *)
(***************************************************************************)
THEOREM OthersWorkKeptCorrect == MergeSpec => OthersWorkKept
<1> DEFINE Kept == op.at = "push" /\ head'["scenario"] # head["scenario"] /\ op'.at = "verify" =>
                     \/ head["scenario"] = 0
                     \/ /\ Mine.mode = "existing-branch"
                        /\ history[head["scenario"]] \subseteq history[head'["scenario"]]
<1>1. ASSUME MergeInv, [MergeNext]_mergeVars, op.at = "push",
             head'["scenario"] # head["scenario"], op'.at = "verify"
      PROVE  \/ head["scenario"] = 0
             \/ /\ Mine.mode = "existing-branch"
                /\ history[head["scenario"]] \subseteq history[head'["scenario"]]
  <2>1. Push
    <3>1. op' # op BY <1>1
    <3>2. op' # NoOp BY <1>1 DEF NoOp
    <3>3. op.at \notin {"none", "fetch", "head", "source", "merge", "ref", "record", "publish",
                        "check", "verify", "resolve"}
      BY <1>1
    <3>4. op # NoOp BY <1>1 DEF NoOp
    <3> QED
      BY <1>1, <3>1, <3>2, <3>3, <3>4
      DEF MergeNext, mergeVars, OthersPush, OthersDelete, OthersCreate, OthersFetch, Resolve,
          RecheckResolved, CleanupRef, FetchToPrepare, ReadHead, ResolveSource, MergeSource,
          CreateRef, MarkPrepared, FetchToPublish, CheckHead, Verify, MarkResolved,
          CommandFails, MergeCrash, RequestFails
  <2>2. PushTaken /\ head' = [head EXCEPT !["scenario"] = Mine.prepared]
    BY <1>1, <2>1 DEF Push, Moved
  <2>3. head'["scenario"] = Mine.prepared
    BY <1>1, <2>2 DEF MergeInv, CommandPlaces, Branches
  <2>4. CASE head["scenario"] = 0 BY <2>4
  <2>5. CASE Mine.mode = "existing-branch" /\ IsAncestor(head["scenario"], Mine.prepared)
    <3>1. Mine.prepared \in 1 .. Len(history)
      BY <1>1 DEF MergeInv, OpInv, RowInv, Holds, Mine
    <3>2. history[head["scenario"]] \subseteq history[Mine.prepared]
      BY <1>1, <2>5, <3>1 DEF MergeInv, MergeCommits, IsAncestor
    <3> QED BY <2>3, <2>5, <3>2
  <2> QED BY <2>2, <2>4, <2>5 DEF PushTaken
<1>2. MergeInv /\ [MergeNext]_mergeVars => [Kept]_mergeVars BY <1>1
<1> QED BY <1>2, InvAlways, PTL DEF MergeSpec, OthersWorkKept

(***************************************************************************)
(* What a merge request resolves to was published with both sides in it,   *)
(* and no push loses the work of others (repository/git-repository.ts).    *)
(***************************************************************************)
THEOREM MergesPublishedCorrect == MergeSpec => MergesPublished
BY ResolvedIsPublishedMergeCorrect, OthersWorkKeptCorrect, PTL DEF MergesPublished

-----------------------------------------------------------------------------
(***************************************************************************)
(* The bounds: a commit is added only below the bound, and refs and rows   *)
(* name commits that were made.                                            *)
(***************************************************************************)
\* The commits stay within their bound, the refs name commits, and a row names
\* its source and its head only together with the merge that was prepared.
MergeNumbers ==
  /\ Len(history) <= MaxCommit
  /\ ref \in [Requests -> 0 .. Len(history)]
  /\ \A q \in Requests : row[q].prepared = 0 => row[q].source = 0 /\ row[q].original = 0
  /\ deletes \in 0 .. MaxDelete /\ failures \in 0 .. MaxFailure /\ crashes \in 0 .. MaxCrash

\* What a step may do to the commits, the refs, the rows and the counters.
CommitsAdded == \/ history' = history
                \/ Len(history) < MaxCommit /\ \E anc : history' = Grown(anc)
RefsDrawn == \/ ref' = ref
             \/ \E q \in Requests : ref' = [ref EXCEPT ![q] = 0]
             \/ op.at = "ref" /\ ref' = [ref EXCEPT ![op.request] = op.commit]
RowsRecorded ==
  \/ row' = row
  \/ \E q \in Requests, status \in {"failed", "resolved"} :
       row' = [row EXCEPT ![q].status = status]
  \/ MarkPrepared
MergeCounted ==
  /\ deletes' = deletes \/ (deletes < MaxDelete /\ deletes' = deletes + 1)
  /\ failures' = failures \/ (failures < MaxFailure /\ failures' = failures + 1)
  /\ crashes' = crashes \/ (crashes < MaxCrash /\ crashes' = crashes + 1)

LEMMA MergeNumbersStart == MergeInit => MergeNumbers
<1> SUFFICES ASSUME MergeInit PROVE MergeNumbers
  OBVIOUS
<1>1. Len(history) = 2
  BY DEF MergeInit
<1> QED BY <1>1, MergeAssumption DEF MergeInit, MergeNumbers

LEMMA RecordingKeeps ==
  ASSUME MergeInv, MergeNumbers, CommitsAdded, RefsDrawn, RowsRecorded, MergeCounted
  PROVE  MergeNumbers'
<1> USE MergeAssumption
<1>1. Len(history) \in Nat /\ history \in Seq(SUBSET Nat) /\ Types /\ OpInv
  BY DEF MergeInv, MergeCommits
<1>2. Len(history') \in Nat /\ Len(history) <= Len(history') /\ Len(history') <= MaxCommit
  <2>1. CASE history' = history
    BY <1>1, <2>1 DEF MergeNumbers
  <2>2. ASSUME NEW anc, history' = Grown(anc), Len(history) < MaxCommit
        PROVE  Len(history') = Len(history) + 1
    BY <1>1, <2>2 DEF Grown
  <2> QED BY <1>1, <2>1, <2>2 DEF CommitsAdded
<1>3. ref' \in [Requests -> 0 .. Len(history')]
  <2>1. ref \in [Requests -> 0 .. Len(history')]
    BY <1>1, <1>2 DEF MergeNumbers
  <2>2. op.at = "ref" => op.request \in Requests /\ op.commit \in 0 .. Len(history')
    BY <1>1, <1>2 DEF OpInv, Holds
  <2>3. 0 \in 0 .. Len(history')
    BY <1>2
  <2> QED BY <2>1, <2>2, <2>3 DEF RefsDrawn
<1>4. ASSUME NEW q \in Requests, row'[q].prepared = 0
      PROVE  row'[q].source = 0 /\ row'[q].original = 0
  <2>1. row \in [Requests -> MergeRowType] /\ row[q] \in MergeRowType
    BY <1>1 DEF Types
  <2>2. CASE row' = row
    BY <1>4, <2>2 DEF MergeNumbers
  <2>3. ASSUME NEW r \in Requests, NEW status, row' = [row EXCEPT ![r].status = status]
        PROVE  /\ row'[q].source = row[q].source /\ row'[q].original = row[q].original
               /\ row'[q].prepared = row[q].prepared
    <3>1. row'[q] = IF q = r THEN [row[q] EXCEPT !.status = status] ELSE row[q]
      BY <2>1, <2>3
    <3> QED BY <2>1, <3>1 DEF MergeRowType
  <2>4. CASE MarkPrepared
    <3> DEFINE mode == IF op.head = 0 THEN "initial-create" ELSE "existing-branch"
               new  == [row[q] EXCEPT !.mode = mode, !.source = op.source,
                                      !.original = op.head, !.prepared = op.commit]
    <3>1. op.commit \in 1 .. Len(history)
      BY <1>1, <2>4 DEF MarkPrepared, OpInv, Holds
    <3>2. row'[q] = IF q = op.request THEN new ELSE row[q]
      BY <2>1, <2>4 DEF MarkPrepared
    <3>3. new.prepared = op.commit
      BY <2>1 DEF MergeRowType
    <3>4. op.commit # 0
      BY <1>1, <3>1
    <3> QED BY <1>4, <3>2, <3>3, <3>4 DEF MergeNumbers
  <2> QED BY <1>4, <2>2, <2>3, <2>4 DEF RowsRecorded, MergeNumbers
<1>5. deletes' \in 0 .. MaxDelete /\ failures' \in 0 .. MaxFailure /\ crashes' \in 0 .. MaxCrash
  BY DEF MergeNumbers, MergeCounted
<1> QED BY <1>2, <1>3, <1>4, <1>5 DEF MergeNumbers

LEMMA MergeNumbersStep ==
  ASSUME MergeInv, MergeNumbers, [MergeNext]_mergeVars PROVE MergeNumbers'
<1>1. op.at # "none" => op.request \in Requests
  BY DEF MergeInv, OpInv
<1>2. ASSUME UNCHANGED history PROVE CommitsAdded
  BY <1>2 DEF CommitsAdded
<1>3. ASSUME UNCHANGED ref PROVE RefsDrawn
  BY <1>3 DEF RefsDrawn
<1>4. ASSUME UNCHANGED row PROVE RowsRecorded
  BY <1>4 DEF RowsRecorded
<1>5. ASSUME UNCHANGED <<deletes, failures, crashes>> PROVE MergeCounted
  BY <1>5 DEF MergeCounted
<1>6. ASSUME RequestFails, op.at # "none" PROVE RefsDrawn /\ RowsRecorded
  BY <1>1, <1>6 DEF RequestFails, RefsDrawn, RowsRecorded
<1>7. ASSUME NEW b \in Branches, NEW from \in Branches, OthersPush(b, from) PROVE MergeNumbers'
  <2>1. CommitsAdded /\ UNCHANGED <<ref, row, deletes, failures, crashes>>
    BY <1>7 DEF OthersPush, CommitsAdded, countVars
  <2> QED BY <1>3, <1>4, <1>5, <2>1, RecordingKeeps
<1>8. ASSUME NEW b \in Branches, OthersDelete(b) PROVE MergeNumbers'
  <2>1. MergeCounted /\ UNCHANGED <<history, ref, row>>
    BY <1>8 DEF OthersDelete, MergeCounted
  <2> QED BY <1>2, <1>3, <1>4, <2>1, RecordingKeeps
<1>9. ASSUME NEW q \in Requests, Resolve(q) \/ RecheckResolved(q) \/ CleanupRef(q)
      PROVE  MergeNumbers'
  <2>1. UNCHANGED <<history, deletes, failures, crashes>>
    BY <1>9 DEF Resolve, RecheckResolved, CleanupRef, remoteVars
  <2>2. RefsDrawn /\ RowsRecorded
    BY <1>9 DEF Resolve, RecheckResolved, CleanupRef, RefsDrawn, RowsRecorded
  <2> QED BY <1>2, <1>5, <2>1, <2>2, RecordingKeeps
<1>10. CASE OthersCreate \/ OthersFetch
  <2>1. UNCHANGED <<history, ref, row, deletes, failures, crashes>>
    BY <1>10 DEF OthersCreate, OthersFetch, remoteVars, countVars
  <2> QED BY <1>2, <1>3, <1>4, <1>5, <2>1, RecordingKeeps
<1>11. CASE FetchToPrepare \/ ReadHead \/ FetchToPublish
  <2>1. UNCHANGED <<history, ref, row, deletes, failures, crashes>>
    BY <1>11 DEF FetchToPrepare, ReadHead, FetchToPublish, Reads, remoteVars
  <2> QED BY <1>2, <1>3, <1>4, <1>5, <2>1, RecordingKeeps
<1>12. CASE ResolveSource \/ CheckHead \/ Verify
  <2>1. /\ UNCHANGED <<history, deletes, failures, crashes>> /\ op.at # "none"
        /\ RequestFails \/ UNCHANGED <<row, ref>>
    BY <1>12 DEF ResolveSource, CheckHead, Verify, remoteVars
  <2> QED BY <1>2, <1>3, <1>4, <1>5, <1>6, <2>1, RecordingKeeps
<1>13. CASE MergeSource
  <2>1. /\ CommitsAdded /\ UNCHANGED <<deletes, failures, crashes>> /\ op.at # "none"
        /\ RequestFails \/ UNCHANGED <<row, ref>>
    BY <1>13 DEF MergeSource, CommitsAdded, countVars
  <2> QED BY <1>3, <1>4, <1>5, <1>6, <2>1, RecordingKeeps
<1>14. CASE CreateRef
  <2>1. /\ UNCHANGED <<history, row, deletes, failures, crashes>> /\ RefsDrawn
    BY <1>14 DEF CreateRef, remoteVars, RefsDrawn
  <2> QED BY <1>2, <1>4, <1>5, <2>1, RecordingKeeps
<1>15. CASE MarkPrepared
  <2>1. UNCHANGED <<history, ref, deletes, failures, crashes>> /\ RowsRecorded
    BY <1>15 DEF MarkPrepared, remoteVars, RowsRecorded
  <2> QED BY <1>2, <1>3, <1>5, <2>1, RecordingKeeps
<1>16. CASE Push
  <2>1. UNCHANGED <<history, ref, row>> /\ MergeCounted
    BY <1>16 DEF Push, MergeCounted
  <2> QED BY <1>2, <1>3, <1>4, <2>1, RecordingKeeps
<1>17. CASE MarkResolved
  <2>1. /\ UNCHANGED <<history, ref, deletes, failures, crashes>> /\ op.at # "none"
        /\ row' = [row EXCEPT ![op.request].status = "resolved"]
    BY <1>17 DEF MarkResolved, remoteVars
  <2> QED BY <1>1, <1>2, <1>3, <1>5, <2>1, RecordingKeeps DEF RowsRecorded
<1>18. CASE CommandFails
  <2>1. UNCHANGED history /\ op.at # "none" /\ RequestFails /\ MergeCounted
    BY <1>18 DEF CommandFails, remoteVars, MergeCounted
  <2> QED BY <1>2, <1>6, <2>1, RecordingKeeps
<1>19. CASE MergeCrash
  <2>1. UNCHANGED <<history, ref, row>> /\ MergeCounted
    BY <1>19 DEF MergeCrash, remoteVars, MergeCounted
  <2> QED BY <1>2, <1>3, <1>4, <2>1, RecordingKeeps
<1>20. CASE UNCHANGED mergeVars
  <2>1. UNCHANGED <<history, ref, row, deletes, failures, crashes>>
    BY <1>20 DEF mergeVars
  <2> QED BY <1>2, <1>3, <1>4, <1>5, <2>1, RecordingKeeps
<1> QED BY <1>7, <1>8, <1>9, <1>10, <1>11, <1>12, <1>13, <1>14, <1>15, <1>16, <1>17, <1>18,
           <1>19, <1>20 DEF MergeNext

LEMMA MergeTypes == MergeInv /\ MergeNumbers => MergeTypeOK
<1> SUFFICES ASSUME MergeInv, MergeNumbers PROVE MergeTypeOK
  OBVIOUS
<1> USE MergeAssumption
<1>1. Len(history) \in Nat /\ Len(history) <= MaxCommit /\ history \in Seq(SUBSET Nat)
  BY DEF MergeInv, MergeCommits, MergeNumbers
<1>2. \A c : c \in 1 .. Len(history) => c \in 1 .. MaxCommit /\ c \in 0 .. MaxCommit
  BY <1>1
<1>3. 0 .. Len(history) \subseteq 0 .. MaxCommit
  BY <1>1
<1>4. history \in Seq(SUBSET (1 .. MaxCommit))
  <2>1. \A c \in 1 .. Len(history) : history[c] \in SUBSET (1 .. MaxCommit)
    BY <1>2 DEF MergeInv, MergeCommits
  <2>2. history = [c \in 1 .. Len(history) |-> history[c]]
    BY <1>1
  <2> QED BY <1>1, <2>1, <2>2
<1>5. /\ head \in [Branches -> 0 .. MaxCommit] /\ tracking \in [Branches -> 0 .. MaxCommit]
      /\ onBranch \subseteq 1 .. MaxCommit /\ ref \in [Requests -> 0 .. MaxCommit]
  BY <1>2, <1>3 DEF MergeInv, CommandPlaces, MergeNumbers
<1>6. ASSUME NEW q \in Requests
      PROVE  /\ row[q].status \in {"running", "failed", "resolved"}
             /\ row[q].mode \in {"none", "initial-create", "existing-branch"}
             /\ {row[q].source, row[q].original, row[q].prepared} \subseteq 0 .. MaxCommit
  <2>1. row[q] \in MergeRowType
    BY DEF MergeInv, Types
  <2>2. CASE row[q].prepared = 0
    <3>1. row[q].source = 0 /\ row[q].original = 0 /\ 0 \in 0 .. MaxCommit
      BY <2>2 DEF MergeNumbers
    <3> QED BY <2>1, <2>2, <3>1 DEF MergeRowType
  <2>3. CASE row[q].prepared # 0
    <3>1. Holds(row[q].prepared, row[q].source, row[q].original)
      BY <2>3 DEF MergeInv, RowInv
    <3>2. history[row[q].prepared] \subseteq 1 .. Len(history)
      BY <3>1 DEF MergeInv, MergeCommits, Holds
    <3>3. 0 \in 0 .. MaxCommit
      OBVIOUS
    <3>4. {row[q].source, row[q].original, row[q].prepared} \subseteq 0 .. MaxCommit
      BY <1>2, <3>1, <3>2, <3>3, Zenon DEF Holds
    <3> QED BY <2>1, <3>4 DEF MergeRowType
  <2> QED BY <2>2, <2>3
<1>7. op.at \in {"none", "fetch", "head", "source", "merge", "ref", "record", "publish",
                "check", "push", "verify", "resolve"}
  BY DEF MergeInv, Types, OpType
<1> QED BY <1>1, <1>4, <1>5, <1>6, <1>7 DEF MergeTypeOK, MergeNumbers

\* The types of the merge's state, with its bounds, hold in every behaviour.
LEMMA MergeTypesHold == MergeSpec => []MergeTypeOK
<1>1. MergeSpec => []MergeNumbers
  BY InvAlways, MergeNumbersStart, MergeNumbersStep, PTL DEF MergeSpec
<1> QED BY <1>1, InvAlways, MergeTypes, PTL
=============================================================================
