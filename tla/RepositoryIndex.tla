-------------------------- MODULE RepositoryIndex --------------------------
(***************************************************************************)
(* The SQLite index of the scenario branch (repository/indexer.ts) and the *)
(* scenario patches LuoWang publishes on that branch                       *)
(* (repository/scenario-patch.ts, materializeScenarioPatch).               *)
(*                                                                         *)
(* Three callers synchronise one project with indexers of their own: the   *)
(* background timer, the HTTP route and the archiver.  A synchronisation   *)
(* awaits between reading the head, checking the history and applying the  *)
(* snapshot in one transaction, so callers overlap.                        *)
(*                                                                         *)
(* A file is absent, unparsable, or a scenario, told by its stable id; a   *)
(* report directory has a report, one that does not parse, or none.        *)
(***************************************************************************)
EXTENDS Naturals, Sequences, FiniteSets

CONSTANTS Paths,           \* paths of scenario files
          ScenarioIds,     \* stable identifiers of scenarios
          Reports,         \* Runs that may have a report
          Syncers,         \* the callers
          MaxIndexCommit,  \* bound on the commits of the branch
          MaxRewrite,      \* bound on rewrites of the branch
          MaxUnread        \* bound on snapshots with an unreadable file

\* No path and no stable identifier is one of the marks below; the bounds are numbers.
ASSUME IndexAssumption ==
  /\ "absent" \notin Paths /\ "absent" \notin ScenarioIds /\ "bad" \notin ScenarioIds
  /\ MaxRewrite \in Nat /\ MaxUnread \in Nat

VARIABLES
  commits,    \* the commits: parent, scenario files, reports, who made it
  indexHead,  \* the remote head of the scenario branch, 0 when it does not exist
  sync,       \* per caller: the step and the head it read
  rows,       \* indexed_scenarios: path to id and commit
  reports,    \* indexed_reports: Run to commit, 0 when there is no row
  errors,     \* repository_index_errors: paths and Runs
  indexed,    \* the commit of repository_index_state, 0 when there is no row
  rewrites, unreads

indexVars == <<commits, indexHead, sync, rows, reports, errors, indexed, rewrites, unreads>>
branchVars == <<commits, indexHead, rewrites>>
tableVars  == <<rows, reports, errors, indexed>>

Absent == "absent"
Bad    == "bad"
NoIndexRow  == [id |-> Absent, commit |-> 0]
Idle   == [step |-> "idle", head |-> 0]
Files  == {Absent, Bad} \cup ScenarioIds

\* Type invariant: the index speaks of commits of the branch, callers too.
IndexTypeOK ==
  /\ \A c \in 1 .. Len(commits) :
       /\ commits[c].parent < c /\ commits[c].files \in [Paths -> Files]
       /\ commits[c].reports \in [Reports -> {Absent, Bad, "report"}]
  /\ indexHead \in 0 .. Len(commits) /\ indexed \in 0 .. Len(commits)
  /\ \A s \in Syncers : /\ sync[s].step \in {"idle", "head", "checked"}
                        /\ sync[s].head \in 0 .. Len(commits)
  /\ rows \in [Paths -> [id : {Absent} \cup ScenarioIds, commit : 0 .. Len(commits)]]
  /\ reports \in [Reports -> 0 .. Len(commits)] /\ errors \subseteq Paths \cup Reports
  /\ rewrites \in 0 .. MaxRewrite /\ unreads \in 0 .. MaxUnread

IndexInit ==
  /\ commits = <<>> /\ indexHead = 0 /\ sync = [s \in Syncers |-> Idle]
  /\ rows = [p \in Paths |-> NoIndexRow] /\ reports = [r \in Reports |-> 0]
  /\ errors = {} /\ indexed = 0 /\ rewrites = 0 /\ unreads = 0

---------------------------------------------------------------------------
\* The branch.

EmptyTree == [files |-> [p \in Paths |-> Absent], reports |-> [r \in Reports |-> Absent]]
TreeOf(c) == IF c = 0 THEN EmptyTree
             ELSE [files |-> commits[c].files, reports |-> commits[c].reports]

AncestorsOf(c) ==
  LET up[n \in 0 .. Len(commits)] == IF n = 0 THEN {} ELSE {n} \cup up[commits[n].parent]
  IN up[c]

Grows(parent, files, reps, by) ==
  /\ Len(commits) < MaxIndexCommit
  /\ commits' = Append(commits, [parent |-> parent, files |-> files, reports |-> reps, by |-> by])
  /\ indexHead' = Len(commits')

\* Somebody pushes a change of one file or one report.
OthersPushBranch ==
  LET t == TreeOf(indexHead) IN
  /\ \/ \E p \in Paths, f \in Files :
          f /= t.files[p] /\ Grows(indexHead, [t.files EXCEPT ![p] = f], t.reports, "others")
     \/ \E r \in Reports, f \in {Absent, Bad, "report"} :
          f /= t.reports[r] /\ Grows(indexHead, t.files, [t.reports EXCEPT ![r] = f], "others")
  /\ UNCHANGED <<sync, tableVars, rewrites, unreads>>

\* The branch is rewritten: its new head does not descend from the old one.
BranchRewritten ==
  /\ indexHead /= 0 /\ rewrites < MaxRewrite /\ rewrites' = rewrites + 1
  /\ LET parent == commits[indexHead].parent  t == TreeOf(parent)
     IN  Grows(parent, t.files, t.reports, "others")
  /\ UNCHANGED <<sync, tableVars, unreads>>

---------------------------------------------------------------------------
\* Scenario patches.

Changes == [old : {Absent} \cup Paths, new : Paths, file : {Bad} \cup ScenarioIds]
Touched(change) == {change.old, change.new} \ {Absent}

\* validateScenarioPatchText: nothing deleted, no file touched by two changes.
ValidText(patch) ==
  /\ patch /= {}
  /\ \A c, d \in patch : c /= d => Touched(c) \cap Touched(d) = {}

Patches == {patch \in {{c, d} : c, d \in Changes} : ValidText(patch)}

\* git apply --check: a new path is free, an old one is there.
Applies(files, patch) ==
  \A c \in patch : /\ c.old /= c.new => files[c.new] = Absent
                   /\ c.old /= Absent => files[c.old] /= Absent

Patched(files, patch) ==
  [p \in Paths |-> IF \E c \in patch : c.new = p THEN (CHOOSE c \in patch : c.new = p).file
                   ELSE IF \E c \in patch : c.old = p THEN Absent ELSE files[p]]

ScenariosOf(files) == {p \in Paths : files[p] \in ScenarioIds}

\* Mutant: a change may give an existing scenario another identifier.
ValidContentsOnly(before, after, patch) ==
  \A p \in Paths : /\ after[p] /= Bad
                   /\ \A q \in Paths \ {p} : after[p] \in ScenarioIds => after[q] /= after[p]

\* validateScenarioContents: every scenario file of the result parses, identifiers are unique,
\* and a scenario that is modified or renamed keeps its own.
ValidContents(before, after, patch) ==
  /\ \A p \in Paths : /\ after[p] /= Bad
                      /\ \A q \in Paths \ {p} : after[p] \in ScenarioIds => after[q] /= after[p]
  /\ \A c \in patch : c.old /= Absent => before[c.old] \in ScenarioIds /\ before[c.old] = c.file

\* publishScenarioPatch on the head it read: materialised there again, pushed without force.
PatchPublished(patch) ==
  LET t == TreeOf(indexHead)  after == Patched(t.files, patch) IN
  /\ indexHead /= 0 /\ Len(commits) < MaxIndexCommit /\ Applies(t.files, patch)
  /\ ValidContents(t.files, after, patch)
  /\ after /= t.files /\ Grows(indexHead, after, t.reports, "patch")
  /\ UNCHANGED <<sync, tableVars, rewrites, unreads>>

---------------------------------------------------------------------------
\* Synchronisation.

\* The branch is fetched and its head read; without a branch the call ends.
SyncBegins(s) ==
  /\ sync[s].step = "idle" /\ indexHead /= 0
  /\ sync' = [sync EXCEPT ![s] = [step |-> "head", head |-> indexHead]]
  /\ UNCHANGED <<branchVars, tableVars, unreads>>

\* A head that does not descend from the indexed commit keeps the index that is there.
SyncChecks(s) ==
  /\ sync[s].step = "head"
  /\ sync' = [sync EXCEPT ![s] =
                IF indexed /= 0 /\ indexed \notin AncestorsOf(sync[s].head) THEN Idle
                ELSE [sync[s] EXCEPT !.step = "checked"]]
  /\ UNCHANGED <<branchVars, tableVars, unreads>>

\* readSnapshot: what of a commit is a scenario of its own, with some file unreadable.
PresentPaths(files)       == {p \in Paths : files[p] /= Absent}
Distinct(files, ps)  == {p \in ps : \A q \in ps \ {p} : files[q] /= files[p]}
Scenes(files, unread) == Distinct(files, ScenariosOf(files) \ unread)

\* Mutant: a row of another path with the same identifier stays.
RowOf(p, c, present, scenes) ==
  IF p \in scenes THEN [id |-> commits[c].files[p], commit |-> c]
  ELSE IF p \notin present THEN NoIndexRow ELSE rows[p]

\* A scene replaces its row and takes its identifier from any other path; a path that is gone
\* loses its row; a file that is there without being a scene keeps the last valid one.
RowAfter(p, c, present, scenes) ==
  IF p \in scenes THEN [id |-> commits[c].files[p], commit |-> c]
  ELSE IF p \notin present \/ rows[p].id \in {commits[c].files[q] : q \in scenes} THEN NoIndexRow
  ELSE rows[p]

ReportAfter(r, c) ==
  CASE commits[c].reports[r] = "report" -> c
    [] commits[c].reports[r] = Absent   -> 0
    [] OTHER                            -> reports[r]

\* applyProjectSnapshot: one transaction replaces rows, errors and state.
SyncApplies(s, unread) ==
  LET c       == sync[s].head
      files   == commits[c].files
      present == PresentPaths(files)
      scenes  == Scenes(files, unread) IN
  /\ sync[s].step = "checked"
  /\ unread \subseteq present /\ (unread /= {} => unreads < MaxUnread)
  /\ unreads' = IF unread = {} THEN unreads ELSE unreads + 1
  /\ rows' = [p \in Paths |-> RowAfter(p, c, present, scenes)]
  /\ reports' = [r \in Reports |-> ReportAfter(r, c)]
  /\ errors' = (present \ scenes) \cup {r \in Reports : commits[c].reports[r] = Bad}
  /\ indexed' = c
  /\ sync' = [sync EXCEPT ![s] = Idle]
  /\ UNCHANGED branchVars

\* Fetch, tree or transaction fails, or the process stops: nothing of the snapshot remains.
SyncFails(s) ==
  /\ sync[s].step /= "idle" /\ sync' = [sync EXCEPT ![s] = Idle]
  /\ UNCHANGED <<branchVars, tableVars, unreads>>

---------------------------------------------------------------------------
IndexNext ==
  \/ OthersPushBranch \/ BranchRewritten
  \/ \E patch \in Patches : PatchPublished(patch)
  \/ \E s \in Syncers : SyncBegins(s) \/ SyncChecks(s) \/ SyncFails(s)
                          \/ \E unread \in SUBSET Paths : SyncApplies(s, unread)

IndexSpec == IndexInit /\ [][IndexNext]_indexVars

---------------------------------------------------------------------------
\* Whatever callers overlap or fail, the index is that of the one commit it names: every scenario
\* and report of that commit has its own row or an error, an older row belongs to a file that is
\* still there with an error and is what that file once held, and no identifier has two rows.
IndexIsOneCommit ==
  /\ \A p \in Paths :
       /\ rows[p] /= NoIndexRow =>
            /\ TreeOf(indexed).files[p] /= Absent
            /\ commits[rows[p].commit].files[p] = rows[p].id
            /\ \A q \in Paths \ {p} : rows[q].id /= rows[p].id
       /\ TreeOf(indexed).files[p] /= Absent => rows[p].commit = indexed \/ p \in errors
  /\ \A r \in Reports :
       /\ reports[r] /= 0 => TreeOf(indexed).reports[r] /= Absent
       /\ TreeOf(indexed).reports[r] /= Absent => reports[r] = indexed \/ r \in errors

\* A patch LuoWang publishes loses no scenario of the branch and leaves no two with one identifier.
PatchKeepsScenarios ==
  \A c \in {n \in 1 .. Len(commits) : commits[n].by = "patch"} :
    LET old == TreeOf(commits[c].parent).files  new == commits[c].files IN
    /\ \A p \in ScenariosOf(old) : \E q \in Paths : new[q] = old[p]
    /\ \A p, q \in ScenariosOf(new) : p /= q => new[p] /= new[q]

\* The history of the scenario branch is only ever followed forwards: the index never returns to
\* a commit that came before the one it had.
IndexOnlyForward ==
  [][indexed' /= indexed /\ indexed /= 0 => indexed \in AncestorsOf(indexed')]_indexVars

\* repository/indexer.ts: the index is that of the one commit it names, and a published patch
\* loses no scenario.
IndexIsFaithful == IndexIsOneCommit /\ PatchKeepsScenarios
=============================================================================
