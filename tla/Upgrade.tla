------------------------------- MODULE Upgrade -------------------------------
(***************************************************************************)
(* The offline upgrade of a single-project instance: db/migrate.ts and the *)
(* migrations, projects/legacy-preflight.ts, legacy-fingerprint.ts,        *)
(* legacy-backup.ts, legacy-cutover.ts, schema-mode.ts and upgrade-cli.ts. *)
(*                                                                         *)
(* The database is one value: which migrations it records, which of the    *)
(* two upgrades marked it, and a version that writes of rows change, which   *)
(* stands for what the fingerprint covers.  The operator should stop the   *)
(* old server first; nothing stops it from running here.  A command that   *)
(* is killed leaves what it had committed.                                 *)
(***************************************************************************)
EXTENDS Naturals, FiniteSets

CONSTANTS Dirs,        \* directories for backups
          MaxVersion,  \* bound on the writes to the database
          MaxDamage    \* bound on backups damaged on disk

\* The bounds are numbers.
ASSUME UpgradeAssumption == MaxVersion \in Nat /\ MaxDamage \in Nat

VARIABLES
  db,        \* the database file
  backups,   \* state and database of each backup directory
  reviewed,  \* the fingerprint the operator reviewed, if any
  server,    \* "stopped", "old" or "new"
  cli,       \* the command under way
  tx,        \* the database inside the open transaction, if any
  damages

upgradeVars == <<db, backups, reviewed, server, cli, tx, damages>>

LastLegacy        == 8
ProjectMigrations == 9 .. 17
IndexIdentity     == 17
NoCommand         == [at |-> "none", dir |-> "none", kind |-> "none", seen |-> {}]

\* The preflight, the fingerprint and the project migrations read nothing that the migrations
\* after 0005 create.
LegacyLevels == LastLegacy - 1 .. LastLegacy

\* The tables with rows of a project: the repository's configuration, Runs and requests, the index,
\* automation state and results of checks, and the project's Secrets.
Groups == {"configuration", "runs", "index", "state", "secrets"}

\* held has the rows of the legacy instance, mine those that belong to the project.
Databases == [legacy : LegacyLevels, applied : SUBSET ProjectMigrations,
              marker : {"none", "project", "empty"}, held : SUBSET Groups, mine : SUBSET Groups,
              running : BOOLEAN, version : 0 .. MaxVersion, resumed : BOOLEAN]

\* A spoiled backup was damaged after the command under way had verified it.
BackupStates == {"none", "incomplete", "complete", "damaged", "spoiled", "index"}

AtMostOne(S) == \A a \in S, b \in S : a = b

\* Type invariant.
UpgradeTypeOK ==
  /\ db \in Databases
  /\ \A d \in Dirs : /\ backups[d].state \in BackupStates
                     /\ backups[d].copy \subseteq Databases /\ AtMostOne(backups[d].copy)
  /\ reviewed \subseteq Databases /\ AtMostOne(reviewed) /\ server \in {"stopped", "old", "new"}
  /\ cli.at \in {"none", "copy", "finish", "cutover", "commit", "index"}
  /\ tx \subseteq Databases /\ AtMostOne(tx) /\ damages \in 0 .. MaxDamage

UpgradeInit ==
  /\ \/ \E held \in SUBSET {"configuration", "secrets"}, legacy \in LegacyLevels :
          db = [legacy |-> legacy, applied |-> {}, marker |-> "none", held |-> held, mine |-> {},
                running |-> FALSE, version |-> 0, resumed |-> FALSE]
     \/ db = [legacy |-> LastLegacy, applied |-> ProjectMigrations \ {IndexIdentity},
              marker |-> "project", held |-> {}, mine |-> {"configuration"},
              running |-> FALSE, version |-> 0, resumed |-> TRUE]
  /\ backups = [d \in Dirs |-> [state |-> "none", copy |-> {}]]
  /\ reviewed = {} /\ server = "stopped" /\ cli = NoCommand /\ tx = {} /\ damages = 0

---------------------------------------------------------------------------
\* The servers.

\* No migration that only the new version knows.
LegacySchema(d) == d.applied = {}

\* Every migration and exactly one mark of an upgrade.
ProjectSchema(d) ==
  /\ d.legacy = LastLegacy /\ d.applied = ProjectMigrations /\ d.marker /= "none"

Written(d) == [d EXCEPT !.version = @ + 1]

\* initializeDatabase: a migration, each in a transaction of its own.
LegacyMigrates ==
  /\ server = "stopped" /\ LegacySchema(db) /\ db.legacy < LastLegacy /\ tx = {}
  /\ db' = [db EXCEPT !.legacy = @ + 1]
  /\ UNCHANGED <<backups, reviewed, server, cli, tx, damages>>

\* The old server starts, and recovers what was running.
OldStarts ==
  /\ server = "stopped" /\ LegacySchema(db) /\ db.legacy = LastLegacy /\ tx = {}
  /\ db.version < MaxVersion /\ db' = [Written(db) EXCEPT !.running = FALSE] /\ server' = "old"
  /\ UNCHANGED <<backups, reviewed, cli, tx, damages>>

\* It is configured, takes requests and runs them, indexes, and its timer keeps state even before;
\* an upgraded schema refuses its rows.
OldWrites ==
  /\ server = "old" /\ LegacySchema(db) /\ tx = {} /\ db.version < MaxVersion
  /\ \E group \in Groups, running \in BOOLEAN :
       /\ group \in {"runs", "index"} \/ running => "configuration" \in db.held
       /\ running => group = "runs"
       /\ db' = [Written(db) EXCEPT !.held = @ \cup {group}, !.running = running]
  /\ UNCHANGED <<backups, reviewed, server, cli, tx, damages>>

NewStarts ==
  /\ server = "stopped" /\ ProjectSchema(db) /\ tx = {} /\ server' = "new"
  /\ UNCHANGED <<db, backups, reviewed, cli, tx, damages>>

\* awaitsCutoverActivation: the upgraded project does nothing in the background before a resume.
NewWorks ==
  /\ server = "new" /\ tx = {} /\ db.version < MaxVersion
  /\ db.marker = "project" => db.resumed
  /\ db' = Written(db) /\ UNCHANGED <<backups, reviewed, server, cli, tx, damages>>

ResumeUpgraded ==
  /\ server = "new" /\ tx = {} /\ db.marker = "project" /\ ~db.resumed
  /\ db' = [db EXCEPT !.resumed = TRUE]
  /\ UNCHANGED <<backups, reviewed, server, cli, tx, damages>>

ServerStops ==
  /\ server /= "stopped" /\ server' = "stopped"
  /\ UNCHANGED <<db, backups, reviewed, cli, tx, damages>>

---------------------------------------------------------------------------
\* inspect and backup.

\* The operator reviews the history the fingerprint stands for.
InspectCommand ==
  /\ cli = NoCommand /\ LegacySchema(db) /\ reviewed' = {db}
  /\ UNCHANGED <<db, backups, server, cli, tx, damages>>

\* A new directory, marked incomplete before anything is in it.
BackupBegins(d) ==
  /\ cli = NoCommand /\ LegacySchema(db) /\ backups[d].state = "none"
  /\ backups' = [backups EXCEPT ![d].state = "incomplete"]
  /\ cli' = [NoCommand EXCEPT !.at = "copy", !.dir = d]
  /\ UNCHANGED <<db, reviewed, server, tx, damages>>

BackupCopies ==
  /\ cli.at = "copy" /\ backups' = [backups EXCEPT ![cli.dir].copy = {db}]
  /\ cli' = [cli EXCEPT !.at = "finish"]
  /\ UNCHANGED <<db, reviewed, server, tx, damages>>

\* Manifest written and contents verified against it: the mark goes.
BackupEnds ==
  /\ cli.at = "finish" /\ backups' = [backups EXCEPT ![cli.dir].state = "complete"]
  /\ cli' = NoCommand /\ UNCHANGED <<db, reviewed, server, tx, damages>>

\* At any time; what a command has verified it does not look at again.
BackupDamaged(d) ==
  /\ backups[d].state = "complete" /\ damages < MaxDamage /\ damages' = damages + 1
  /\ backups' = [backups EXCEPT ![d].state = IF cli.dir = d THEN "spoiled" ELSE "damaged"]
  /\ UNCHANGED <<db, reviewed, server, cli, tx>>

\* The operator puts a backup back.
BackupRestored(d) ==
  /\ cli = NoCommand /\ server = "stopped" /\ backups[d].state = "complete"
  /\ \E copy \in backups[d].copy : db' = copy
  /\ UNCHANGED <<backups, reviewed, server, cli, tx, damages>>

---------------------------------------------------------------------------
\* upgrade-empty and upgrade-project.

\* Mutant: the backup need not be of this database.
BackupIsComplete(d, now) == backups[d].state = "complete"

\* verifyBackupMatches: the backup is complete, unchanged, and has the same fingerprint.
BackupMatches(d, now) == backups[d].state = "complete" /\ backups[d].copy = {now}

\* Matched when it was verified, whatever became of it since.
Verified(d, now) == backups[d].state \in {"complete", "spoiled"} /\ backups[d].copy = {now}

\* inspectLegacyProject: nothing runs; one configured repository, with the history reviewed, or an
\* instance without rows of a project (automation state and Secrets are not looked at).
Passes(kind, now) ==
  /\ ~now.running /\ ("configuration" \in now.held) = (kind = "project")
  /\ IF kind = "empty" THEN now.held \cap {"runs", "index"} = {}
     ELSE "runs" \in now.held => reviewed = {now}

CutoverBegins(d) ==
  /\ cli = NoCommand /\ db.marker = "none" /\ LegacySchema(db)
  /\ \E kind \in {"project", "empty"} :
       /\ BackupMatches(d, db) /\ Passes(kind, db)
       /\ cli' = [at |-> "cutover", dir |-> d, kind |-> kind, seen |-> {db}]
  /\ UNCHANGED <<db, backups, reviewed, server, tx, damages>>

\* One transaction around all migrations; it takes a database that is still the fingerprinted one.
TransactionBegins ==
  /\ cli.at = "cutover" /\ cli.seen = {db}
  /\ tx' = {[db EXCEPT !.applied = {9}]} /\ cli' = [cli EXCEPT !.at = "commit"]
  /\ UNCHANGED <<db, backups, reviewed, server, damages>>

\* Rows that are held become the project's; an upgrade without a project must hold none.
Owns(now, groups) ==
  {[now EXCEPT !.held = @ \ groups, !.mine = @ \cup (now.held \cap groups)] :
     ok \in {TRUE} \cap {cli.kind = "project" \/ now.held \cap groups = {}}}

OwnsIndex(now)         == Owns(now, {"index"})
OwnsRuns(now)          == Owns(now, {"runs"})
OwnsConfiguration(now) == Owns(now, {"configuration", "state"})
OwnsSecrets(now)       == Owns(now, {"secrets"})

\* Every request takes its context from the configuration that is the project's by then.
QueueContext(now) ==
  {n \in {now} : 12 \in n.applied /\ ("runs" \in n.mine => "configuration" \in n.mine)}

ImageState(now)     == {n \in {now} : 9 \in n.applied}
RunImage(now)       == {n \in {now} : 15 \in n.applied}
ReportIdentity(now) == {n \in {now} : 10 \in n.applied}

\* One migration: its changes, or none when it refuses.
Apply(v, now) == CASE v = 10 -> OwnsIndex(now)         [] v = 11 -> OwnsRuns(now)
                   [] v = 12 -> OwnsConfiguration(now) [] v = 13 -> OwnsSecrets(now)
                   [] v = 14 -> QueueContext(now)      [] v = 15 -> ImageState(now)
                   [] v = 16 -> RunImage(now)          [] v = 17 -> ReportIdentity(now)

\* The migrations in their order, after the one that creates the project.
NextMigration(now) == 9 + Cardinality(now.applied)
Migrated(now) == {[n EXCEPT !.applied = @ \cup {NextMigration(now)}] :
                    n \in Apply(NextMigration(now), now)}

\* Each runs nested in the one transaction.
Migrates ==
  /\ cli.at = "commit"
  /\ \E now \in tx : now.applied /= ProjectMigrations /\ tx' = Migrated(now) /\ tx' /= {}
  /\ UNCHANGED <<db, backups, reviewed, server, cli, damages>>

\* Foreign keys are checked and the mark is set with the commit.
Commits ==
  /\ cli.at = "commit"
  /\ \E now \in tx : /\ now.applied = ProjectMigrations
                     /\ db' = [now EXCEPT !.marker = cli.kind]
  /\ tx' = {} /\ cli' = NoCommand /\ UNCHANGED <<backups, reviewed, server, damages>>

\* A wrong master key, a row without an owner, GitHub not answering, or the process killed: the
\* transaction is rolled back.
UpgradeCommandFails ==
  /\ cli /= NoCommand /\ cli' = NoCommand /\ tx' = {}
  /\ UNCHANGED <<db, backups, reviewed, server, damages>>

---------------------------------------------------------------------------
\* upgrade-index: the last migration of an instance that was upgraded before it existed.
IndexUpgradeBegins(d) ==
  /\ cli = NoCommand /\ db.marker /= "none" /\ IndexIdentity \notin db.applied
  /\ backups[d].state = "none"
  /\ backups' = [backups EXCEPT ![d] = [state |-> "index", copy |-> {db}]]
  /\ cli' = [NoCommand EXCEPT !.at = "index", !.dir = d]
  /\ UNCHANGED <<db, reviewed, server, tx, damages>>

IndexUpgradeCommits ==
  /\ cli.at = "index"
  /\ \E done \in ReportIdentity(db) : db' = [done EXCEPT !.applied = @ \cup {IndexIdentity}]
  /\ cli' = NoCommand
  /\ UNCHANGED <<backups, reviewed, server, tx, damages>>

---------------------------------------------------------------------------
UpgradeNext ==
  \/ LegacyMigrates \/ OldStarts \/ OldWrites \/ NewStarts \/ NewWorks
  \/ ResumeUpgraded \/ ServerStops
  \/ InspectCommand \/ BackupCopies \/ BackupEnds
  \/ TransactionBegins \/ Migrates \/ Commits \/ UpgradeCommandFails \/ IndexUpgradeCommits
  \/ \E d \in Dirs : \/ BackupBegins(d) \/ BackupDamaged(d) \/ BackupRestored(d)
                     \/ CutoverBegins(d) \/ IndexUpgradeBegins(d)

UpgradeSpec == UpgradeInit /\ [][UpgradeNext]_upgradeVars

---------------------------------------------------------------------------
\* No command that fails or is killed leaves half of an upgrade: the project migrations are there
\* together with the mark, every row with its owner, or not at all.
NeverHalf ==
  /\ db.applied \in {{}, ProjectMigrations \ {IndexIdentity}, ProjectMigrations}
  /\ IF db.marker = "none" THEN db.applied = {} /\ db.mine = {}
                            ELSE db.applied /= {} /\ db.held = {}

\* What is upgraded is exactly the database of a backup that was complete and undamaged when the
\* upgrade verified it and, where there is history, what the operator reviewed, with nothing
\* running, though the old server may write until the transaction.  The database is fingerprinted
\* again in the transaction, the backup is not: damage after its verification goes unnoticed.
CutoverIsBackedUp ==
  [][db.marker = "none" /\ db'.marker /= "none" =>
       /\ \E d \in Dirs : Verified(d, db)
       /\ ~db.running /\ ("runs" \in db.held => reviewed = {db})]_upgradeVars

\* An upgraded database is one the new server starts with.
UpgradedStarts == db.applied = ProjectMigrations => ProjectSchema(db)

\* projects/legacy-cutover.ts: an upgrade is whole or absent, and was made of what was backed up
\* and reviewed.
UpgradesWhole == []NeverHalf /\ CutoverIsBackedUp
=============================================================================
