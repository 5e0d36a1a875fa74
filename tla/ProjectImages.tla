---------------------------- MODULE ProjectImages ----------------------------
(***************************************************************************)
(* The execution images of one project and the containers of its Runs:     *)
(* src/server/projects/image-preparation.ts, image-state.ts, run-image.ts, *)
(* image-admin.ts, command-session.ts, execution-container.ts and          *)
(* docker-recovery.ts.                                                     *)
(*                                                                         *)
(* A key is a (commit, build definition) pair.  Two actors prepare images: *)
(* administrators and the Run in execution; one global slot lets one Run   *)
(* execute at a time.  Every await is a step of its own, and the process   *)
(* may end between any two; Docker keeps its images and containers.        *)
(***************************************************************************)
EXTENDS Naturals, FiniteSets, Sequences

CONSTANTS Keys,        \* the keys an image may be prepared for
          Runs,        \* the Runs
          MaxImage,    \* bound on the images built
          MaxBoot,     \* bound on the starts of the process
          MaxLoss      \* bound on the images lost to others and the failed removals

(* The bounds count, and there is a first start. *)
ASSUME ImagesAssumption == MaxImage \in Nat /\ MaxBoot \in Nat \ {0} /\ MaxLoss \in Nat

VARIABLES
  imageRow,    \* project_execution_images: status and image of each key
  runImage,    \* project_run_images: the pinned key and image of each Run
  image,       \* Docker's images: key they were built for, and whether tagged
  container,   \* Docker's containers: Run, image, and the process that made it
  actor,       \* what the administrator and the Run do
  boot,        \* the number of the running process
  phase,       \* reclaiming Docker's resources, or serving
  begun,       \* the Runs that have executed
  losses       \* how many losses happened

imageVars == <<imageRow, runImage, image, container, actor, boot, phase, begun, losses>>

Actors  == {"admin", "run"}
NoImage == 0
NoKey   == <<"none", "none">>
NoRun   == "none"
Rest    == [at |-> "rest", key |-> NoKey, image |-> NoImage, run |-> NoRun]
Preparing == {"source", "build", "check"}
Statuses == {"absent", "preparing", "ready", "failed"}

Built == DOMAIN image
Newest == Cardinality(Built)     \* images are numbered in the order of their builds
Present(i) == i \in Built /\ image[i].there

ImagesTypeOK ==
  /\ imageRow \in [Keys -> [status : Statuses, image : 0 .. MaxImage]]
  /\ runImage \in [Runs -> [key : Keys \union {NoKey}, image : 0 .. MaxImage]]
  /\ Built = 1 .. Newest
  /\ \A i \in Built : image[i] \in [key : Keys, tagged : BOOLEAN, there : BOOLEAN]
  /\ container \subseteq [run : Runs, image : Built, boot : 1 .. MaxBoot]
  /\ \A a \in Actors : actor[a].at \in {"rest", "read", "inspect", "docker", "have", "create",
                                        "copy", "bind", "open"} \union Preparing
  /\ boot \in 1 .. MaxBoot /\ phase \in {"reclaim", "serve"}
  /\ begun \subseteq Runs /\ losses \in 0 .. MaxLoss

ImagesInit ==
  /\ imageRow = [k \in Keys |-> [status |-> "absent", image |-> NoImage]]
  /\ runImage = [r \in Runs |-> [key |-> NoKey, image |-> NoImage]]
  /\ image = <<>> /\ container = {}
  /\ actor = [a \in Actors |-> Rest]
  /\ boot = 1 /\ phase = "serve" /\ begun = {} /\ losses = 0

dockerVars == <<image, container>>
processVars == <<boot, phase, begun>>

Set(a, at) == actor' = [actor EXCEPT ![a].at = at]
Leave(a)   == actor' = [actor EXCEPT ![a] = Rest]

-----------------------------------------------------------------------------
(* Starting: an administrator asks for the image of the current commit     *)
(* after the identity of the repository was verified; a Run asks for the   *)
(* image of its fixed commit and frozen configuration.                     *)
AdminBegins(k) ==
  /\ phase = "serve" /\ actor["admin"].at = "rest"
  /\ actor' = [actor EXCEPT !["admin"] = [Rest EXCEPT !.at = "read", !.key = k]]
  /\ UNCHANGED <<imageRow, runImage, dockerVars, boot, phase, begun, losses>>

RunBegins(r, k) ==
  /\ phase = "serve" /\ actor["run"].at = "rest" /\ r \notin begun
  /\ actor' = [actor EXCEPT !["run"] = [Rest EXCEPT !.at = "read", !.key = k, !.run = r]]
  /\ begun' = begun \union {r}
  /\ UNCHANGED <<imageRow, runImage, dockerVars, boot, phase, losses>>

(* ensureProjectImage: a ready image is inspected and reused.              *)
ReadRow(a) ==
  /\ actor[a].at = "read"
  /\ LET row == imageRow[actor[a].key]
     IN  IF row.status = "ready"
           THEN actor' = [actor EXCEPT ![a].at = "inspect", ![a].image = row.image]
           ELSE Set(a, "docker")
  /\ UNCHANGED <<imageRow, runImage, dockerVars, processVars, losses>>

(* The labels name the project, the commit and the build definition.       *)
Genuine(i, k) == Present(i) /\ image[i].key = k

Inspect(a) ==
  /\ actor[a].at = "inspect"
  /\ IF Genuine(actor[a].image, actor[a].key)
       THEN Set(a, "have")
       ELSE actor' = [actor EXCEPT ![a].at = "docker", ![a].image = NoImage]
  /\ UNCHANGED <<imageRow, runImage, dockerVars, processVars, losses>>

(* Mutant: begin does not look at the status. *)
BeginAnyway(a) ==
  /\ actor[a].at = "docker"
  /\ imageRow' = [imageRow EXCEPT ![actor[a].key] = [status |-> "preparing", image |-> NoImage]]
  /\ Set(a, "source")
  /\ UNCHANGED <<runImage, dockerVars, processVars, losses>>

(* begin refuses a key that is being prepared, and takes one that became   *)
(* ready since it was read.                                                *)
Begin(a) ==
  /\ actor[a].at = "docker"
  /\ LET k == actor[a].key
     IN  IF imageRow[k].status = "preparing"
           THEN Leave(a) /\ UNCHANGED imageRow
           ELSE /\ imageRow' = [imageRow EXCEPT ![k] = [status |-> "preparing", image |-> NoImage]]
                /\ Set(a, "source")
  /\ UNCHANGED <<runImage, dockerVars, processVars, losses>>

SourceReady(a) ==
  /\ actor[a].at = "source" /\ Set(a, "build")
  /\ UNCHANGED <<imageRow, runImage, dockerVars, processVars, losses>>

Commit(k) == k[1]

(* docker build: the image gets the tag of its commit, which leaves the    *)
(* image that had it untagged.                                             *)
Build(a) ==
  /\ actor[a].at = "build" /\ Newest < MaxImage
  /\ LET k == actor[a].key
         untagged == [i \in Built |-> [image[i] EXCEPT
                        !.tagged = @ /\ Commit(image[i].key) # Commit(k)]]
     IN  image' = [i \in 1 .. Newest + 1 |->
                     IF i \in Built THEN untagged[i]
                     ELSE [key |-> k, tagged |-> TRUE, there |-> TRUE]]
  /\ actor' = [actor EXCEPT ![a].at = "check", ![a].image = Newest + 1]
  /\ UNCHANGED <<imageRow, runImage, container, processVars, losses>>

Owned(k) == imageRow[k].status = "preparing"
MarkReady(k, i) == imageRow' = [imageRow EXCEPT ![k] = [status |-> "ready", image |-> i]]
MarkFailed(k)   == imageRow' = [imageRow EXCEPT ![k] = [status |-> "failed", image |-> NoImage]]

(* ready and fail only change a key that is being prepared.                *)
Check(a) ==
  /\ actor[a].at = "check" /\ Owned(actor[a].key)
  /\ IF Genuine(actor[a].image, actor[a].key)
       THEN MarkReady(actor[a].key, actor[a].image) /\ Set(a, "have")
       ELSE MarkFailed(actor[a].key) /\ Leave(a)
  /\ UNCHANGED <<runImage, dockerVars, processVars, losses>>

(* Exporting the source, building or inspecting fails. *)
PreparationFails(a) ==
  /\ actor[a].at \in Preparing /\ Owned(actor[a].key)
  /\ MarkFailed(actor[a].key) /\ Leave(a)
  /\ UNCHANGED <<runImage, dockerVars, processVars, losses>>

(* Before begin, an unavailable Docker ends the attempt without a trace.   *)
DockerUnavailable(a) ==
  /\ actor[a].at \in {"inspect", "docker"} /\ Leave(a)
  /\ UNCHANGED <<imageRow, runImage, dockerVars, processVars, losses>>

(* The administrator is told of the image, or that the configuration has   *)
(* changed meanwhile; neither changes anything.                            *)
AdminEnds ==
  /\ actor["admin"].at = "have" /\ Leave("admin")
  /\ UNCHANGED <<imageRow, runImage, dockerVars, processVars, losses>>

-----------------------------------------------------------------------------
(* The Run's command session.                                              *)
Me == actor["run"]
MyContainers == {c \in container : c.run = Me.run}

RunSourceReady ==
  /\ Me.at = "have" /\ Set("run", "create")
  /\ UNCHANGED <<imageRow, runImage, dockerVars, processVars, losses>>

(* The labels of the image are inspected once more, for project and commit *)
(* only, and the container is created from it.                             *)
CreateContainer ==
  /\ Me.at = "create" /\ Present(Me.image)
  /\ Commit(image[Me.image].key) = Commit(Me.key)
  /\ container' = container \union {[run |-> Me.run, image |-> Me.image, boot |-> boot]}
  /\ Set("run", "copy")
  /\ UNCHANGED <<imageRow, runImage, image, processVars, losses>>

StartContainer ==
  /\ Me.at = "copy" /\ Set("run", "bind")
  /\ UNCHANGED <<imageRow, runImage, dockerVars, processVars, losses>>

Pinned(r) == runImage[r].image # NoImage

(* record: the key's image must still be the ready one, and a Run's record *)
(* is never rewritten.                                                     *)
MayRecord ==
  /\ imageRow[Me.key] = [status |-> "ready", image |-> Me.image]
  /\ Pinned(Me.run) => runImage[Me.run] = [key |-> Me.key, image |-> Me.image]

(* Mutant: the image that is ready by now is recorded. *)
BindReadyImage ==
  /\ Me.at = "bind" /\ imageRow[Me.key].status = "ready"
  /\ runImage' = [runImage EXCEPT ![Me.run] = [key |-> Me.key, image |-> imageRow[Me.key].image]]
  /\ Set("run", "open")
  /\ UNCHANGED <<imageRow, dockerVars, processVars, losses>>

Bind ==
  /\ Me.at = "bind" /\ MayRecord
  /\ runImage' = [runImage EXCEPT ![Me.run] = [key |-> Me.key, image |-> Me.image]]
  /\ Set("run", "open")
  /\ UNCHANGED <<imageRow, dockerVars, processVars, losses>>

(* rm --force, which may fail and leave the container.                     *)
Removes ==
  \/ container' = container \ MyContainers /\ UNCHANGED losses
  \/ MyContainers # {} /\ losses < MaxLoss
     /\ losses' = losses + 1 /\ UNCHANGED container

(* Anything before the session is handed out may fail; so may the record.  *)
SessionFails ==
  /\ \/ Me.at \in {"have", "create", "copy"}
     \/ Me.at = "bind" /\ ~MayRecord
  /\ Removes /\ Leave("run")
  /\ UNCHANGED <<imageRow, runImage, image, processVars>>

(* The Run closes its session, or a command that timed out closes it.      *)
CloseSession ==
  /\ Me.at = "open" /\ Removes /\ Leave("run")
  /\ UNCHANGED <<imageRow, runImage, image, processVars>>

-----------------------------------------------------------------------------
(* The end of the process, and the start of the next one: it reclaims the  *)
(* resources that carry its label before it lets a Run begin.              *)
ProcessEnds ==
  /\ boot < MaxBoot
  /\ boot' = boot + 1 /\ phase' = "reclaim" /\ actor' = [a \in Actors |-> Rest]
  /\ UNCHANGED <<imageRow, runImage, dockerVars, begun, losses>>

Referenced == {imageRow[k].image : k \in Keys} \union {runImage[r].image : r \in Runs}
InUse(i) == \E c \in container : c.image = i

RemoveContainers ==
  /\ phase = "reclaim" /\ container # {} /\ container' = {}
  /\ UNCHANGED <<imageRow, runImage, image, actor, processVars, losses>>

(* Images nobody refers to are removed if they still carry the builder's   *)
(* tag.                                                                    *)
Reclaimable(i) == Present(i) /\ image[i].tagged /\ i \notin Referenced

(* Mutant: the containers are left for later. *)
RemoveImagesOnly ==
  /\ phase = "reclaim"
  /\ image' = [i \in Built |-> [image[i] EXCEPT !.there = @ /\ (InUse(i) \/ ~Reclaimable(i))]]
  /\ phase' = "serve"
  /\ UNCHANGED <<imageRow, runImage, container, actor, boot, begun, losses>>

RemoveImages ==
  /\ phase = "reclaim" /\ container = {}
  /\ image' = [i \in Built |-> [image[i] EXCEPT !.there = @ /\ ~Reclaimable(i)]]
  /\ phase' = "serve"
  /\ UNCHANGED <<imageRow, runImage, container, actor, boot, begun, losses>>

(* Somebody removes an image no container uses from Docker.                *)
ImageLost(i) ==
  /\ losses < MaxLoss /\ Present(i) /\ ~InUse(i)
  /\ image' = [image EXCEPT ![i].there = FALSE] /\ losses' = losses + 1
  /\ UNCHANGED <<imageRow, runImage, container, actor, processVars>>

Prepare(a) == ReadRow(a) \/ Inspect(a) \/ Begin(a) \/ SourceReady(a) \/ Build(a) \/ Check(a)
              \/ PreparationFails(a) \/ DockerUnavailable(a)

Session == RunSourceReady \/ CreateContainer \/ StartContainer \/ Bind \/ SessionFails
           \/ CloseSession

Recover == RemoveContainers \/ RemoveImages

ImagesNext ==
  \/ \E k \in Keys : AdminBegins(k)
  \/ \E r \in Runs, k \in Keys : RunBegins(r, k)
  \/ \E a \in Actors : Prepare(a)
  \/ AdminEnds \/ Session \/ Recover \/ ProcessEnds
  \/ \E i \in Built : ImageLost(i)

ImagesSpec == ImagesInit /\ [][ImagesNext]_imageVars

-----------------------------------------------------------------------------
(* A Run is given commands only in a container of an image that was built  *)
(* for its commit and definition and that its record names for good: what  *)
(* ensureProjectImage returned, the container was made from and record     *)
(* wrote are the same image, although an administrator may prepare the     *)
(* same key again in between.                                              *)
SessionImageRecorded ==
  Me.at = "open" =>
    /\ runImage[Me.run] = [key |-> Me.key, image |-> Me.image]
    /\ \A c \in MyContainers : c.image = Me.image /\ Genuine(c.image, Me.key)

(* A key is prepared by one actor at a time, and while it is, its row says *)
(* so: ready and fail, which only act on a preparing row, are never        *)
(* refused, and one preparation does not overwrite the end of another.     *)
OnePreparation ==
  /\ \A a \in Actors : actor[a].at \in Preparing => Owned(actor[a].key)
  /\ \A a, b \in Actors :
       a # b /\ actor[a].at \in Preparing /\ actor[b].at \in Preparing
         => actor[a].key # actor[b].key

(* A process that serves has no container of an earlier process: no Run    *)
(* executes beside what an interrupted one left behind.                    *)
NoOldContainer == phase = "serve" => \A c \in container : c.boot = boot

(* docs/changes/luowang-multi-project/plan.md:91: a preparation is ended   *)
(* by the one that began it, and one left over by a restart is marked      *)
(* interrupted.  So whatever is preparing has somebody who prepares it.    *)
PreparingIsOwned ==
  phase = "serve" =>
    \A k \in Keys : imageRow[k].status = "preparing" =>
      \E a \in Actors : actor[a].at \in Preparing /\ actor[a].key = k

(* projects/image-preparation.ts: a Run's commands run in the image its    *)
(* record names, one actor prepares a key, no old container is left.       *)
OneImagePerRun == SessionImageRecorded /\ OnePreparation /\ NoOldContainer
=============================================================================
