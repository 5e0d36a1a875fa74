------------------------- MODULE ProjectImagesProofs -------------------------
(***************************************************************************)
(* Proofs about ProjectImages, for any keys, Runs, images, restarts and    *)
(* losses.                                                                 *)
(*                                                                         *)
(* The argument.  An image keeps the key it was built for, and an actor    *)
(* that has an image has one of its key (ActorOK): what a Run inspects,    *)
(* makes its container from and records is one image.  A Run that has no   *)
(* container yet has none from before, because each Run executes once      *)
(* (ContainerOK).  While resources are reclaimed nobody acts (Quiet), so   *)
(* a process that serves begins with no container of another.              *)
(***************************************************************************)
EXTENDS ProjectImages, FiniteSetTheorems, TLAPS

ActorPlaces == {"rest", "read", "inspect", "docker", "have", "create", "copy", "bind", "open"}
          \union Preparing
ActorType == [at : ActorPlaces, key : Keys \union {NoKey}, image : Nat, run : Runs \union {NoRun}]
ImageRowType   == [status : Statuses, image : Nat]
ImageType == [key : Keys, tagged : BOOLEAN, there : BOOLEAN]

Typed ==
  /\ imageRow \in [Keys -> ImageRowType]
  /\ runImage \in [Runs -> [key : Keys \union {NoKey}, image : Nat]]
  /\ Newest \in Nat /\ image \in [1 .. Newest -> ImageType]
  /\ container \subseteq [run : Runs, image : 1 .. Newest, boot : Nat]
  /\ actor \in [Actors -> ActorType]
  /\ boot \in Nat /\ phase \in {"reclaim", "serve"} /\ begun \subseteq Runs

\* Those who act have a key, a Run is one that has begun, and those who have
\* an image have one that was built for their key.
ActorOK(a) ==
  /\ actor[a].at # "rest" => actor[a].key \in Keys
  /\ a = "run" /\ actor[a].at # "rest" => actor[a].run \in begun
  /\ actor[a].at \in {"have", "create", "copy", "bind", "open"} =>
       actor[a].image \in 1 .. Newest /\ image[actor[a].image].key = actor[a].key

\* A container is of a Run that has begun, and its image stays; the Run in
\* execution has none before it creates one, and one of its image after.
ContainerOK(c) ==
  /\ c.run \in begun /\ image[c.image].there
  /\ phase = "serve" => c.boot = boot
  /\ Me.at # "rest" /\ c.run = Me.run =>
       Me.at \in {"copy", "bind", "open"} /\ c.image = Me.image

ImageRecorded == Me.at = "open" => runImage[Me.run] = [key |-> Me.key, image |-> Me.image]

\* Nobody acts while resources are reclaimed.
Quiet == phase = "reclaim" => \A a \in Actors : actor[a].at = "rest"

ImagesInv ==
  /\ Typed /\ OnePreparation /\ ImageRecorded /\ Quiet
  /\ \A a \in Actors : ActorOK(a)
  /\ \A c \in container : ContainerOK(c)

-----------------------------------------------------------------------------
LEMMA InvInit == ImagesInit => ImagesInv
<1> SUFFICES ASSUME ImagesInit PROVE ImagesInv
  OBVIOUS
<1>1. Newest = 0 /\ image \in [1 .. Newest -> ImageType]
  <2>1. DOMAIN image = {} /\ image = [i \in {} |-> 0]
    BY DEF ImagesInit
  <2>2. Newest = 0
    BY <2>1, FS_EmptySet DEF Newest, Built
  <2> QED BY <2>1, <2>2
<1>2. \A a \in Actors : actor[a] = Rest
  BY DEF ImagesInit
<1>3. Rest \in ActorType
  BY DEF Rest, ActorType, NoImage, ActorPlaces
<1>4. Typed
  BY <1>1, <1>3 DEF ImagesInit, Typed, ImageRowType, Statuses, NoImage
<1>5. OnePreparation /\ ImageRecorded /\ Quiet /\ (\A a \in Actors : ActorOK(a))
  BY <1>2 DEF OnePreparation, ImageRecorded, Quiet, ActorOK, Me, Rest, Actors, Preparing
<1>6. container = {}
  BY DEF ImagesInit
<1> QED BY <1>4, <1>5, <1>6 DEF ImagesInv
-----------------------------------------------------------------------------
(***************************************************************************)
(* Steps of an actor that leave Docker and the Runs' records alone.        *)
(***************************************************************************)
\* What such a step does to the actors and to the image states is in order.
LEMMA ActorStepInv ==
  ASSUME ImagesInv, NEW a \in Actors, NEW new \in ActorType,
         actor' = [actor EXCEPT ![a] = new],
         imageRow' \in [Keys -> ImageRowType],
         UNCHANGED <<runImage, image, container, boot, phase, begun>>,
         new.at # "rest" => phase = "serve" /\ new.key \in Keys,
         a = "run" /\ new.at # "rest" => new.run = actor[a].run /\ actor[a].at # "rest",
         new.at \in {"have", "create", "copy", "bind", "open"} =>
           new.image \in 1 .. Newest /\ image[new.image].key = new.key,
         a = "run" /\ new.at # "rest" =>
           \/ new.at \notin {"copy", "bind", "open"} /\ actor[a].at \notin {"copy", "bind", "open"}
           \/ /\ new.at \in {"copy", "bind"} /\ actor[a].at \in {"copy", "bind"}
              /\ new.image = actor[a].image,
         new.at \in Preparing => imageRow'[new.key].status = "preparing",
         \A b \in Actors \ {a} : actor[b].at \in Preparing =>
           /\ imageRow'[actor[b].key].status = "preparing"
           /\ new.at \in Preparing => new.key # actor[b].key
  PROVE  ImagesInv'
<1>0. Typed /\ actor \in [Actors -> ActorType] /\ "run" \in Actors
  BY DEF ImagesInv, Typed, Actors
<1>1. actor'[a] = new /\ \A b \in Actors \ {a} : actor'[b] = actor[b]
  BY <1>0
<1>2. Built' = Built /\ Newest' = Newest
  BY DEF Built, Newest
<1>3. Typed'
  BY <1>0, <1>2 DEF Typed
<1>4. \A b \in Actors : ActorOK(b)'
  BY <1>1, <1>2 DEF ImagesInv, ActorOK
<1>5. OnePreparation'
  BY <1>0, <1>1 DEF ImagesInv, OnePreparation, Owned
<1>6. Quiet'
  BY <1>0, <1>1 DEF ImagesInv, Quiet, Typed
<1>7. ImageRecorded'
  BY <1>0, <1>1 DEF ImagesInv, ImageRecorded, Me
<1>8. ASSUME NEW c \in container PROVE ContainerOK(c)'
  BY <1>0, <1>1 DEF ImagesInv, ContainerOK, Me
<1> QED BY <1>3, <1>4, <1>5, <1>6, <1>7, <1>8 DEF ImagesInv

\* The actor of a step before the command session, and what it may become.
LEMMA Acting ==
  ASSUME ImagesInv, NEW a \in Actors, actor[a].at # "rest"
  PROVE  /\ phase = "serve" /\ actor[a] \in ActorType /\ actor[a].key \in Keys
         /\ imageRow[actor[a].key] \in ImageRowType
         /\ \A b \in Actors : actor[b].at \in Preparing =>
              /\ imageRow[actor[b].key].status = "preparing"
              /\ b # a /\ actor[a].at \in Preparing => actor[b].key # actor[a].key
  BY DEF ImagesInv, Typed, Quiet, ActorOK, OnePreparation, Owned

LEMMA RestOK == Rest \in ActorType /\ Rest.at = "rest"
  BY DEF Rest, ActorType, ActorPlaces, NoImage

LEMMA AdminBeginsInv == ASSUME ImagesInv, NEW k \in Keys, AdminBegins(k) PROVE ImagesInv'
<1> DEFINE new == [Rest EXCEPT !.at = "read", !.key = k]
<1>1. new \in ActorType /\ new.at = "read" /\ new.key = k
  BY DEF Rest, ActorType, ActorPlaces, NoImage
<1>2. imageRow \in [Keys -> ImageRowType] /\ "admin" \in Actors
  BY DEF ImagesInv, Typed, Actors
<1>3. /\ actor' = [actor EXCEPT !["admin"] = new] /\ phase = "serve"
      /\ UNCHANGED <<imageRow, runImage, image, container, boot, phase, begun>>
  BY DEF AdminBegins, dockerVars
<1>4. \A b \in Actors : actor[b].at \in Preparing => imageRow[actor[b].key].status = "preparing"
  BY DEF ImagesInv, OnePreparation, Owned
<1> HIDE DEF new
<1> QED BY <1>1, <1>2, <1>3, <1>4, ActorStepInv DEF Preparing

\* A move: an actor gets another place and perhaps another image.
ActorMoved(a, at, i) == [actor[a] EXCEPT !.at = at, !.image = i]

LEMMA MovedFields ==
  ASSUME Typed, NEW a \in Actors, NEW at \in ActorPlaces, NEW i \in Nat
  PROVE  /\ ActorMoved(a, at, i) \in ActorType /\ ActorMoved(a, at, i).at = at
         /\ ActorMoved(a, at, i).image = i /\ ActorMoved(a, at, i).key = actor[a].key
         /\ ActorMoved(a, at, i).run = actor[a].run
<1>1. actor[a] \in ActorType
  BY DEF Typed
<1> QED BY <1>1 DEF ActorType, ActorMoved

\* Set(a, at) is a move that keeps the image.
LEMMA SetMoves ==
  ASSUME Typed, NEW a \in Actors, NEW at, Set(a, at)
  PROVE  /\ actor' = [actor EXCEPT ![a] = ActorMoved(a, at, actor[a].image)]
         /\ actor[a].image \in Nat
<1>1. actor[a] \in ActorType
  BY DEF Typed
<1>2. [actor[a] EXCEPT !.at = at] = ActorMoved(a, at, actor[a].image)
  BY <1>1 DEF ActorType, ActorMoved
<1> QED BY <1>1, <1>2 DEF Set, ActorType

\* Steps that move an actor on and leave the image states alone.
LEMMA MovesInv ==
  ASSUME ImagesInv, NEW a \in Actors, NEW at \in ActorPlaces \ {"rest"}, NEW i \in Nat,
         actor[a].at # "rest",
         actor' = [actor EXCEPT ![a] = ActorMoved(a, at, i)],
         UNCHANGED <<imageRow, runImage, image, container, boot, phase, begun>>,
         at \in Preparing => actor[a].at \in Preparing,
         at \in {"have", "create", "copy", "bind", "open"} =>
           i \in 1 .. Newest /\ image[i].key = actor[a].key,
         a = "run" =>
           \/ at \notin {"copy", "bind", "open"} /\ actor[a].at \notin {"copy", "bind", "open"}
           \/ at = "bind" /\ actor[a].at = "copy" /\ i = actor[a].image
  PROVE  ImagesInv'
<1> DEFINE new == ActorMoved(a, at, i)
<1>1. /\ phase = "serve" /\ actor[a] \in ActorType /\ actor[a].key \in Keys
      /\ \A b \in Actors : actor[b].at \in Preparing =>
           /\ imageRow[actor[b].key].status = "preparing"
           /\ b # a /\ actor[a].at \in Preparing => actor[b].key # actor[a].key
  BY Acting
<1>2. /\ new \in ActorType /\ new.at = at /\ new.image = i
      /\ new.key = actor[a].key /\ new.run = actor[a].run
  BY MovedFields DEF ImagesInv
<1>3. imageRow' \in [Keys -> ImageRowType] /\ imageRow' = imageRow
  BY DEF ImagesInv, Typed
<1>4. actor' = [actor EXCEPT ![a] = new]
  OBVIOUS
<1>5. at \in Preparing => imageRow'[new.key].status = "preparing"
  BY <1>1, <1>2, <1>3
<1>6. \A b \in Actors \ {a} : actor[b].at \in Preparing =>
        /\ imageRow'[actor[b].key].status = "preparing"
        /\ new.at \in Preparing => new.key # actor[b].key
  BY <1>1, <1>2, <1>3
<1>7. /\ new.at # "rest" => phase = "serve" /\ new.key \in Keys
      /\ a = "run" /\ new.at # "rest" => new.run = actor[a].run /\ actor[a].at # "rest"
      /\ new.at \in {"have", "create", "copy", "bind", "open"} =>
           new.image \in 1 .. Newest /\ image[new.image].key = new.key
  BY <1>1, <1>2
<1>8. a = "run" /\ new.at # "rest" =>
        \/ new.at \notin {"copy", "bind", "open"} /\ actor[a].at \notin {"copy", "bind", "open"}
        \/ /\ new.at \in {"copy", "bind"} /\ actor[a].at \in {"copy", "bind"}
           /\ new.image = actor[a].image
  BY <1>2
<1>9. new.at \in Preparing => imageRow'[new.key].status = "preparing"
  BY <1>2, <1>5
<1>10. new \in ActorType
  BY <1>2
<1> HIDE DEF new
<1> QED BY <1>3, <1>4, <1>6, <1>7, <1>8, <1>9, <1>10, ActorStepInv

\* An actor gives up or has ended.
LEMMA LeaveInv ==
  ASSUME ImagesInv, NEW a \in Actors, Leave(a), imageRow' \in [Keys -> ImageRowType],
         UNCHANGED <<runImage, image, container, boot, phase, begun>>,
         \A b \in Actors \ {a} : actor[b].at \in Preparing =>
           imageRow'[actor[b].key].status = "preparing"
  PROVE  ImagesInv'
<1>1. Rest.at \notin {"have", "create", "copy", "bind", "open"} /\ Rest.at \notin Preparing
  BY RestOK DEF Preparing
<1> QED BY <1>1, RestOK, ActorStepInv DEF Leave

LEMMA LookingInv ==
  ASSUME ImagesInv, NEW a \in Actors,
         ReadRow(a) \/ Inspect(a) \/ SourceReady(a) \/ DockerUnavailable(a)
  PROVE  ImagesInv'
<1>0. /\ Typed /\ ActorOK(a) /\ actor[a] \in ActorType /\ actor[a].image \in Nat
      /\ imageRow \in [Keys -> ImageRowType]
  BY DEF ImagesInv, Typed, ActorType
<1>1. CASE ReadRow(a)
  <2>1. /\ actor[a].at = "read" /\ imageRow[actor[a].key] \in ImageRowType
        /\ UNCHANGED <<imageRow, runImage, image, container, boot, phase, begun>>
    BY <1>0, <1>1, Acting DEF ReadRow, dockerVars, processVars
  <2>2. CASE imageRow[actor[a].key].status = "ready"
    <3>1. actor' = [actor EXCEPT ![a] = ActorMoved(a, "inspect", imageRow[actor[a].key].image)]
      BY <1>0, <1>1, <2>2 DEF ReadRow, ActorMoved
    <3>2. imageRow[actor[a].key].image \in Nat /\ "inspect" \in ActorPlaces \ {"rest"}
      BY <2>1 DEF ImageRowType, ActorPlaces
    <3> QED BY <2>1, <3>1, <3>2, MovesInv DEF Preparing
  <2>3. CASE imageRow[actor[a].key].status # "ready"
    <3>1. Set(a, "docker") /\ "docker" \in ActorPlaces \ {"rest"}
      BY <1>1, <2>3 DEF ReadRow, ActorPlaces
    <3>2. actor' = [actor EXCEPT ![a] = ActorMoved(a, "docker", actor[a].image)]
      BY <1>0, <3>1, SetMoves
    <3> QED BY <1>0, <2>1, <3>1, <3>2, MovesInv DEF Preparing
  <2> QED BY <2>2, <2>3
<1>2. CASE Inspect(a)
  <2>1. /\ actor[a].at = "inspect"
        /\ UNCHANGED <<imageRow, runImage, image, container, boot, phase, begun>>
    BY <1>2 DEF Inspect, dockerVars, processVars
  <2>2. CASE Genuine(actor[a].image, actor[a].key)
    <3>1. Set(a, "have") /\ "have" \in ActorPlaces \ {"rest"}
      BY <1>2, <2>2 DEF Inspect, ActorPlaces
    <3>2. actor[a].image \in 1 .. Newest /\ image[actor[a].image].key = actor[a].key
      BY <1>0, <2>2 DEF Genuine, Present, Typed, Built
    <3>3. actor' = [actor EXCEPT ![a] = ActorMoved(a, "have", actor[a].image)]
      BY <1>0, <3>1, SetMoves
    <3> QED BY <1>0, <2>1, <3>1, <3>2, <3>3, MovesInv DEF Preparing
  <2>3. CASE ~Genuine(actor[a].image, actor[a].key)
    <3>1. actor' = [actor EXCEPT ![a] = ActorMoved(a, "docker", 0)]
      BY <1>0, <1>2, <2>3 DEF Inspect, NoImage, ActorMoved
    <3>2. "docker" \in ActorPlaces \ {"rest"}
      BY DEF ActorPlaces
    <3> QED BY <2>1, <3>1, <3>2, MovesInv DEF Preparing
  <2> QED BY <2>2, <2>3
<1>3. CASE SourceReady(a)
  <2>1. /\ actor[a].at = "source" /\ Set(a, "build") /\ "build" \in ActorPlaces \ {"rest"}
        /\ UNCHANGED <<imageRow, runImage, image, container, boot, phase, begun>>
    BY <1>3 DEF SourceReady, dockerVars, processVars, ActorPlaces, Preparing
  <2>2. actor' = [actor EXCEPT ![a] = ActorMoved(a, "build", actor[a].image)]
    BY <1>0, <2>1, SetMoves
  <2> QED BY <1>0, <2>1, <2>2, MovesInv DEF Preparing
<1>4. CASE DockerUnavailable(a)
  <2>1. /\ Leave(a) /\ actor[a].at # "rest"
        /\ UNCHANGED <<imageRow, runImage, image, container, boot, phase, begun>>
    BY <1>4 DEF DockerUnavailable, dockerVars, processVars
  <2> QED BY <1>0, <2>1, Acting, LeaveInv
<1> QED BY <1>1, <1>2, <1>3, <1>4

LEMMA BeginInv == ASSUME ImagesInv, NEW a \in Actors, Begin(a) PROVE ImagesInv'
<1> DEFINE k == actor[a].key
           new == ActorMoved(a, "source", actor[a].image)
<1>1. /\ Typed /\ imageRow \in [Keys -> ImageRowType] /\ actor[a].at = "docker"
      /\ UNCHANGED <<runImage, image, container, boot, phase, begun>>
  BY DEF Begin, dockerVars, processVars, ImagesInv, Typed
<1>2. /\ phase = "serve" /\ k \in Keys
      /\ \A b \in Actors : actor[b].at \in Preparing =>
           imageRow[actor[b].key].status = "preparing" /\ actor[b].key \in Keys
  BY <1>1, Acting DEF ImagesInv, ActorOK, Preparing
<1>3. CASE imageRow[k].status = "preparing"
  <2>1. Leave(a) /\ UNCHANGED imageRow
    BY <1>3 DEF Begin
  <2> QED BY <1>1, <1>2, <2>1, LeaveInv
<1>4. CASE imageRow[k].status # "preparing"
  <2>1. /\ imageRow' = [imageRow EXCEPT ![k] = [status |-> "preparing", image |-> NoImage]]
        /\ Set(a, "source")
    BY <1>4 DEF Begin
  <2>2. /\ imageRow' \in [Keys -> ImageRowType] /\ imageRow'[k].status = "preparing"
        /\ \A l \in Keys \ {k} : imageRow'[l] = imageRow[l]
    BY <1>1, <1>2, <2>1 DEF ImageRowType, Statuses, NoImage
  <2>3. actor' = [actor EXCEPT ![a] = new] /\ actor[a].image \in Nat
    BY <1>1, <2>1, SetMoves
  <2>4. new \in ActorType /\ new.at = "source" /\ new.key = k /\ new.run = actor[a].run
    BY <1>1, <2>3, MovedFields DEF ActorPlaces, Preparing
  <2>5. \A b \in Actors \ {a} : actor[b].at \in Preparing =>
          /\ imageRow'[actor[b].key].status = "preparing"
          /\ new.at \in Preparing => new.key # actor[b].key
    BY <1>2, <1>4, <2>2, <2>4
  <2> HIDE DEF new
  <2> QED BY <1>1, <1>2, <2>2, <2>3, <2>4, <2>5, ActorStepInv
<1> QED BY <1>3, <1>4

\* The end of a preparation changes the state of its own key only.
LEMMA EndsOwn ==
  ASSUME ImagesInv, NEW a \in Actors, actor[a].at \in Preparing, NEW row \in ImageRowType,
         imageRow' = [imageRow EXCEPT ![actor[a].key] = row]
  PROVE  /\ imageRow' \in [Keys -> ImageRowType]
         /\ \A b \in Actors \ {a} : actor[b].at \in Preparing =>
              imageRow'[actor[b].key].status = "preparing"
<1>1. actor[a].at # "rest"
  BY DEF Preparing
<1>2. actor[a].key \in Keys /\ imageRow \in [Keys -> ImageRowType]
  BY <1>1, Acting DEF ImagesInv, Typed
<1>3. \A b \in Actors \ {a} : actor[b].at \in Preparing =>
        /\ imageRow[actor[b].key].status = "preparing" /\ actor[b].key # actor[a].key
        /\ actor[b].key \in Keys
  BY DEF ImagesInv, OnePreparation, Owned, ActorOK, Preparing
<1> QED BY <1>2, <1>3

LEMMA FailedInv ==
  ASSUME ImagesInv, NEW a \in Actors, actor[a].at \in Preparing,
         MarkFailed(actor[a].key), Leave(a),
         UNCHANGED <<runImage, image, container, boot, phase, begun>>
  PROVE  ImagesInv'
<1> DEFINE row == [status |-> "failed", image |-> NoImage]
<1>1. row \in ImageRowType /\ imageRow' = [imageRow EXCEPT ![actor[a].key] = row]
  BY DEF MarkFailed, ImageRowType, Statuses, NoImage
<1> HIDE DEF row
<1> QED BY <1>1, EndsOwn, LeaveInv

LEMMA CheckInv == ASSUME ImagesInv, NEW a \in Actors, Check(a) PROVE ImagesInv'
<1> DEFINE new == ActorMoved(a, "have", actor[a].image)
<1>1. /\ Typed /\ actor[a].at = "check" /\ actor[a].at \in Preparing
      /\ UNCHANGED <<runImage, image, container, boot, phase, begun>>
  BY DEF Check, dockerVars, processVars, ImagesInv, Preparing
<1>2. CASE Genuine(actor[a].image, actor[a].key)
  <2> DEFINE row == [status |-> "ready", image |-> actor[a].image]
  <2>1. imageRow' = [imageRow EXCEPT ![actor[a].key] = row] /\ Set(a, "have")
    BY <1>2 DEF Check, MarkReady
  <2>2. actor' = [actor EXCEPT ![a] = new] /\ actor[a].image \in Nat
    BY <1>1, <2>1, SetMoves
  <2>3. row \in ImageRowType
    BY <2>2 DEF ImageRowType, Statuses
  <2>4. /\ new \in ActorType /\ new.at = "have" /\ new.key = actor[a].key
        /\ new.run = actor[a].run /\ new.image = actor[a].image
    BY <1>1, <2>2, MovedFields DEF ActorPlaces
  <2>5. actor[a].image \in 1 .. Newest /\ image[actor[a].image].key = actor[a].key
    BY <1>1, <1>2 DEF Genuine, Present, Typed, Built
  <2>6. phase = "serve" /\ actor[a].key \in Keys
    BY <1>1, Acting
  <2> HIDE DEF row
  <2>7. /\ imageRow' \in [Keys -> ImageRowType]
        /\ \A b \in Actors \ {a} : actor[b].at \in Preparing =>
              imageRow'[actor[b].key].status = "preparing"
    BY <1>1, <2>1, <2>3, EndsOwn
  <2> HIDE DEF new
  <2> QED BY <1>1, <2>2, <2>4, <2>5, <2>6, <2>7, ActorStepInv DEF Preparing
<1>3. CASE ~Genuine(actor[a].image, actor[a].key)
  <2>1. MarkFailed(actor[a].key) /\ Leave(a)
    BY <1>3 DEF Check
  <2> QED BY <1>1, <2>1, FailedInv
<1> QED BY <1>2, <1>3

\* A new image has a number of its own; the others keep their keys.
LEMMA BuildInv == ASSUME ImagesInv, NEW a \in Actors, Build(a) PROVE ImagesInv'
<1> DEFINE k == actor[a].key
           new == ActorMoved(a, "check", Newest + 1)
<1>1. /\ Typed /\ actor[a] \in ActorType /\ actor[a].at = "build"
      /\ UNCHANGED <<imageRow, runImage, container, boot, phase, begun>>
  BY DEF Build, processVars, ImagesInv, Typed
<1>2. /\ phase = "serve" /\ k \in Keys /\ Newest \in Nat /\ Built = 1 .. Newest
      /\ image \in [1 .. Newest -> ImageType]
  BY <1>1, Acting DEF Typed, Built
<1>3. /\ image' \in [1 .. Newest + 1 -> ImageType]
      /\ \A i \in 1 .. Newest : image'[i].key = image[i].key /\ image'[i].there = image[i].there
  <2> DEFINE untagged == [i \in Built |-> [image[i] EXCEPT
                            !.tagged = @ /\ Commit(image[i].key) # Commit(k)]]
             built == [key |-> k, tagged |-> TRUE, there |-> TRUE]
  <2>1. image' = [i \in 1 .. Newest + 1 |-> IF i \in Built THEN untagged[i] ELSE built]
    BY DEF Build
  <2>2. ASSUME NEW i \in 1 .. Newest
        PROVE  /\ untagged[i] \in ImageType /\ untagged[i].key = image[i].key
               /\ untagged[i].there = image[i].there
    <3>1. image[i] \in ImageType
      BY <1>2
    <3> DEFINE kept == image[i].tagged /\ Commit(image[i].key) # Commit(k)
    <3>2. kept \in BOOLEAN
      OBVIOUS
    <3>3. untagged[i] = [image[i] EXCEPT !.tagged = kept]
      BY <1>2
    <3> HIDE DEF kept, untagged
    <3> QED BY <3>1, <3>2, <3>3 DEF ImageType
  <2>3. built \in ImageType
    BY <1>2 DEF ImageType
  <2> HIDE DEF untagged, built
  <2> QED BY <1>2, <2>1, <2>2, <2>3
<1>4. Built' = 1 .. Newest + 1 /\ Newest' = Newest + 1
  <2>1. Built' = 1 .. Newest + 1
    BY <1>3 DEF Built
  <2>2. Cardinality(1 .. Newest + 1) = Newest + 1
    BY <1>2, FS_Interval
  <2> QED BY <2>1, <2>2 DEF Newest
<1>5. actor' = [actor EXCEPT ![a] = new]
  BY <1>1 DEF Build, ActorMoved
<1>6. new \in ActorType /\ new.at = "check" /\ new.key = k /\ new.run = actor[a].run
  BY <1>1, <1>2, MovedFields DEF ActorPlaces, Preparing
<1>7. /\ actor'[a] = new /\ \A b \in Actors \ {a} : actor'[b] = actor[b]
      /\ actor' \in [Actors -> ActorType]
  BY <1>1, <1>5, <1>6 DEF Typed
<1> HIDE DEF new
<1>8. Typed'
  BY <1>1, <1>2, <1>3, <1>4, <1>7 DEF Typed
<1>9. \A b \in Actors : ActorOK(b)'
  BY <1>1, <1>2, <1>3, <1>4, <1>6, <1>7 DEF ImagesInv, ActorOK, Preparing
<1>10. OnePreparation'
  BY <1>1, <1>6, <1>7 DEF ImagesInv, OnePreparation, Owned, Preparing
<1>11. Quiet'
  BY <1>1, <1>2 DEF Quiet
<1>12. ImageRecorded'
  BY <1>1, <1>6, <1>7 DEF ImagesInv, ImageRecorded, Me, Actors
<1>13. ASSUME NEW c \in container PROVE ContainerOK(c)'
  <2>1. c.image \in 1 .. Newest /\ ContainerOK(c)
    BY <1>1 DEF Typed, ImagesInv
  <2> QED BY <1>1, <1>3, <1>6, <1>7, <2>1 DEF ContainerOK, Me, Actors
<1> QED BY <1>1, <1>8, <1>9, <1>10, <1>11, <1>12, <1>13 DEF ImagesInv

LEMMA AdminEndsInv == ASSUME ImagesInv, AdminEnds PROVE ImagesInv'
<1>1. /\ Leave("admin") /\ "admin" \in Actors /\ imageRow \in [Keys -> ImageRowType]
      /\ UNCHANGED <<imageRow, runImage, image, container, boot, phase, begun>>
  BY DEF AdminEnds, dockerVars, processVars, ImagesInv, Typed, Actors
<1>2. \A b \in Actors : actor[b].at \in Preparing => imageRow[actor[b].key].status = "preparing"
  BY DEF ImagesInv, OnePreparation, Owned
<1> QED BY <1>1, <1>2, LeaveInv

LEMMA PrepareInv == ASSUME ImagesInv, NEW a \in Actors, Prepare(a) PROVE ImagesInv'
<1>1. CASE PreparationFails(a)
  BY <1>1, FailedInv DEF PreparationFails, dockerVars, processVars
<1> QED BY <1>1, LookingInv, BeginInv, BuildInv, CheckInv DEF Prepare

-----------------------------------------------------------------------------
(***************************************************************************)
(* The Run's command session.                                              *)
(***************************************************************************)
\* What is known of the actors, for steps that change the Run only.
LEMMA RunKnown ==
  ASSUME ImagesInv
  PROVE  /\ Typed /\ "run" \in Actors /\ Me \in ActorType /\ Me.image \in Nat
         /\ imageRow \in [Keys -> ImageRowType] /\ boot \in Nat /\ begun \subseteq Runs
         /\ Me.at # "rest" => phase = "serve" /\ Me.key \in Keys /\ Me.run \in begun
         /\ Me.at \in {"have", "create", "copy", "bind", "open"} =>
              Me.image \in 1 .. Newest /\ image[Me.image].key = Me.key
         /\ \A c \in container : ContainerOK(c) /\ c.image \in 1 .. Newest /\ c.run \in Runs
  BY Acting DEF ImagesInv, Typed, ActorType, Me, Actors, ActorOK

\* A step of the Run at no preparation: the other actor and the images stay.
LEMMA RunStepInv ==
  ASSUME ImagesInv, NEW new \in ActorType,
         actor' = [actor EXCEPT !["run"] = new],
         UNCHANGED <<imageRow, image, boot, phase>>,
         runImage' \in [Runs -> [key : Keys \union {NoKey}, image : Nat]],
         begun \subseteq begun', begun' \subseteq Runs,
         container' \subseteq [run : Runs, image : 1 .. Newest, boot : Nat],
         new.at # "rest" => phase = "serve" /\ new.key \in Keys /\ new.run \in begun',
         new.at \notin Preparing,
         new.at \in {"have", "create", "copy", "bind", "open"} =>
           new.image \in 1 .. Newest /\ image[new.image].key = new.key,
         new.at = "open" => runImage'[new.run] = [key |-> new.key, image |-> new.image],
         \A c \in container' :
           /\ c.run \in begun' /\ image[c.image].there
           /\ phase = "serve" => c.boot = boot
           /\ new.at # "rest" /\ c.run = new.run =>
                new.at \in {"copy", "bind", "open"} /\ c.image = new.image
  PROVE  ImagesInv'
<1>1. /\ Typed /\ "run" \in Actors /\ actor'["run"] = new /\ Me' = new
      /\ \A b \in Actors \ {"run"} : actor'[b] = actor[b]
      /\ actor' \in [Actors -> ActorType]
  BY RunKnown DEF Typed, Me
<1>2. Built' = Built /\ Newest' = Newest
  BY DEF Built, Newest
<1>3. Typed'
  BY <1>1, <1>2 DEF Typed
<1>4. \A b \in Actors : ActorOK(b)'
  BY <1>1, <1>2 DEF ImagesInv, ActorOK
<1>5. OnePreparation'
  BY <1>1 DEF ImagesInv, OnePreparation, Owned
<1>6. Quiet'
  BY <1>1 DEF ImagesInv, Quiet, Typed
<1>7. ImageRecorded'
  BY <1>1 DEF ImageRecorded
<1>8. \A c \in container' : ContainerOK(c)'
  BY <1>1 DEF ContainerOK
<1> QED BY <1>3, <1>4, <1>5, <1>6, <1>7, <1>8 DEF ImagesInv

\* A Run that begins has no container: containers are of Runs that had begun.
LEMMA RunBeginsInv ==
  ASSUME ImagesInv, NEW r \in Runs, NEW k \in Keys, RunBegins(r, k) PROVE ImagesInv'
<1> DEFINE new == [Rest EXCEPT !.at = "read", !.key = k, !.run = r]
<1>1. /\ new \in ActorType /\ new.at = "read" /\ new.key = k /\ new.run = r
      /\ new.at \notin Preparing
  BY DEF Rest, ActorType, ActorPlaces, NoImage, Preparing
<1>2. /\ actor' = [actor EXCEPT !["run"] = new] /\ phase = "serve" /\ r \notin begun
      /\ begun' = begun \union {r}
      /\ UNCHANGED <<imageRow, runImage, image, container, boot, phase>>
  BY DEF RunBegins, dockerVars
<1>3. runImage \in [Runs -> [key : Keys \union {NoKey}, image : Nat]]
      /\ container \subseteq [run : Runs, image : 1 .. Newest, boot : Nat]
  BY DEF ImagesInv, Typed
<1>4. \A c \in container : /\ c.run \in begun /\ c.run # r /\ image[c.image].there
                           /\ c.boot = boot
  BY <1>2, RunKnown DEF ContainerOK
<1> HIDE DEF new
<1> QED BY <1>1, <1>2, <1>3, <1>4, RunKnown, RunStepInv

LEMMA CreateContainerInv == ASSUME ImagesInv, CreateContainer PROVE ImagesInv'
<1> DEFINE new == ActorMoved("run", "copy", Me.image)
           mine == [run |-> Me.run, image |-> Me.image, boot |-> boot]
<1>1. /\ Me.at = "create" /\ Set("run", "copy") /\ Present(Me.image)
      /\ container' = container \union {mine}
      /\ UNCHANGED <<imageRow, runImage, image, boot, phase, begun>>
  BY DEF CreateContainer, processVars
<1>2. actor' = [actor EXCEPT !["run"] = new]
  BY <1>1, RunKnown, SetMoves DEF Me
<1>3. /\ new \in ActorType /\ new.at = "copy" /\ new.image = Me.image
      /\ new.key = Me.key /\ new.run = Me.run
  BY <1>1, RunKnown, MovedFields DEF ActorPlaces, Me
<1>4. mine \in [run : Runs, image : 1 .. Newest, boot : Nat] /\ image[Me.image].there
  BY <1>1, RunKnown DEF Present
<1>5. \A c \in container :
        /\ c.run \in begun /\ image[c.image].there /\ c.boot = boot /\ c.run # Me.run
  BY <1>1, RunKnown DEF ContainerOK
<1>6. runImage \in [Runs -> [key : Keys \union {NoKey}, image : Nat]]
      /\ container \subseteq [run : Runs, image : 1 .. Newest, boot : Nat]
  BY DEF ImagesInv, Typed
<1>7. new.at \notin Preparing /\ new.at # "open"
  BY <1>3 DEF Preparing
<1>8. ASSUME NEW c \in container'
      PROVE  /\ c.run \in begun' /\ image[c.image].there
             /\ phase = "serve" => c.boot = boot
             /\ new.at # "rest" /\ c.run = new.run =>
                  new.at \in {"copy", "bind", "open"} /\ c.image = new.image
  BY <1>1, <1>3, <1>4, <1>5, RunKnown
<1> HIDE DEF new, mine
<1> QED BY <1>1, <1>2, <1>3, <1>4, <1>6, <1>7, <1>8, RunKnown, RunStepInv

LEMMA BindInv == ASSUME ImagesInv, Bind PROVE ImagesInv'
<1> DEFINE new == ActorMoved("run", "open", Me.image)
           pin == [key |-> Me.key, image |-> Me.image]
<1>1. /\ Me.at = "bind" /\ Set("run", "open")
      /\ runImage' = [runImage EXCEPT ![Me.run] = pin]
      /\ UNCHANGED <<imageRow, image, container, boot, phase, begun>>
  BY DEF Bind, dockerVars, processVars
<1>2. actor' = [actor EXCEPT !["run"] = new]
  BY <1>1, RunKnown, SetMoves DEF Me
<1>3. /\ new \in ActorType /\ new.at = "open" /\ new.image = Me.image
      /\ new.key = Me.key /\ new.run = Me.run /\ new.at \notin Preparing
  BY <1>1, RunKnown, MovedFields DEF ActorPlaces, Me, Preparing
<1>4. /\ runImage \in [Runs -> [key : Keys \union {NoKey}, image : Nat]]
      /\ container \subseteq [run : Runs, image : 1 .. Newest, boot : Nat]
  BY DEF ImagesInv, Typed
<1>5. Me.run \in Runs /\ pin \in [key : Keys \union {NoKey}, image : Nat]
  BY <1>1, RunKnown
<1> HIDE DEF pin
<1>6. runImage' \in [Runs -> [key : Keys \union {NoKey}, image : Nat]] /\ runImage'[Me.run] = pin
  BY <1>1, <1>4, <1>5
<1>7. ASSUME NEW c \in container'
      PROVE  /\ c.run \in begun' /\ image[c.image].there
             /\ phase = "serve" => c.boot = boot
             /\ new.at # "rest" /\ c.run = new.run =>
                  new.at \in {"copy", "bind", "open"} /\ c.image = new.image
  BY <1>1, <1>3, RunKnown DEF ContainerOK
<1>8. runImage'[new.run] = [key |-> new.key, image |-> new.image]
  BY <1>3, <1>6 DEF pin
<1>9. /\ new.at # "rest" => phase = "serve" /\ new.key \in Keys /\ new.run \in begun'
      /\ new.image \in 1 .. Newest /\ image[new.image].key = new.key
      /\ container' \subseteq [run : Runs, image : 1 .. Newest, boot : Nat]
      /\ begun \subseteq begun' /\ begun' \subseteq Runs
  BY <1>1, <1>3, <1>4, RunKnown
<1> HIDE DEF new
<1> QED BY <1>1, <1>2, <1>3, <1>6, <1>7, <1>8, <1>9, RunStepInv

\* The session ends, with its container or without.
LEMMA SessionEndsInv ==
  ASSUME ImagesInv, SessionFails \/ CloseSession
  PROVE  ImagesInv'
<1>1. /\ Leave("run") /\ container' \subseteq container
      /\ UNCHANGED <<imageRow, runImage, image, boot, phase, begun>>
  BY DEF SessionFails, CloseSession, Removes, processVars
<1>2. /\ runImage \in [Runs -> [key : Keys \union {NoKey}, image : Nat]]
      /\ container \subseteq [run : Runs, image : 1 .. Newest, boot : Nat]
  BY DEF ImagesInv, Typed
<1>3. Rest.at \notin {"have", "create", "copy", "bind", "open"} /\ Rest.at \notin Preparing
  BY RestOK DEF Preparing
<1>4. \A c \in container' : /\ c.run \in begun' /\ image[c.image].there
                            /\ phase = "serve" => c.boot = boot
  BY <1>1, RunKnown DEF ContainerOK
<1>5. \A c \in container' :
        /\ c.run \in begun' /\ image[c.image].there
        /\ phase = "serve" => c.boot = boot
        /\ Rest.at # "rest" /\ c.run = Rest.run =>
             Rest.at \in {"copy", "bind", "open"} /\ c.image = Rest.image
  BY <1>4, RestOK
<1>6. /\ actor' = [actor EXCEPT !["run"] = Rest] /\ Rest \in ActorType
      /\ runImage' \in [Runs -> [key : Keys \union {NoKey}, image : Nat]]
      /\ container' \subseteq [run : Runs, image : 1 .. Newest, boot : Nat]
      /\ begun \subseteq begun' /\ begun' \subseteq Runs
      /\ Rest.at = "rest" /\ Rest.at # "open"
  BY <1>1, <1>2, RestOK, RunKnown DEF Leave
<1> QED BY <1>1, <1>3, <1>5, <1>6, RunStepInv

LEMMA SessionInv == ASSUME ImagesInv, Session PROVE ImagesInv'
<1>1. CASE RunSourceReady
  <2>1. /\ Me.at = "have" /\ Set("run", "create") /\ "create" \in ActorPlaces \ {"rest"}
        /\ UNCHANGED <<imageRow, runImage, image, container, boot, phase, begun>>
    BY <1>1 DEF RunSourceReady, dockerVars, processVars, ActorPlaces
  <2>2. actor' = [actor EXCEPT !["run"] = ActorMoved("run", "create", Me.image)]
    BY <2>1, RunKnown, SetMoves DEF Me
  <2> QED BY <2>1, <2>2, RunKnown, MovesInv DEF Preparing, Me
<1>2. CASE StartContainer
  <2>1. /\ Me.at = "copy" /\ Set("run", "bind") /\ "bind" \in ActorPlaces \ {"rest"}
        /\ UNCHANGED <<imageRow, runImage, image, container, boot, phase, begun>>
    BY <1>2 DEF StartContainer, dockerVars, processVars, ActorPlaces
  <2>2. actor' = [actor EXCEPT !["run"] = ActorMoved("run", "bind", Me.image)]
    BY <2>1, RunKnown, SetMoves DEF Me
  <2> QED BY <2>1, <2>2, RunKnown, MovesInv DEF Preparing, Me
<1> QED BY <1>1, <1>2, CreateContainerInv, BindInv, SessionEndsInv DEF Session

-----------------------------------------------------------------------------
(***************************************************************************)
(* The process and Docker.                                                 *)
(***************************************************************************)
\* Images may go when no container needs them; nothing else of them changes.
LEMMA ImagesGo ==
  ASSUME ImagesInv, image' \in [1 .. Newest -> ImageType],
         \A i \in 1 .. Newest : image'[i].key = image[i].key,
         \A c \in container : image'[c.image].there,
         UNCHANGED <<imageRow, runImage, container, actor, boot, begun>>,
         phase' \in {phase, "serve"}, phase' # phase => container = {}
  PROVE  ImagesInv'
<1>1. Typed
  BY DEF ImagesInv
<1>2. Built' = Built /\ Newest' = Newest
  BY <1>1 DEF Typed, Built, Newest
<1>3. Typed'
  BY <1>1, <1>2 DEF Typed
<1>4. \A b \in Actors : ActorOK(b)'
  BY <1>2 DEF ImagesInv, ActorOK
<1>5. OnePreparation' /\ ImageRecorded' /\ Quiet'
  BY DEF ImagesInv, OnePreparation, Owned, ImageRecorded, Quiet, Me
<1>6. \A c \in container : ContainerOK(c)'
  BY DEF ImagesInv, ContainerOK, Me
<1> QED BY <1>3, <1>4, <1>5, <1>6 DEF ImagesInv

LEMMA ImageLostInv == ASSUME ImagesInv, NEW i \in Built, ImageLost(i) PROVE ImagesInv'
<1>1. /\ image \in [1 .. Newest -> ImageType] /\ i \in 1 .. Newest
      /\ container \subseteq [run : Runs, image : 1 .. Newest, boot : Nat]
  BY DEF ImagesInv, Typed, Built
<1>2. /\ image' = [image EXCEPT ![i].there = FALSE]
      /\ \A c \in container : c.image # i
      /\ UNCHANGED <<imageRow, runImage, container, actor, boot, phase, begun>>
  BY DEF ImageLost, InUse, processVars
<1>3. image' \in [1 .. Newest -> ImageType] /\ \A j \in 1 .. Newest : image'[j].key = image[j].key
  BY <1>1, <1>2 DEF ImageType
<1>4. ASSUME NEW c \in container PROVE image'[c.image].there
  <2>1. c.image \in 1 .. Newest /\ image[c.image].there
    BY RunKnown DEF ContainerOK
  <2>2. image'[c.image] = image[c.image]
    BY <1>1, <1>2, <2>1
  <2> QED BY <2>1, <2>2
<1>5. \A c \in container : image'[c.image].there
  BY <1>4
<1>6. /\ UNCHANGED <<imageRow, runImage, container, actor, boot, begun>>
      /\ phase' \in {phase, "serve"} /\ phase' = phase
  BY <1>2
<1> QED BY <1>3, <1>5, <1>6, ImagesGo

LEMMA RemoveImagesInv == ASSUME ImagesInv, RemoveImages PROVE ImagesInv'
<1>1. image \in [1 .. Newest -> ImageType] /\ Built = 1 .. Newest
  BY DEF ImagesInv, Typed, Built
<1>2. /\ image' = [i \in Built |-> [image[i] EXCEPT !.there = @ /\ ~Reclaimable(i)]]
      /\ container = {} /\ phase' = "serve"
      /\ UNCHANGED <<imageRow, runImage, container, actor, boot, begun>>
  BY DEF RemoveImages
<1>3. image' \in [1 .. Newest -> ImageType] /\ \A j \in 1 .. Newest : image'[j].key = image[j].key
  <2>1. ASSUME NEW i \in 1 .. Newest
        PROVE  /\ image'[i] \in ImageType /\ image'[i].key = image[i].key
    <3> DEFINE stays == image[i].there /\ ~Reclaimable(i)
    <3>1. stays \in BOOLEAN /\ image[i] \in ImageType
      BY <1>1
    <3>2. image'[i] = [image[i] EXCEPT !.there = stays]
      BY <1>1, <1>2
    <3> HIDE DEF stays
    <3> QED BY <3>1, <3>2 DEF ImageType
  <2>2. image' = [i \in 1 .. Newest |-> image'[i]]
    BY <1>1, <1>2
  <2> QED BY <2>1, <2>2
<1>4. \A c \in container : image'[c.image].there
  BY <1>2
<1> QED BY <1>2, <1>3, <1>4, ImagesGo

LEMMA RemoveContainersInv == ASSUME ImagesInv, RemoveContainers PROVE ImagesInv'
<1>1. /\ container' = {}
      /\ UNCHANGED <<imageRow, runImage, image, actor, boot, phase, begun>>
  BY DEF RemoveContainers, processVars
<1>2. Built' = Built /\ Newest' = Newest
  BY <1>1 DEF Built, Newest
<1>3. Typed'
  BY <1>1, <1>2 DEF ImagesInv, Typed
<1>4. \A b \in Actors : ActorOK(b)'
  BY <1>1, <1>2 DEF ImagesInv, ActorOK
<1>5. OnePreparation' /\ ImageRecorded' /\ Quiet'
  BY <1>1 DEF ImagesInv, OnePreparation, Owned, ImageRecorded, Quiet, Me
<1> QED BY <1>1, <1>3, <1>4, <1>5 DEF ImagesInv

LEMMA ProcessEndsInv == ASSUME ImagesInv, ProcessEnds PROVE ImagesInv'
<1>1. /\ boot' = boot + 1 /\ phase' = "reclaim" /\ actor' = [a \in Actors |-> Rest]
      /\ UNCHANGED <<imageRow, runImage, image, container, begun>>
  BY DEF ProcessEnds, dockerVars
<1>2. Built' = Built /\ Newest' = Newest
  BY <1>1 DEF Built, Newest
<1>3. Rest \in ActorType /\ \A a \in Actors : actor'[a] = Rest
  BY <1>1, RestOK
<1>4. Typed'
  BY <1>1, <1>2, <1>3 DEF ImagesInv, Typed
<1>5. \A b \in Actors : ActorOK(b)'
  BY <1>3, RestOK DEF ActorOK
<1>6. OnePreparation' /\ ImageRecorded' /\ Quiet' /\ Me' = Rest
  BY <1>3, RestOK DEF OnePreparation, ImageRecorded, Quiet, Me, Preparing, Actors
<1>7. \A c \in container : ContainerOK(c)'
  BY <1>1, <1>6, RestOK DEF ImagesInv, ContainerOK
<1> QED BY <1>1, <1>4, <1>5, <1>6, <1>7 DEF ImagesInv

LEMMA ImagesStep == ImagesInv /\ [ImagesNext]_imageVars => ImagesInv'
<1> SUFFICES ASSUME ImagesInv, [ImagesNext]_imageVars PROVE ImagesInv'
  OBVIOUS
<1>1. CASE UNCHANGED imageVars
  <2>1. UNCHANGED <<imageRow, runImage, image, container, actor, boot, phase, begun>>
    BY <1>1 DEF imageVars
  <2>2. Built' = Built /\ Newest' = Newest
    BY <2>1 DEF Built, Newest
  <2>3. Typed' /\ (\A a \in Actors : ActorOK(a)') /\ (\A c \in container : ContainerOK(c)')
    BY <2>1, <2>2 DEF ImagesInv, Typed, ActorOK, ContainerOK, Me
  <2>4. OnePreparation' /\ ImageRecorded' /\ Quiet'
    BY <2>1 DEF ImagesInv, OnePreparation, Owned, ImageRecorded, Quiet, Me
  <2> QED BY <2>1, <2>3, <2>4 DEF ImagesInv
<1>2. CASE \E k \in Keys : AdminBegins(k)
  BY <1>2, AdminBeginsInv
<1>3. CASE \E r \in Runs, k \in Keys : RunBegins(r, k)
  BY <1>3, RunBeginsInv
<1>4. CASE \E a \in Actors : Prepare(a)
  BY <1>4, PrepareInv
<1>5. CASE AdminEnds \/ Session
  BY <1>5, AdminEndsInv, SessionInv
<1>6. CASE Recover \/ ProcessEnds
  BY <1>6, RemoveContainersInv, RemoveImagesInv, ProcessEndsInv DEF Recover
<1>7. CASE \E i \in Built : ImageLost(i)
  BY <1>7, ImageLostInv
<1> QED BY <1>1, <1>2, <1>3, <1>4, <1>5, <1>6, <1>7 DEF ImagesNext

-----------------------------------------------------------------------------
LEMMA ImagesInvHolds == ImagesSpec => []ImagesInv
BY InvInit, ImagesStep, PTL DEF ImagesSpec

\* What a Run's commands run in is what its record names, was built for its
\* commit and definition, and is still there.
THEOREM SessionImageRecordedCorrect == ImagesSpec => []SessionImageRecorded
<1>1. ASSUME ImagesInv PROVE SessionImageRecorded
  <2> SUFFICES ASSUME Me.at = "open"
               PROVE  /\ runImage[Me.run] = [key |-> Me.key, image |-> Me.image]
                      /\ \A c \in MyContainers : c.image = Me.image /\ Genuine(c.image, Me.key)
    BY DEF SessionImageRecorded
  <2>1. runImage[Me.run] = [key |-> Me.key, image |-> Me.image]
    BY <1>1 DEF ImagesInv, ImageRecorded
  <2>2. ASSUME NEW c \in MyContainers PROVE c.image = Me.image /\ Genuine(c.image, Me.key)
    <3>1. c \in container /\ c.run = Me.run /\ c.image = Me.image /\ image[c.image].there
      BY <1>1, RunKnown DEF MyContainers, ContainerOK
    <3>2. c.image \in Built /\ image[c.image].key = Me.key
      BY <1>1, <3>1, RunKnown DEF Typed, Built
    <3> QED BY <3>1, <3>2 DEF Genuine, Present
  <2> QED BY <2>1, <2>2
<1> QED BY <1>1, ImagesInvHolds, PTL

\* A key is prepared by one actor at a time, and its row says so.
THEOREM OnePreparationCorrect == ImagesSpec => []OnePreparation
<1>1. ImagesInv => OnePreparation
  BY DEF ImagesInv
<1> QED BY <1>1, ImagesInvHolds, PTL

\* No container of an earlier process while the server serves.
THEOREM NoOldContainerCorrect == ImagesSpec => []NoOldContainer
<1>1. ImagesInv => NoOldContainer
  BY DEF ImagesInv, ContainerOK, NoOldContainer
<1> QED BY <1>1, ImagesInvHolds, PTL

\* A Run's commands run in the image its record names, one actor prepares a key and no old container
\* is left (projects/image-preparation.ts).
THEOREM OneImagePerRunCorrect == ImagesSpec => []OneImagePerRun
<1>1. SessionImageRecorded /\ OnePreparation /\ NoOldContainer => OneImagePerRun
  BY DEF OneImagePerRun
<1> QED BY <1>1, SessionImageRecordedCorrect, OnePreparationCorrect, NoOldContainerCorrect, PTL

-----------------------------------------------------------------------------
(***************************************************************************)
(* The bounds: only a build gives out a new number, and every other number *)
(* is one that was there.                                                  *)
(***************************************************************************)
\* The images built and the numbers others keep of them stay within the bounds.
ImageNumbers ==
  /\ Newest <= MaxImage /\ boot \in 1 .. MaxBoot /\ losses \in 0 .. MaxLoss
  /\ \A k \in Keys : imageRow[k].image <= MaxImage
  /\ \A r \in Runs : runImage[r].image <= MaxImage
  /\ \A a \in Actors : actor[a].image <= MaxImage
  /\ \A c \in container : c.boot \in 1 .. MaxBoot

\* Where a step takes image numbers, boots and losses from.
RowsDrawn == \A k \in Keys : \/ imageRow'[k].image \in {NoImage, imageRow[k].image}
                             \/ \E a \in Actors : imageRow'[k].image = actor[a].image
PinsDrawn == \A r \in Runs : \/ runImage'[r].image = runImage[r].image
                             \/ \E a \in Actors : runImage'[r].image = actor[a].image
ActorsDrawn == \A a \in Actors : \/ actor'[a].image \in {NoImage, actor[a].image, Newest'}
                                 \/ \E k \in Keys : actor'[a].image = imageRow[k].image
ContainersDrawn == \A c \in container' : c \in container \/ c.boot = boot
Counted == /\ boot' = boot \/ (boot < MaxBoot /\ boot' = boot + 1)
           /\ losses' = losses \/ (losses < MaxLoss /\ losses' = losses + 1)
           /\ Newest' = Newest \/ (Newest < MaxImage /\ Newest' = Newest + 1)

LEMMA ImageNumbersStart == ImagesInit => ImageNumbers
<1> SUFFICES ASSUME ImagesInit PROVE ImageNumbers
  OBVIOUS
<1>1. Newest = 0
  <2>1. DOMAIN image = {}
    BY DEF ImagesInit
  <2> QED BY <2>1, FS_EmptySet DEF Newest, Built
<1>2. \A a \in Actors : actor[a].image = 0
  BY DEF ImagesInit, Rest, NoImage
<1> QED BY <1>1, <1>2, ImagesAssumption DEF ImagesInit, ImageNumbers, NoImage

LEMMA DrawnKeeps ==
  ASSUME ImagesInv, ImageNumbers, RowsDrawn, PinsDrawn, ActorsDrawn, ContainersDrawn, Counted
  PROVE  ImageNumbers'
<1> USE ImagesAssumption
<1>1. /\ Newest \in Nat /\ boot \in Nat /\ losses \in Nat
      /\ Newest' <= MaxImage /\ boot' \in 1 .. MaxBoot /\ losses' \in 0 .. MaxLoss
  BY DEF ImagesInv, Typed, ImageNumbers, Counted
<1>2. \A k \in Keys : imageRow'[k].image <= MaxImage
  BY DEF ImageNumbers, RowsDrawn, NoImage
<1>3. \A r \in Runs : runImage'[r].image <= MaxImage
  BY DEF ImageNumbers, PinsDrawn
<1>4. \A a \in Actors : actor'[a].image <= MaxImage
  BY <1>1 DEF ImageNumbers, ActorsDrawn, NoImage
<1>5. \A c \in container' : c.boot \in 1 .. MaxBoot
  BY DEF ImageNumbers, ContainersDrawn
<1> QED BY <1>1, <1>2, <1>3, <1>4, <1>5 DEF ImageNumbers

\* Only Build gives an image a new number.
LEMMA SameNumbers ==
  /\ UNCHANGED image => Newest' = Newest
  /\ Built' = Built => Newest' = Newest
BY DEF Newest, Built

LEMMA ActorsDrawnBy ==
  ASSUME Typed, NEW a \in Actors, NEW new, actor' = [actor EXCEPT ![a] = new],
         \/ new.image \in {NoImage, actor[a].image, Newest'}
         \/ \E k \in Keys : new.image = imageRow[k].image
  PROVE  ActorsDrawn
BY DEF Typed, ActorsDrawn

LEMMA SetDraws == ASSUME Typed, NEW a \in Actors, NEW at, Set(a, at) PROVE ActorsDrawn
<1>1. actor[a] \in ActorType
  BY DEF Typed
<1>2. [actor[a] EXCEPT !.at = at].image = actor[a].image
  BY <1>1 DEF ActorType
<1> QED BY <1>2, ActorsDrawnBy DEF Set

LEMMA LeaveDraws == ASSUME Typed, NEW a \in Actors, Leave(a) PROVE ActorsDrawn
BY ActorsDrawnBy DEF Leave, Rest

LEMMA PreparesWithinNumbers ==
  ASSUME ImagesInv, ImageNumbers, NEW a \in Actors, Prepare(a) PROVE ImageNumbers'
<1> DEFINE k == actor[a].key
<1>1. Typed /\ actor[a] \in ActorType
  BY DEF ImagesInv, Typed
<1>2. actor[a].at # "rest" => k \in Keys
  BY DEF ImagesInv, ActorOK
<1>3. UNCHANGED <<runImage, container, boot>> /\ losses' = losses
  BY DEF Prepare, ReadRow, Inspect, Begin, SourceReady, Build, Check, PreparationFails,
         DockerUnavailable, dockerVars, processVars
<1>4. PinsDrawn /\ ContainersDrawn
  BY <1>3 DEF PinsDrawn, ContainersDrawn
<1>5. ASSUME UNCHANGED image PROVE Counted /\ Newest' = Newest
  BY <1>3, <1>5, SameNumbers DEF Counted
<1>6. UNCHANGED imageRow => RowsDrawn
  BY DEF RowsDrawn
<1>7. ASSUME NEW status, NEW i, k \in Keys, i \in {NoImage, actor[a].image},
             imageRow' = [imageRow EXCEPT ![k] = [status |-> status, image |-> i]]
      PROVE  RowsDrawn
  BY <1>1, <1>7 DEF RowsDrawn, Typed
<1>8. CASE ReadRow(a)
  <2>1. UNCHANGED <<imageRow, image>> /\ k \in Keys
    BY <1>2, <1>8 DEF ReadRow, dockerVars
  <2>2. CASE imageRow[k].status = "ready"
    <3> DEFINE new == [actor[a] EXCEPT !.at = "inspect", !.image = imageRow[k].image]
    <3>1. actor' = [actor EXCEPT ![a] = new]
      BY <1>8, <2>2 DEF ReadRow
    <3>2. new.image = imageRow[k].image
      BY <1>1 DEF ActorType
    <3> QED BY <1>1, <1>4, <1>5, <1>6, <2>1, <3>1, <3>2, ActorsDrawnBy, DrawnKeeps
  <2>3. CASE imageRow[k].status # "ready"
    BY <1>1, <1>4, <1>5, <1>6, <1>8, <2>1, <2>3, SetDraws, DrawnKeeps DEF ReadRow
  <2> QED BY <2>2, <2>3
<1>9. CASE Inspect(a)
  <2>1. UNCHANGED <<imageRow, image>>
    BY <1>9 DEF Inspect, dockerVars
  <2>2. CASE Genuine(actor[a].image, k)
    BY <1>1, <1>4, <1>5, <1>6, <1>9, <2>1, <2>2, SetDraws, DrawnKeeps DEF Inspect
  <2>3. CASE ~Genuine(actor[a].image, k)
    <3> DEFINE new == [actor[a] EXCEPT !.at = "docker", !.image = NoImage]
    <3>1. actor' = [actor EXCEPT ![a] = new]
      BY <1>9, <2>3 DEF Inspect
    <3>2. new.image = NoImage
      BY <1>1 DEF ActorType
    <3> QED BY <1>1, <1>4, <1>5, <1>6, <2>1, <3>1, <3>2, ActorsDrawnBy, DrawnKeeps
  <2> QED BY <2>2, <2>3
<1>10. CASE Begin(a)
  <2>1. UNCHANGED image /\ k \in Keys
    BY <1>2, <1>10 DEF Begin, dockerVars
  <2>2. RowsDrawn
    BY <1>6, <1>7, <1>10, <2>1 DEF Begin
  <2>3. ActorsDrawn
    BY <1>1, <1>10, SetDraws, LeaveDraws DEF Begin
  <2> QED BY <1>4, <1>5, <2>1, <2>2, <2>3, DrawnKeeps
<1>11. CASE SourceReady(a)
  <2>1. UNCHANGED <<imageRow, image>> /\ ActorsDrawn
    BY <1>1, <1>11, SetDraws DEF SourceReady, dockerVars
  <2> QED BY <1>4, <1>5, <1>6, <2>1, DrawnKeeps
<1>12. CASE Build(a)
  <2>1. Built' = 1 .. Newest + 1 /\ Newest \in Nat /\ UNCHANGED imageRow /\ Newest < MaxImage
    BY <1>1, <1>12 DEF Build, Built, Typed
  <2>2. Newest' = Newest + 1
    <3>1. Newest + 1 \in Int /\ 1 \in Int /\ ~(1 > Newest + 1)
      BY <2>1
    <3>2. Cardinality(1 .. Newest + 1) = Newest + 1
      BY <2>1, <3>1, FS_Interval
    <3>3. Newest' = Cardinality(Built')
      BY DEF Newest
    <3> QED BY <2>1, <3>2, <3>3
  <2>3. Counted
    BY <1>3, <2>1, <2>2 DEF Counted
  <2> DEFINE new == [actor[a] EXCEPT !.at = "check", !.image = Newest + 1]
  <2>4. actor' = [actor EXCEPT ![a] = new]
    BY <1>12 DEF Build
  <2>5. new.image = Newest'
    BY <1>1, <2>2 DEF ActorType
  <2> QED BY <1>1, <1>4, <1>6, <2>1, <2>3, <2>4, <2>5, ActorsDrawnBy, DrawnKeeps
<1>13. CASE Check(a)
  <2>1. UNCHANGED image /\ k \in Keys
    BY <1>2, <1>13 DEF Check, dockerVars
  <2>2. RowsDrawn
    BY <1>7, <1>13, <2>1 DEF Check, MarkReady, MarkFailed
  <2>3. ActorsDrawn
    BY <1>1, <1>13, SetDraws, LeaveDraws DEF Check
  <2> QED BY <1>4, <1>5, <2>1, <2>2, <2>3, DrawnKeeps
<1>14. CASE PreparationFails(a)
  <2>1. UNCHANGED image /\ k \in Keys
    BY <1>2, <1>14 DEF PreparationFails, Preparing, dockerVars
  <2>2. RowsDrawn /\ ActorsDrawn
    BY <1>1, <1>7, <1>14, <2>1, LeaveDraws DEF PreparationFails, MarkFailed
  <2> QED BY <1>4, <1>5, <2>1, <2>2, DrawnKeeps
<1>15. CASE DockerUnavailable(a)
  <2>1. UNCHANGED <<imageRow, image>> /\ ActorsDrawn
    BY <1>1, <1>15, LeaveDraws DEF DockerUnavailable, dockerVars
  <2> QED BY <1>4, <1>5, <1>6, <2>1, DrawnKeeps
<1> QED BY <1>8, <1>9, <1>10, <1>11, <1>12, <1>13, <1>14, <1>15 DEF Prepare

\* Every other step leaves the image rows alone and builds nothing.
LEMMA OthersWithinNumbers ==
  ASSUME ImagesInv, ImageNumbers, UNCHANGED imageRow, Newest' = Newest,
         PinsDrawn, ActorsDrawn, ContainersDrawn, UNCHANGED boot,
         losses' = losses \/ (losses < MaxLoss /\ losses' = losses + 1)
  PROVE  ImageNumbers'
BY DrawnKeeps DEF RowsDrawn, Counted

LEMMA SessionWithinNumbers ==
  ASSUME ImagesInv, ImageNumbers, Session PROVE ImageNumbers'
<1>1. Typed /\ "run" \in Actors
  BY DEF ImagesInv, Actors
<1>2. UNCHANGED <<imageRow, image, boot>> /\ Newest' = Newest
  <2>1. UNCHANGED <<imageRow, image, boot>>
    BY DEF Session, RunSourceReady, CreateContainer, StartContainer, Bind, SessionFails,
           CloseSession, dockerVars, processVars
  <2> QED BY <2>1, SameNumbers
<1>3. ActorsDrawn
  BY <1>1, SetDraws, LeaveDraws
     DEF Session, RunSourceReady, CreateContainer, StartContainer, Bind, SessionFails, CloseSession
<1>4. losses' = losses \/ (losses < MaxLoss /\ losses' = losses + 1)
  BY DEF Session, RunSourceReady, CreateContainer, StartContainer, Bind, SessionFails,
         CloseSession, Removes
<1>5. ContainersDrawn
  BY DEF Session, RunSourceReady, CreateContainer, StartContainer, Bind, SessionFails,
         CloseSession, Removes, dockerVars, ContainersDrawn
<1>6. PinsDrawn
  <2>1. UNCHANGED runImage \/ Bind
    BY DEF Session, RunSourceReady, CreateContainer, StartContainer, SessionFails, CloseSession
  <2>2. CASE Bind
    <3>1. runImage' = [runImage EXCEPT ![Me.run] = [key |-> Me.key, image |-> Me.image]]
      BY <2>2 DEF Bind
    <3> QED BY <1>1, <3>1 DEF PinsDrawn, Typed, Me
  <2> QED BY <2>1, <2>2 DEF PinsDrawn
<1> QED BY <1>2, <1>3, <1>4, <1>5, <1>6, OthersWithinNumbers

LEMMA ImageNumbersStep ==
  ASSUME ImagesInv, ImageNumbers, [ImagesNext]_imageVars PROVE ImageNumbers'
<1>1. Typed /\ "run" \in Actors /\ "admin" \in Actors /\ Rest.image = NoImage
  BY DEF ImagesInv, Actors, Rest
<1>2. ASSUME UNCHANGED runImage PROVE PinsDrawn
  BY <1>2 DEF PinsDrawn
<1>3. ASSUME container' \subseteq container PROVE ContainersDrawn
  BY <1>3 DEF ContainersDrawn
<1>4. ASSUME UNCHANGED actor PROVE ActorsDrawn
  BY <1>4 DEF ActorsDrawn
<1>5. ASSUME NEW k \in Keys, AdminBegins(k) PROVE ImageNumbers'
  <2> DEFINE new == [Rest EXCEPT !.at = "read", !.key = k]
  <2>1. actor' = [actor EXCEPT !["admin"] = new] /\ new.image = NoImage
    BY <1>5 DEF AdminBegins, Rest
  <2>2. UNCHANGED <<imageRow, runImage, image, container, boot, losses>>
    BY <1>5 DEF AdminBegins, dockerVars
  <2> QED BY <1>1, <1>2, <1>3, <2>1, <2>2, ActorsDrawnBy, SameNumbers, OthersWithinNumbers
<1>6. ASSUME NEW r \in Runs, NEW k \in Keys, RunBegins(r, k) PROVE ImageNumbers'
  <2> DEFINE new == [Rest EXCEPT !.at = "read", !.key = k, !.run = r]
  <2>1. actor' = [actor EXCEPT !["run"] = new] /\ new.image = NoImage
    BY <1>6 DEF RunBegins, Rest
  <2>2. UNCHANGED <<imageRow, runImage, image, container, boot, losses>>
    BY <1>6 DEF RunBegins, dockerVars
  <2> QED BY <1>1, <1>2, <1>3, <2>1, <2>2, ActorsDrawnBy, SameNumbers, OthersWithinNumbers
<1>7. CASE AdminEnds
  <2>1. Leave("admin") /\ UNCHANGED <<imageRow, runImage, image, container, boot, losses>>
    BY <1>7 DEF AdminEnds, dockerVars, processVars
  <2> QED BY <1>1, <1>2, <1>3, <2>1, LeaveDraws, SameNumbers, OthersWithinNumbers
<1>8. CASE Recover
  <2>1. /\ UNCHANGED <<imageRow, runImage, actor, boot, losses>> /\ container' \subseteq container
        /\ Built' = Built
    BY <1>8 DEF Recover, RemoveContainers, RemoveImages, processVars, Built
  <2> QED BY <1>2, <1>3, <1>4, <2>1, SameNumbers, OthersWithinNumbers
<1>9. CASE ProcessEnds
  <2>1. /\ UNCHANGED <<imageRow, runImage, image, container, losses>>
        /\ boot < MaxBoot /\ boot' = boot + 1 /\ actor' = [a \in Actors |-> Rest]
    BY <1>9 DEF ProcessEnds, dockerVars
  <2>2. ActorsDrawn /\ Counted /\ RowsDrawn
    BY <1>1, <2>1, SameNumbers DEF ActorsDrawn, Counted, RowsDrawn
  <2> QED BY <1>2, <1>3, <2>1, <2>2, DrawnKeeps
<1>10. ASSUME NEW i \in Built, ImageLost(i) PROVE ImageNumbers'
  <2>1. /\ UNCHANGED <<imageRow, runImage, container, actor, boot>> /\ Built' = Built
        /\ losses < MaxLoss /\ losses' = losses + 1
    BY <1>10 DEF ImageLost, processVars, Built
  <2> QED BY <1>2, <1>3, <1>4, <2>1, SameNumbers, OthersWithinNumbers
<1>11. CASE UNCHANGED imageVars
  <2>1. UNCHANGED <<imageRow, runImage, image, container, actor, boot, losses>>
    BY <1>11 DEF imageVars
  <2> QED BY <1>2, <1>3, <1>4, <2>1, SameNumbers, OthersWithinNumbers
<1> QED BY <1>5, <1>6, <1>7, <1>8, <1>9, <1>10, <1>11, PreparesWithinNumbers,
           SessionWithinNumbers DEF ImagesNext

LEMMA ImagesTypes == ImagesInv /\ ImageNumbers => ImagesTypeOK
<1> SUFFICES ASSUME ImagesInv, ImageNumbers PROVE ImagesTypeOK
  OBVIOUS
<1> USE ImagesAssumption
<1>1. Typed /\ Newest \in Nat
  BY DEF ImagesInv, Typed
<1>2. Built = 1 .. Newest /\ \A i \in Built : image[i] \in ImageType
  BY <1>1 DEF Typed, Built
<1>3. imageRow \in [Keys -> [status : Statuses, image : 0 .. MaxImage]]
  <2>1. \A k \in Keys : imageRow[k] \in [status : Statuses, image : 0 .. MaxImage]
    BY <1>1 DEF Typed, ImageRowType, ImageNumbers
  <2> QED BY <1>1, <2>1 DEF Typed
<1>4. runImage \in [Runs -> [key : Keys \union {NoKey}, image : 0 .. MaxImage]]
  <2>1. \A r \in Runs : runImage[r] \in [key : Keys \union {NoKey}, image : 0 .. MaxImage]
    BY <1>1 DEF Typed, ImageNumbers
  <2> QED BY <1>1, <2>1 DEF Typed
<1>5. container \subseteq [run : Runs, image : Built, boot : 1 .. MaxBoot]
  BY <1>1, <1>2 DEF Typed, ImageNumbers
<1>6. \A a \in Actors : actor[a].at \in ActorPlaces
  BY <1>1 DEF Typed, ActorType
<1>7. phase \in {"reclaim", "serve"} /\ begun \subseteq Runs
  BY <1>1 DEF Typed
<1> QED BY <1>2, <1>3, <1>4, <1>5, <1>6, <1>7 DEF ImagesTypeOK, ImageNumbers, ImageType, ActorPlaces

\* The types of the images' state, with its bounds, hold in every behaviour.
LEMMA ImagesTypesHold == ImagesSpec => []ImagesTypeOK
<1>1. ImagesSpec => []ImageNumbers
  BY ImagesInvHolds, ImageNumbersStart, ImageNumbersStep, PTL DEF ImagesSpec
<1> QED BY <1>1, ImagesInvHolds, ImagesTypes, PTL
=============================================================================
