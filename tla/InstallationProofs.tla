-------------------------- MODULE InstallationProofs --------------------------
(***************************************************************************)
(* Proofs about the components around a Run, for any places, paths,        *)
(* identifiers, databases, projects, calls and bounds, and for             *)
(* Installation as a whole: a behaviour of Installation is a behaviour of  *)
(* each component.  Images and merge requests have modules of their own.   *)
(*                                                                         *)
(* The argument is the same for each component.  Its invariant joins the   *)
(* types of its state to what is checked, strengthened by what is known    *)
(* at each place a call or a process may be at, and each action keeps it:  *)
(* one lemma per action.  ProjectReadiness, GitPoller, RepositoryIndex,    *)
(* LegacyAutomation, Upgrade, WebConsole and Installation follow.          *)
(***************************************************************************)
EXTENDS Installation, MergeRequestProofs, ProjectImagesProofs, FiniteSetTheorems,
        WellFoundedInduction

-----------------------------------------------------------------------------
(***************************************************************************)
(* ProjectReadiness: a project becomes active with what was checked.  Every*)
(* number in the inputs is older than the next one, so what is present and *)
(* equal to what was there when resume began has been there all along.     *)
(***************************************************************************)
SecretNames == TaskSecrets \union {"gitToken"}
ConfigType  == [revision : Nat, baseUrl : BOOLEAN, cleanupUrl : BOOLEAN]
DepType     == [execution : 1 .. 2, oss : 1 .. 2]
OfType      == {<<>>} \union Seq(Nat) \union (Nat \X [TaskSecrets -> Nat]) \union (DepType \X Nat)
ResultType     == [status : ReadinessStatuses \union {"none"}, of : OfType, check : Nat]
BeforeType  == ConfigType \X {"active", "paused"} \X DepType \X [SecretNames -> Nat] \X Nat \X Nat
CheckPlaces == {"repository", "provider", "storage", "environment", "commit", "inspect", "resume"}
CallType    == [at : {"idle", "create"} \union CheckPlaces, resume : BOOLEAN, check : Nat,
                before : {<<>>} \union BeforeType, config : ConfigType,
                result : [Ids -> ResultType]]

InputsTyped ==
  /\ config \in ConfigType /\ secret \in [SecretNames -> Nat] /\ deployment \in DepType
  /\ depSecret \in Nat /\ readinessImage \in Nat /\ changes \in Nat
  /\ readinessStatus \in {"active", "paused"}

\* Every number is older than the next one.
Old(n)      == n < Fresh
NumbersOK   == Old(depSecret) /\ Old(readinessImage) /\ \A k \in SecretNames : Old(secret[k])
BeforeOK(b) == b \in BeforeType /\ Old(b[5]) /\ Old(b[6]) /\ \A k \in SecretNames : Old(b[4][k])

\* What is present as it was when resume began has not changed since, and was seen by the check.
Kept(now, was, found) == now /= 0 /\ now = was => found = now
Seen(i, b, of) ==
  /\ i = "repository"  => b[4]["gitToken"] /= 0 /\ of = <<b[4]["gitToken"]>>
  /\ i = "credentials" => /\ of[1] = b[1].revision
                          /\ \A k \in TaskSecrets : Kept(secret[k], b[4][k], of[2][k])
  /\ i = "deployment"  => Kept(depSecret, b[5], of[2])
  /\ i = "environment" => of = <<b[1].revision>>
  /\ i = "image"       => /\ of[1] = b[1].revision
                          /\ Kept(secret["gitToken"], b[4]["gitToken"], of[2])
                          /\ Kept(readinessImage, b[6], of[3])

RowOK(x, i, r) == /\ r \in ResultType
                  /\ r /= NoRow => r.check = x.check
                  /\ x.resume /\ r.status = "ok" => Seen(i, x.before, r.of)
Sound(x) ==
  /\ x \in CallType
  /\ x.resume => BeforeOK(x.before) /\ x.config = x.before[1]
  /\ x.at \in {"idle", "create"} => ~x.resume
  /\ x.at = "resume" => x.resume /\ \A i \in Ids : x.result[i].status = "ok"
  /\ \A i \in Ids : RowOK(x, i, x.result[i])
CallOK(x) ==
  /\ Sound(x)
  /\ x.at = "repository" => x.result["repository"] /= NoRow
  /\ x.at = "inspect" => x.result["image"] /= NoRow
CallsOK ==
  /\ call \in [Calls -> CallType] /\ \A c \in Calls : CallOK(call[c])
  /\ ~exists => \A c \in Calls : call[c].at \in {"idle", "create"}
ResultsOK == readinessRow \in [Ids -> ResultType] /\ checks \in Nat /\ RowsOfOneCheck

ReadinessInv == InputsTyped /\ NumbersOK /\ CallsOK /\ ResultsOK

LEMMA InputsType ==
  ASSUME InputsTyped, NEW i \in Ids, NEW n \in Nat
  PROVE  Inputs(i, n) \in OfType
<1>1. secret["gitToken"] \in Nat /\ [k \in TaskSecrets |-> secret[k]] \in [TaskSecrets -> Nat]
  BY DEF InputsTyped, SecretNames
<1>2. CASE i = "repository"
  BY <1>1, <1>2 DEF Inputs, OfType
<1>3. CASE i = "credentials"
  BY <1>1, <1>3 DEF Inputs, OfType
<1>4. CASE i = "deployment"
  BY <1>1, <1>4 DEF Inputs, OfType, InputsTyped
<1>5. CASE i = "environment"
  BY <1>1, <1>5 DEF Inputs, OfType
<1>6. CASE i = "image"
  <2>1. <<n, secret["gitToken"], readinessImage>> \in Seq(Nat)
    BY <1>1 DEF InputsTyped
  <2> QED BY <2>1, <1>6 DEF Inputs, OfType
<1> QED BY <1>2, <1>3, <1>4, <1>5, <1>6 DEF Ids

LEMMA Blank == /\ NoRow \in ResultType /\ NoRow.status = "none" /\ NoCall \in CallType
               /\ NoCall.at = "idle" /\ NoCall.resume = FALSE
               /\ NoCall.result = [i \in Ids |-> NoRow]
               /\ CallOK(NoCall) /\ NoCall.check = 0
<1>1. NoRow \in ResultType /\ NoRow.status = "none"
  BY DEF NoRow, ResultType, OfType
<1>2. NoCall \in CallType
  BY <1>1 DEF NoCall, CallType, ConfigType
<1>3. NoCall.at = "idle" /\ NoCall.resume = FALSE /\ NoCall.result = [i \in Ids |-> NoRow]
      /\ NoCall.check = 0
  BY DEF NoCall
<1>4. CallOK(NoCall)
  BY <1>1, <1>2, <1>3 DEF CallOK, Sound, RowOK
<1> QED BY <1>1, <1>2, <1>3, <1>4

LEMMA ResultIs ==
  ASSUME InputsTyped, NEW x \in CallType, NEW i \in Ids, NEW o \in ReadinessStatuses
  PROVE  /\ Result(x, i, o) \in ResultType /\ Result(x, i, o).check = x.check
         /\ Result(x, i, o).status = o
         /\ o = "ok" => Result(x, i, o).of = Inputs(i, x.config.revision)
<1>1. x.config.revision \in Nat /\ x.check \in Nat
  BY DEF CallType, ConfigType
<1>2. Inputs(i, x.config.revision) \in OfType /\ <<>> \in OfType
  BY <1>1, InputsType DEF OfType
<1> QED BY <1>1, <1>2 DEF Result, ResultType

\* What a result of the present moment is about has been seen, the repository's apart.
LEMMA SeenNow ==
  ASSUME InputsTyped, NEW b \in BeforeType, NEW i \in Ids, i /= "repository"
  PROVE  Seen(i, b, Inputs(i, b[1].revision))
  BY DEF Seen, Inputs, Kept, Ids, TaskSecrets

LEMMA RowNow ==
  ASSUME InputsTyped, NEW x, Sound(x), NEW i \in Ids, i /= "repository",
         NEW o \in ReadinessStatuses
  PROVE  RowOK(x, i, Result(x, i, o)) /\ Result(x, i, o).status = o
<1>1. x \in CallType
  BY DEF Sound
<1>2. x.resume => Seen(i, x.before, Inputs(i, x.config.revision))
  BY SeenNow DEF Sound, BeforeOK
<1> QED BY <1>1, <1>2, ResultIs DEF RowOK

LEMMA OutcomeOK ==
  ASSUME NEW x, NEW i, NEW r, RowOK(x, i, r), r /= NoRow, NEW o \in ReadinessStatuses
  PROVE  /\ RowOK(x, i, Outcome(r, o)) /\ Outcome(r, o).check = r.check
         /\ Outcome(r, o).status = (IF o = "ok" THEN r.status ELSE o)
<1>1. CASE o = "ok"
  BY <1>1 DEF Outcome
<1>2. CASE o /= "ok"
  <2>1. [r EXCEPT !.status = o, !.of = <<>>] \in ResultType
    BY DEF RowOK, ResultType, OfType
  <2>2. /\ [r EXCEPT !.status = o, !.of = <<>>].check = r.check
        /\ [r EXCEPT !.status = o, !.of = <<>>].status = o
    BY DEF RowOK, ResultType
  <2> QED BY <1>2, <2>1, <2>2 DEF Outcome, RowOK
<1> QED BY <1>1, <1>2

\* A call goes on with results that are in order.
Ready(x, at, R) ==
  /\ Sound(x)
  /\ at \in CheckPlaces
  /\ R \in [Ids -> ResultType]
  /\ \A i \in Ids : RowOK(x, i, R[i])
  /\ at = "resume" => x.resume /\ \A i \in Ids : R[i].status = "ok"
  /\ at = "repository" => R["repository"] /= NoRow
  /\ at = "inspect" => R["image"] /= NoRow

LEMMA CallGoes ==
  ASSUME NEW x, NEW at, NEW R, Ready(x, at, R)
  PROVE  CallOK([x EXCEPT !.at = at, !.result = R]) /\ [x EXCEPT !.at = at, !.result = R].at = at
<1> DEFINE y == [x EXCEPT !.at = at, !.result = R]
<1>1. /\ y \in CallType /\ y.at = at /\ y.resume = x.resume /\ y.check = x.check
      /\ y.before = x.before /\ y.config = x.config /\ y.result = R
  BY DEF Ready, Sound, CallType
<1> HIDE DEF y
<1>2. CallOK(y)
  BY <1>1 DEF Ready, CallOK, Sound, RowOK, CheckPlaces
<1> QED BY <1>1, <1>2 DEF y

\* A written value is absent or new, so no value comes back that was there before.
Renewed(new, was) == new = was \/ new = 0 \/ ~Old(new)

LEMMA CallStays ==
  ASSUME InputsTyped, InputsTyped', changes <= changes',
         \A k \in SecretNames : Renewed(secret'[k], secret[k]), Renewed(depSecret', depSecret),
         Renewed(readinessImage', readinessImage),
         NEW z, CallOK(z)
  PROVE  CallOK(z)'
<1>1. ASSUME NEW n \in Nat, Old(n) PROVE Old(n)'
  <2>1. changes \in Nat /\ changes' \in Nat /\ n < changes + 2
    BY <1>1 DEF InputsTyped, Old, Fresh
  <2>2. \A x, y \in Nat : x <= y /\ n < x + 2 => n < y + 2
    OBVIOUS
  <2>3. n < changes' + 2
    BY <2>1, <2>2
  <2> QED BY <2>3 DEF Old, Fresh
<1>2. ASSUME NEW b, BeforeOK(b) PROVE BeforeOK(b)'
  <2>1. b[5] \in Nat /\ b[6] \in Nat /\ \A k \in SecretNames : b[4][k] \in Nat
    BY <1>2 DEF BeforeOK, BeforeType
  <2> QED BY <1>1, <1>2, <2>1 DEF BeforeOK
<1>3. ASSUME NEW b, BeforeOK(b), NEW i, NEW of, Seen(i, b, of) PROVE Seen(i, b, of)'
  <2>1. \A k \in SecretNames : (secret'[k] /= 0 /\ secret'[k] = b[4][k]) => secret[k] = secret'[k]
    BY <1>3 DEF BeforeOK, Renewed
  <2>2. /\ (depSecret' /= 0 /\ depSecret' = b[5]) => depSecret = depSecret'
        /\ (readinessImage' /= 0 /\ readinessImage' = b[6]) => readinessImage = readinessImage'
    BY <1>3 DEF BeforeOK, Renewed
  <2>3. "gitToken" \in SecretNames /\ TaskSecrets \subseteq SecretNames
    BY DEF SecretNames
  <2> QED BY <1>3, <2>1, <2>2, <2>3 DEF Seen, Kept
<1>4. ASSUME NEW i \in Ids PROVE RowOK(z, i, z.result[i])'
  BY <1>2, <1>3 DEF CallOK, Sound, RowOK
<1> QED BY <1>2, <1>4 DEF CallOK, Sound

\* The inputs rest.
LEMMA InputsStay ==
  ASSUME ReadinessInv, UNCHANGED <<inputVars, changes>>, readinessStatus' \in {"active", "paused"}
  PROVE  InputsTyped' /\ NumbersOK' /\ \A z : CallOK(z) => CallOK(z)'
<1>1. /\ config' = config /\ secret' = secret /\ deployment' = deployment /\ depSecret' = depSecret
      /\ readinessImage' = readinessImage /\ changes' = changes
  BY DEF inputVars
<1>2. InputsTyped' /\ NumbersOK' /\ InputsTyped
  BY <1>1 DEF ReadinessInv, InputsTyped, NumbersOK, Old, Fresh
<1>3. ASSUME NEW z, CallOK(z) PROVE CallOK(z)'
  BY <1>1, <1>2, <1>3, CallStays DEF InputsTyped, Renewed
<1> QED BY <1>2, <1>3

\* One call moves.
LEMMA OneCall ==
  ASSUME ReadinessInv, NEW c \in Calls, NEW y, CallOK(y), call' = [call EXCEPT ![c] = y],
         y.at \in {"idle", "create"} \/ exists, UNCHANGED <<inputVars, exists, changes>>,
         readinessStatus' \in {"active", "paused"}, ResultsOK'
  PROVE  ReadinessInv'
<1>1. InputsTyped' /\ NumbersOK' /\ \A z : CallOK(z) => CallOK(z)'
  BY InputsStay
<1>2. \A d \in Calls : call'[d] = (IF d = c THEN y ELSE call[d])
  BY DEF ReadinessInv, CallsOK
<1>3. \A d \in Calls : CallOK(call'[d])
  BY <1>2 DEF ReadinessInv, CallsOK
<1>4. \A d \in Calls : CallOK(call[d])'
  <2> SUFFICES ASSUME NEW d \in Calls PROVE CallOK(call[d])'
    OBVIOUS
  <2>1. PICK z : z = call'[d]
    OBVIOUS
  <2>2. CallOK(z)'
    BY <1>1, <1>3, <2>1
  <2>3. z = call[d]'
    BY <2>1
  <2> QED BY <2>2, <2>3
<1>5. CallsOK'
  <2>1. call' \in [Calls -> CallType]
    BY DEF ReadinessInv, CallsOK, CallOK, Sound
  <2>2. ~exists' => \A d \in Calls : call'[d].at \in {"idle", "create"}
    BY <1>2 DEF ReadinessInv, CallsOK
  <2> QED BY <1>4, <2>1, <2>2 DEF CallsOK
<1> QED BY <1>1, <1>5 DEF ReadinessInv

\* The administrator writes: the results of a check are left or deleted.
LEMMA InvalidatedOK ==
  ASSUME ReadinessInv, NEW ids, readinessRow' = Invalidated(ids), checks' = checks
  PROVE  ResultsOK'
<1>1. \A i \in Ids : readinessRow'[i] \in {readinessRow[i], NoRow}
  BY DEF Invalidated
<1>2. readinessRow' \in [Ids -> ResultType]
  BY Blank DEF Invalidated, ReadinessInv, ResultsOK
<1> QED BY <1>1, <1>2 DEF ReadinessInv, ResultsOK, RowsOfOneCheck

LEMMA RowsStay == ReadinessInv /\ UNCHANGED <<readinessRow, checks>> => ResultsOK'
  BY DEF ReadinessInv, ResultsOK, RowsOfOneCheck

LEMMA InputWritten ==
  ASSUME ReadinessInv, InputsTyped', NumbersOK', changes <= changes', call' = call,
         exists' = exists,
         \A k \in SecretNames : Renewed(secret'[k], secret[k]), Renewed(depSecret', depSecret),
         Renewed(readinessImage', readinessImage), ResultsOK'
  PROVE  ReadinessInv'
<1>1. ASSUME NEW z, CallOK(z) PROVE CallOK(z)'
  BY <1>1, CallStays DEF ReadinessInv
<1>2. \A d \in Calls : CallOK(call[d])'
  <2> SUFFICES ASSUME NEW d \in Calls PROVE CallOK(call[d])'
    OBVIOUS
  <2>1. PICK z : z = call[d]
    OBVIOUS
  <2>2. CallOK(z)'
    BY <1>1, <2>1 DEF ReadinessInv, CallsOK
  <2>3. z = call[d]'
    BY <2>1
  <2> QED BY <2>2, <2>3
<1> QED BY <1>2 DEF ReadinessInv, CallsOK

LEMMA FreshIs ==
  ASSUME InputsTyped, NumbersOK
  PROVE  /\ Fresh \in Nat /\ ~Old(Fresh) /\ changes \in Nat
         /\ \A v : Renewed(v, v) /\ Renewed(0, v) /\ Renewed(Fresh, v)
         /\ changes' = changes + 1 => /\ changes <= changes' /\ changes' \in Nat /\ Fresh < Fresh'
                                      /\ \A n \in Nat : Old(n) => Old(n)'
                                      /\ Old(0)' /\ \A n : n = Fresh => Old(n)'
<1>1. changes \in Nat
  BY DEF InputsTyped
<1> QED BY <1>1 DEF Fresh, Old, Renewed

LEMMA AdminStepInv == ASSUME ReadinessInv, AdminStep PROVE ReadinessInv'
<1>1. InputsTyped /\ NumbersOK /\ changes \in Nat /\ \A v : Renewed(v, v)
  BY FreshIs DEF ReadinessInv
<1>2. ASSUME NEW ids, Write(ids)
      PROVE  /\ changes' = changes + 1 /\ call' = call /\ exists' = exists /\ ResultsOK'
             /\ readinessStatus' = readinessStatus
  BY <1>2, InvalidatedOK DEF Write, restVars
<1>3. ASSUME changes' = changes + 1
      PROVE  /\ changes <= changes' /\ changes' \in Nat /\ Old(0)' /\ ~Old(Fresh) /\ Fresh \in Nat
             /\ \A n \in Nat : Old(n) => Old(n)'
             /\ \A n : n = Fresh => Old(n)'
             /\ \A v : Renewed(0, v) /\ Renewed(Fresh, v)
  BY <1>1, <1>3, FreshIs
<1>4. CASE PutConfiguration
  <2>1. Write(Ids)
    BY <1>4 DEF PutConfiguration
  <2>2. config' \in ConfigType /\ secret' = secret /\ deployment' = deployment
        /\ depSecret' = depSecret /\ readinessImage' = readinessImage
    <3>1. PICK baseUrl \in {TRUE, config.baseUrl}, cleanupUrl \in {TRUE, config.cleanupUrl} :
            config' = [revision |-> config.revision + 1, baseUrl |-> baseUrl,
                       cleanupUrl |-> cleanupUrl]
      BY <1>4 DEF PutConfiguration
    <3>2. baseUrl \in BOOLEAN /\ cleanupUrl \in BOOLEAN
      BY <1>1 DEF InputsTyped, ConfigType
    <3>3. config.revision + 1 \in Nat
      BY <1>1 DEF InputsTyped, ConfigType
    <3>4. config' \in ConfigType
      BY <3>1, <3>2, <3>3 DEF ConfigType
    <3> QED BY <1>4, <3>4 DEF PutConfiguration
  <2>3. InputsTyped' /\ NumbersOK'
    BY <1>1, <1>2, <1>3, <2>1, <2>2 DEF InputsTyped, NumbersOK
  <2> QED BY <1>1, <1>2, <1>3, <2>1, <2>2, <2>3, InputWritten
<1>5. ASSUME NEW key \in SecretKeys, PutSecret(key) PROVE ReadinessInv'
  <2>1. Write(Ids)
    BY <1>5 DEF PutSecret
  <2>2. PICK value \in {0, Fresh} : secret' = [secret EXCEPT ![key] = value]
    BY <1>5 DEF PutSecret
  <2>3. config' = config /\ deployment' = deployment
        /\ depSecret' = depSecret /\ readinessImage' = readinessImage
    BY <1>5 DEF PutSecret
  <2>4. value \in Nat /\ Old(value)' /\ \A v : Renewed(value, v)
    BY <1>2, <1>3, <2>1
  <2>5. /\ secret' \in [SecretNames -> Nat]
        /\ \A k \in SecretNames : secret'[k] = secret[k] \/ secret'[k] = value
    BY <1>1, <2>2, <2>4 DEF InputsTyped
  <2>6. InputsTyped' /\ NumbersOK'
    BY <1>1, <1>2, <1>3, <2>1, <2>3, <2>4, <2>5 DEF InputsTyped, NumbersOK
  <2> QED BY <1>1, <1>2, <1>3, <2>1, <2>3, <2>4, <2>5, <2>6, InputWritten
<1>6. CASE PutDeployment
  <2>1. Write({"deployment"})
    BY <1>6 DEF PutDeployment
  <2>2. deployment' \in DepType /\ secret' = secret /\ config' = config
        /\ depSecret' = depSecret /\ readinessImage' = readinessImage
    BY <1>1, <1>6 DEF PutDeployment, InputsTyped, DepType
  <2>3. InputsTyped' /\ NumbersOK'
    BY <1>1, <1>2, <1>3, <2>1, <2>2 DEF InputsTyped, NumbersOK
  <2> QED BY <1>1, <1>2, <1>3, <2>1, <2>2, <2>3, InputWritten
<1>7. ASSUME NEW key, PutDeploymentSecret(key) PROVE ReadinessInv'
  <2>1. Write({"deployment"})
    BY <1>7 DEF PutDeploymentSecret
  <2>2. depSecret' \in {0, Fresh} /\ secret' = secret /\ config' = config
        /\ deployment' = deployment /\ readinessImage' = readinessImage
    BY <1>7 DEF PutDeploymentSecret
  <2>3. InputsTyped' /\ NumbersOK' /\ Renewed(depSecret', depSecret)
    BY <1>1, <1>2, <1>3, <2>1, <2>2 DEF InputsTyped, NumbersOK
  <2> QED BY <1>1, <1>2, <1>3, <2>1, <2>2, <2>3, InputWritten
<1>8. CASE ImageChanges
  <2>1. /\ changes' = changes + 1 /\ call' = call /\ exists' = exists /\ ResultsOK'
        /\ readinessStatus' = readinessStatus
    BY <1>8, RowsStay DEF ImageChanges, restVars
  <2>2. readinessImage' \in {0, Fresh} /\ secret' = secret /\ config' = config
        /\ deployment' = deployment /\ depSecret' = depSecret
    BY <1>8 DEF ImageChanges
  <2>3. InputsTyped' /\ NumbersOK' /\ Renewed(readinessImage', readinessImage)
    BY <1>1, <1>3, <2>1, <2>2 DEF InputsTyped, NumbersOK
  <2> QED BY <1>1, <1>3, <2>1, <2>2, <2>3, InputWritten
<1>9. CASE PrepareImageEnds
  <2>1. /\ UNCHANGED <<inputVars, changes, checks>> /\ readinessStatus' = readinessStatus
        /\ call' = call /\ exists' = exists /\ readinessRow' = Invalidated({"image"})
    BY <1>9 DEF PrepareImageEnds, restVars
  <2>2. InputsTyped' /\ NumbersOK' /\ ResultsOK'
    BY <1>1, <2>1, InputsStay, InvalidatedOK DEF InputsTyped
  <2> QED BY <1>1, <2>1, <2>2, InputWritten DEF inputVars
<1>10. CASE Pause
  <2>1. /\ changes' = changes + 1 /\ UNCHANGED inputVars /\ readinessStatus' = "paused"
        /\ call' = call /\ exists' = exists /\ ResultsOK'
    BY <1>10, RowsStay DEF Pause, restVars
  <2>2. InputsTyped' /\ NumbersOK'
    BY <1>1, <1>3, <2>1 DEF inputVars, InputsTyped, NumbersOK
  <2> QED BY <1>1, <1>3, <2>1, <2>2, InputWritten DEF inputVars
<1> QED BY <1>4, <1>5, <1>6, <1>7, <1>8, <1>9, <1>10 DEF AdminStep

LEMMA WorkMovesInv == ASSUME ReadinessInv, WorkMoves PROVE ReadinessInv'
<1>1. InputsTyped /\ NumbersOK /\ changes \in Nat /\ \A v : Renewed(v, v)
  BY FreshIs DEF ReadinessInv
<1>2. /\ changes' = changes + 1 /\ UNCHANGED inputVars /\ readinessStatus' = readinessStatus
      /\ call' = call /\ exists' = exists /\ ResultsOK'
  BY RowsStay DEF WorkMoves
<1>3. changes <= changes' /\ changes' \in Nat /\ \A n \in Nat : Old(n) => Old(n)'
  BY <1>1, <1>2, FreshIs
<1>4. InputsTyped' /\ NumbersOK'
  BY <1>1, <1>2, <1>3 DEF inputVars, InputsTyped, NumbersOK
<1> QED BY <1>1, <1>2, <1>3, <1>4, InputWritten DEF inputVars

LEMMA IdsAre ==
  /\ "repository" \in Ids /\ "credentials" \in Ids /\ "deployment" \in Ids
  /\ "environment" \in Ids /\ "image" \in Ids
  /\ "ok" \in ReadinessStatuses /\ "not_configured" \in ReadinessStatuses
  /\ "failed" \in ReadinessStatuses /\ "needs_recheck" \in ReadinessStatuses
  BY DEF Ids, ReadinessStatuses

\* Some results are replaced by others in order.
LEMMA RowsReplaced ==
  ASSUME NEW x, Sound(x), NEW R \in [Ids -> ResultType], \A i \in Ids : RowOK(x, i, R[i]),
         NEW j \in Ids, NEW r, RowOK(x, j, r)
  PROVE  /\ [R EXCEPT ![j] = r] \in [Ids -> ResultType] /\ [R EXCEPT ![j] = r][j] = r
         /\ \A i \in Ids : RowOK(x, i, [R EXCEPT ![j] = r][i])
         /\ \A i \in Ids : i /= j => [R EXCEPT ![j] = r][i] = R[i]
<1>1. r \in ResultType
  BY DEF RowOK
<1> QED BY <1>1

LEMMA RowsAre ==
  ASSUME NEW x, Sound(x)
  PROVE  /\ x \in CallType /\ x.result \in [Ids -> ResultType]
         /\ \A i \in Ids : RowOK(x, i, x.result[i])
  BY DEF Sound, CallType

LEMMA WithCredentialsOK ==
  ASSUME InputsTyped, NEW x, Sound(x),
         NEW r, RowOK(x, "repository", r)
  PROVE  CallOK(WithCredentials(x, r)) /\ WithCredentials(x, r).at = "provider"
<1> USE IdsAre
<1>1. PICK o \in ReadinessStatuses :
        WithCredentials(x, r) = [x EXCEPT !.at = "provider", !.result["repository"] = r,
                                          !.result["credentials"] = Result(x, "credentials", o)]
  BY DEF WithCredentials
<1>2. RowOK(x, "credentials", Result(x, "credentials", o))
  BY RowNow
<1> DEFINE R == [x.result EXCEPT !["repository"] = r]
           S == [R EXCEPT !["credentials"] = Result(x, "credentials", o)]
<1>3. R \in [Ids -> ResultType] /\ \A i \in Ids : RowOK(x, i, R[i])
  BY RowsAre, RowsReplaced
<1> HIDE DEF R
<1>4. S \in [Ids -> ResultType] /\ \A i \in Ids : RowOK(x, i, S[i])
  BY <1>2, <1>3, RowsReplaced
<1>5. WithCredentials(x, r) = [x EXCEPT !.at = "provider", !.result = S]
  BY <1>1, RowsAre DEF R, CallType
<1> HIDE DEF S
<1>6. Ready(x, "provider", S)
  BY <1>4 DEF Ready, CheckPlaces
<1>7. /\ CallOK([x EXCEPT !.at = "provider", !.result = S])
      /\ [x EXCEPT !.at = "provider", !.result = S].at = "provider"
  BY <1>6, CallGoes
<1> QED BY <1>5, <1>7

LEMMA BeginCheckInv ==
  ASSUME ReadinessInv, NEW c \in Calls, NEW resume \in BOOLEAN, BeginCheck(c, resume)
  PROVE  ReadinessInv'
<1> USE IdsAre
<1> DEFINE before == IF resume THEN Fingerprint ELSE <<>>
           opened == [NoCall EXCEPT !.at = "repository", !.resume = resume, !.check = checks + 1,
                       !.config = config, !.before = before]
           result(o) == Result(opened, "repository", o)
           token == secret["gitToken"]
<1>1. InputsTyped /\ NumbersOK /\ checks \in Nat /\ exists
  BY DEF ReadinessInv, ResultsOK, BeginCheck
<1>2. \/ call' = [call EXCEPT ![c] = WithCredentials(opened, result("not_configured"))]
      \/ call' = [call EXCEPT ![c] = WithCredentials(opened, result("failed"))]
      \/ /\ token /= 0
         /\ call' = [call EXCEPT ![c] = [opened EXCEPT !.result["repository"] = result("ok")]]
  BY DEF BeginCheck
<1>3. /\ UNCHANGED <<inputVars, exists, changes, readinessStatus, readinessRow>>
      /\ checks' = checks + 1
  BY DEF BeginCheck, restVars
<1>4. ResultsOK' /\ readinessStatus' \in {"active", "paused"}
  BY <1>1, <1>3 DEF ReadinessInv, ResultsOK, RowsOfOneCheck, InputsTyped
<1>5. Fingerprint \in BeforeType /\ BeforeOK(Fingerprint) /\ Fingerprint[1] = config
      /\ Fingerprint[4] = secret
  BY <1>1 DEF Fingerprint, BeforeType, BeforeOK, InputsTyped, NumbersOK
<1>6. before \in {<<>>} \union BeforeType
      /\ (resume => BeforeOK(before) /\ before[1] = config /\ before[4] = secret)
  BY <1>5
<1> HIDE DEF before
<1>7. /\ opened.at = "repository" /\ opened.resume = resume /\ opened.check = checks + 1
      /\ opened.config = config /\ opened.before = before /\ opened.result = [i \in Ids |-> NoRow]
      /\ opened \in CallType
  <2>1. config \in ConfigType /\ checks + 1 \in Nat /\ "repository" \in CheckPlaces
    BY <1>1 DEF InputsTyped, CheckPlaces
  <2>2. opened \in CallType
    BY <1>6, <2>1, Blank DEF CallType
  <2> QED BY <2>2, Blank DEF CallType
<1> HIDE DEF opened
<1>8. /\ result("ok") \in ResultType /\ result("ok").check = opened.check
      /\ result("ok").of = <<token>> /\ result("ok").status = "ok"
      /\ result("failed") \in ResultType /\ result("failed").check = opened.check
      /\ result("failed").status = "failed"
      /\ result("not_configured") \in ResultType /\ result("not_configured").check = opened.check
      /\ result("not_configured").status = "not_configured"
  <2>1. \A n : Inputs("repository", n) = <<token>>
    BY DEF Inputs
  <2>2. \A o \in ReadinessStatuses :
          /\ result(o) \in ResultType /\ result(o).check = opened.check /\ result(o).status = o
          /\ o = "ok" => result(o).of = Inputs("repository", opened.config.revision)
    BY <1>1, <1>7, ResultIs
  <2> HIDE DEF result
  <2> QED BY <2>1, <2>2
<1>9. \A i \in Ids : RowOK(opened, i, NoRow)
  BY Blank DEF RowOK
<1>10. RowOK(opened, "repository", result("failed"))
       /\ RowOK(opened, "repository", result("not_configured"))
  BY <1>8 DEF RowOK
<1>11. token /= 0 => RowOK(opened, "repository", result("ok"))
  <2>1. ASSUME token /= 0, resume PROVE Seen("repository", before, <<token>>)
    BY <1>6, <2>1 DEF Seen
  <2> QED BY <1>7, <1>8, <2>1 DEF RowOK
<1> HIDE DEF result, token
<1>12. Sound(opened)
  BY <1>6, <1>7, <1>9 DEF Sound
<1>17. ASSUME NEW r, RowOK(opened, "repository", r),
              call' = [call EXCEPT ![c] = WithCredentials(opened, r)]
       PROVE  ReadinessInv'
  <2>1. /\ CallOK(WithCredentials(opened, r))
        /\ WithCredentials(opened, r).at = "provider"
    BY <1>1, <1>7, <1>12, <1>17, WithCredentialsOK
  <2> QED BY <1>1, <1>3, <1>4, <1>17, <2>1, OneCall
<1>18. ASSUME token /= 0,
              call' = [call EXCEPT ![c] = [opened EXCEPT !.result["repository"] = result("ok")]]
       PROVE  ReadinessInv'
  <2> DEFINE R == [opened.result EXCEPT !["repository"] = result("ok")]
  <2>1. /\ R \in [Ids -> ResultType] /\ \A i \in Ids : RowOK(opened, i, R[i])
        /\ R["repository"] = result("ok")
    BY <1>11, <1>12, <1>18, RowsAre, RowsReplaced
  <2>2. result("ok") /= NoRow
    BY <1>8, Blank
  <2> HIDE DEF R
  <2>3. Ready(opened, "repository", R)
    BY <1>12, <2>1, <2>2 DEF Ready, CheckPlaces
  <2>4. /\ CallOK([opened EXCEPT !.at = "repository", !.result = R])
        /\ [opened EXCEPT !.at = "repository", !.result = R].at = "repository"
    BY <2>3, CallGoes
  <2>5. [opened EXCEPT !.result["repository"] = result("ok")]
        = [opened EXCEPT !.at = "repository", !.result = R]
    BY <1>7 DEF R, CallType
  <2> QED BY <1>1, <1>3, <1>4, <1>18, <2>4, <2>5, OneCall
<1> QED BY <1>2, <1>10, <1>17, <1>18

\* A check goes on.
LEMMA CheckGoes ==
  ASSUME ReadinessInv, NEW c \in Calls, exists, call[c].at \notin {"idle", "create"}, Waits,
         NEW at \in CheckPlaces \ {"resume", "repository"}, NEW R \in [Ids -> ResultType],
         \A i \in Ids : RowOK(call[c], i, R[i]), at = "inspect" => R["image"] /= NoRow,
         call' = [call EXCEPT ![c] = [call[c] EXCEPT !.at = at, !.result = R]]
  PROVE  ReadinessInv'
<1>1. Sound(call[c])
  BY DEF ReadinessInv, CallsOK, CallOK
<1>2. CallOK([call[c] EXCEPT !.at = at, !.result = R])
  <2>1. Ready(call[c], at, R)
    BY <1>1 DEF Ready
  <2> QED BY <2>1, CallGoes
<1>3. /\ ResultsOK' /\ UNCHANGED <<inputVars, exists, changes>>
      /\ readinessStatus' \in {"active", "paused"}
  BY RowsStay DEF Waits, restVars, ReadinessInv, InputsTyped
<1> QED BY <1>2, <1>3, OneCall

LEMMA ConcludedInv ==
  ASSUME ReadinessInv, NEW c \in Calls, exists, call[c].at \notin {"idle", "create"},
         NEW R \in [Ids -> ResultType], \A i \in Ids : RowOK(call[c], i, R[i]), Concluded(c, R)
  PROVE  ReadinessInv'
<1>1. Sound(call[c]) /\ call \in [Calls -> CallType]
  BY DEF ReadinessInv, CallsOK, CallOK
<1>2. /\ readinessRow' = [i \in Ids |-> R[i]] /\ checks' = checks
      /\ UNCHANGED <<inputVars, exists, changes>> /\ readinessStatus' \in {"active", "paused"}
  BY DEF Concluded, Persisted, restVars, ReadinessInv, InputsTyped
<1>3. ResultsOK'
  BY <1>2 DEF ResultsOK, RowsOfOneCheck, RowOK, ReadinessInv
<1>4. \/ /\ call[c].resume /\ \A i \in Ids : R[i].status = "ok"
         /\ call' = [call EXCEPT ![c] = [call[c] EXCEPT !.at = "resume", !.result = R]]
      \/ call' = [call EXCEPT ![c] = NoCall]
  BY DEF Concluded
<1>5. CASE call' = [call EXCEPT ![c] = NoCall]
  BY <1>2, <1>3, <1>5, Blank, OneCall
<1>6. CASE /\ call[c].resume /\ \A i \in Ids : R[i].status = "ok"
           /\ call' = [call EXCEPT ![c] = [call[c] EXCEPT !.at = "resume", !.result = R]]
  <2>1. Ready(call[c], "resume", R)
    BY <1>1, <1>6 DEF Ready, CheckPlaces
  <2>2. CallOK([call[c] EXCEPT !.at = "resume", !.result = R])
    BY <2>1, CallGoes
  <2> QED BY <1>2, <1>3, <1>6, <2>2, OneCall
<1> QED BY <1>4, <1>5, <1>6

\* A check goes on with one more result.
LEMMA Advances ==
  ASSUME ReadinessInv, NEW c \in Calls, exists, call[c].at \notin {"idle", "create"}, Waits,
         NEW at \in CheckPlaces \ {"resume", "repository"}, NEW j \in Ids, NEW r,
         RowOK(call[c], j, r), at = "inspect" => j = "image" /\ r /= NoRow,
         call' = [call EXCEPT ![c].at = at, ![c].result[j] = r]
  PROVE  ReadinessInv'
<1> DEFINE R == [call[c].result EXCEPT ![j] = r]
<1>1. Sound(call[c]) /\ call \in [Calls -> CallType]
  BY DEF ReadinessInv, CallsOK, CallOK
<1>2. /\ R \in [Ids -> ResultType] /\ R[j] = r
      /\ \A i \in Ids : RowOK(call[c], i, R[i])
  BY <1>1, RowsAre, RowsReplaced
<1>3. call' = [call EXCEPT ![c] = [call[c] EXCEPT !.at = at, !.result = R]]
  BY <1>1 DEF CallType
<1> HIDE DEF R
<1>4. at = "inspect" => R["image"] /= NoRow
  BY <1>2
<1> QED BY <1>2, <1>3, <1>4, CheckGoes

LEMMA CallAt ==
  ASSUME ReadinessInv, NEW c \in Calls
  PROVE  /\ Sound(call[c]) /\ call[c] \in CallType /\ InputsTyped
         /\ call \in [Calls -> CallType]
         /\ \A i \in Ids : RowOK(call[c], i, call[c].result[i])
         /\ call[c].at = "repository" => call[c].result["repository"] /= NoRow
         /\ call[c].at = "inspect" => call[c].result["image"] /= NoRow
  BY DEF ReadinessInv, CallsOK, CallOK, Sound

LEMMA RepositoryAnsweredInv ==
  ASSUME ReadinessInv, NEW c \in Calls, RepositoryAnswered(c) PROVE ReadinessInv'
<1> USE IdsAre
<1>1. exists /\ call[c].at = "repository" /\ Waits
  BY DEF RepositoryAnswered, At
<1>2. PICK o \in {"ok", "failed"} :
        call' = [call EXCEPT ![c] = WithCredentials(@, Outcome(@.result["repository"], o))]
  BY DEF RepositoryAnswered
<1>3. RowOK(call[c], "repository", Outcome(call[c].result["repository"], o))
  BY <1>1, CallAt, OutcomeOK
<1> DEFINE y == WithCredentials(call[c], Outcome(call[c].result["repository"], o))
<1>4. CallOK(y) /\ y.at = "provider"
  BY <1>3, CallAt, WithCredentialsOK
<1>5. call' = [call EXCEPT ![c] = y]
  BY <1>2
<1> HIDE DEF y
<1>6. /\ ResultsOK' /\ UNCHANGED <<inputVars, exists, changes>>
      /\ readinessStatus' \in {"active", "paused"}
  BY <1>1, RowsStay DEF Waits, restVars, ReadinessInv, InputsTyped
<1> QED BY <1>1, <1>4, <1>5, <1>6, OneCall

LEMMA ProviderAnsweredInv ==
  ASSUME ReadinessInv, NEW c \in Calls, ProviderAnswered(c) PROVE ReadinessInv'
<1> USE IdsAre
<1>1. exists /\ call[c].at = "provider" /\ Waits
  BY DEF ProviderAnswered, At
<1>2. PICK o \in ReadinessStatuses :
        call' = [call EXCEPT ![c].at = "storage",
                             ![c].result["deployment"] = Result(call[c], "deployment", o)]
  BY DEF ProviderAnswered
<1>3. RowOK(call[c], "deployment", Result(call[c], "deployment", o))
  BY CallAt, RowNow
<1>4. "storage" \in CheckPlaces \ {"resume", "repository"} /\ "storage" /= "inspect"
  BY DEF CheckPlaces
<1> QED BY <1>1, <1>2, <1>3, <1>4, Advances

LEMMA StorageAnsweredInv ==
  ASSUME ReadinessInv, NEW c \in Calls, StorageAnswered(c) PROVE ReadinessInv'
<1> USE IdsAre
<1>1. exists /\ call[c].at = "storage" /\ Waits
  BY DEF StorageAnswered, At
<1> DEFINE before == call[c].result["deployment"]
<1>2. PICK o \in {"ok", "failed"} :
        call' = [call EXCEPT ![c].at = "environment",
                             ![c].result["deployment"] =
                                IF before.status = "ok" THEN Outcome(before, o) ELSE before]
  <2>1. PICK o \in {"ok", "failed"} :
          call' = [call EXCEPT ![c].at = "environment",
                  ![c].result["deployment"] = IF @.status = "ok" THEN Outcome(@, o) ELSE @]
    BY DEF StorageAnswered
  <2>2. call[c] \in CallType /\ call \in [Calls -> CallType]
    BY CallAt
  <2> QED BY <2>1, <2>2 DEF CallType
<1>3. RowOK(call[c], "deployment", before)
  BY CallAt
<1> DEFINE r == IF before.status = "ok" THEN Outcome(before, o) ELSE before
<1>4. RowOK(call[c], "deployment", r)
  <2>1. before.status = "ok" => before /= NoRow
    BY Blank
  <2>2. before.status = "ok" => RowOK(call[c], "deployment", Outcome(before, o))
    BY <1>3, <2>1, OutcomeOK
  <2> QED BY <1>3, <2>2
<1>5. call' = [call EXCEPT ![c].at = "environment", ![c].result["deployment"] = r]
  BY <1>2
<1> HIDE DEF r
<1>6. "environment" \in CheckPlaces \ {"resume", "repository"} /\ "environment" /= "inspect"
  BY DEF CheckPlaces
<1> QED BY <1>1, <1>4, <1>5, <1>6, Advances

LEMMA EnvironmentAnsweredInv ==
  ASSUME ReadinessInv, NEW c \in Calls, EnvironmentAnswered(c) PROVE ReadinessInv'
<1> USE IdsAre
<1>1. exists /\ call[c].at = "environment"
  BY DEF EnvironmentAnswered, At
<1> DEFINE result(o) ==
      [call[c].result EXCEPT !["environment"] = Result(call[c], "environment", o),
                             !["image"] = Result(call[c], "image", "needs_recheck")]
<1>2. PICK o \in ReadinessStatuses :
        \/ /\ call' = [call EXCEPT ![c].at = "commit", ![c].result = result(o)]
           /\ Waits
        \/ Concluded(c, result(o))
  BY DEF EnvironmentAnswered
<1> DEFINE R == [call[c].result EXCEPT !["environment"] = Result(call[c], "environment", o)]
           S == [R EXCEPT !["image"] = Result(call[c], "image", "needs_recheck")]
<1>3. RowOK(call[c], "environment", Result(call[c], "environment", o))
      /\ RowOK(call[c], "image", Result(call[c], "image", "needs_recheck"))
  BY CallAt, RowNow
<1>4. R \in [Ids -> ResultType] /\ \A i \in Ids : RowOK(call[c], i, R[i])
  BY <1>3, CallAt, RowsAre, RowsReplaced
<1>5. result(o) = S
  BY CallAt DEF CallType
<1> HIDE DEF R, result
<1>6. S \in [Ids -> ResultType] /\ \A i \in Ids : RowOK(call[c], i, S[i])
  BY <1>3, <1>4, CallAt, RowsReplaced
<1> HIDE DEF S
<1>7. CASE Concluded(c, result(o))
  BY <1>1, <1>5, <1>6, <1>7, ConcludedInv
<1>8. CASE call' = [call EXCEPT ![c].at = "commit", ![c].result = result(o)] /\ Waits
  <2>1. call' = [call EXCEPT ![c] = [call[c] EXCEPT !.at = "commit", !.result = S]]
    BY <1>5, <1>8, CallAt DEF CallType
  <2>2. "commit" \in CheckPlaces \ {"resume", "repository"} /\ "commit" /= "inspect"
    BY DEF CheckPlaces
  <2> QED BY <1>1, <1>6, <1>8, <2>1, <2>2, CheckGoes
<1> QED BY <1>2, <1>7, <1>8

LEMMA CommitResolvedInv ==
  ASSUME ReadinessInv, NEW c \in Calls, CommitResolved(c) PROVE ReadinessInv'
<1> USE IdsAre
<1>1. exists /\ call[c].at = "commit"
  BY DEF CommitResolved, At
<1>2. ASSUME NEW o \in ReadinessStatuses
      PROVE  RowOK(call[c], "image", Result(call[c], "image", o))
             /\ Result(call[c], "image", o).status = o
  BY CallAt, RowNow
<1>3. CASE /\ call' = [call EXCEPT ![c].at = "inspect", ![c].result["image"] =
                               Result(call[c], "image", "ok")]
           /\ Waits
  <2>1. Result(call[c], "image", "ok") /= NoRow
    BY <1>2, Blank
  <2>2. "inspect" \in CheckPlaces \ {"resume", "repository"}
    BY DEF CheckPlaces
  <2> QED BY <1>1, <1>2, <1>3, <2>1, <2>2, Advances
<1>4. ASSUME NEW o \in ReadinessStatuses,
             Concluded(c, [call[c].result EXCEPT !["image"] = Result(call[c], "image", o)])
      PROVE  ReadinessInv'
  <2> DEFINE R == [call[c].result EXCEPT !["image"] = Result(call[c], "image", o)]
  <2>1. R \in [Ids -> ResultType] /\ \A i \in Ids : RowOK(call[c], i, R[i])
    BY <1>2, CallAt, RowsAre, RowsReplaced
  <2>2. Concluded(c, R)
    BY <1>4
  <2> HIDE DEF R
  <2> QED BY <1>1, <2>1, <2>2, ConcludedInv
<1> QED BY <1>3, <1>4 DEF CommitResolved

LEMMA InspectedInv ==
  ASSUME ReadinessInv, NEW c \in Calls, Inspected(c) PROVE ReadinessInv'
<1> USE IdsAre
<1>1. exists /\ call[c].at = "inspect"
  BY DEF Inspected, At
<1>2. PICK o \in {"ok", "failed"} :
        Concluded(c, [call[c].result EXCEPT !["image"] = Outcome(@, o)])
  BY DEF Inspected
<1>3. RowOK(call[c], "image", Outcome(call[c].result["image"], o))
  BY <1>1, CallAt, OutcomeOK
<1> DEFINE R == [call[c].result EXCEPT !["image"] = Outcome(call[c].result["image"], o)]
<1>4. R \in [Ids -> ResultType] /\ \A i \in Ids : RowOK(call[c], i, R[i])
  BY <1>3, CallAt, RowsAre, RowsReplaced
<1>5. Concluded(c, R)
  BY <1>2, CallAt, RowsAre
<1> HIDE DEF R
<1> QED BY <1>1, <1>4, <1>5, ConcludedInv

LEMMA BeginCreateInv ==
  ASSUME ReadinessInv, NEW c \in Calls, BeginCreate(c) PROVE ReadinessInv'
<1>1. /\ call[c] = NoCall /\ call' = [call EXCEPT ![c].at = "create"]
      /\ UNCHANGED <<inputVars, exists, changes>> /\ ResultsOK'
      /\ readinessStatus' \in {"active", "paused"}
  BY RowsStay DEF BeginCreate, restVars, ReadinessInv, InputsTyped
<1> DEFINE y == [NoCall EXCEPT !.at = "create"]
<1>2. /\ y \in CallType /\ y.at = "create" /\ y.resume = FALSE /\ y.check = 0
      /\ y.result = [i \in Ids |-> NoRow]
  BY Blank DEF CallType
<1>3. call' = [call EXCEPT ![c] = y]
  BY <1>1, CallAt DEF CallType
<1> HIDE DEF y
<1>4. CallOK(y)
  <2>1. \A i \in Ids : y.result[i] = NoRow
    BY <1>2
  <2>2. \A i \in Ids : RowOK(y, i, y.result[i])
    BY <1>2, <2>1, Blank DEF RowOK
  <2> QED BY <1>2, <2>2 DEF CallOK, Sound
<1> QED BY <1>1, <1>2, <1>3, <1>4, OneCall

\* A call that is not part of a resume says nothing of the inputs.
LEMMA CallFree ==
  ASSUME NEW z, CallOK(z), ~z.resume
  PROVE  CallOK(z)'
  BY DEF CallOK, Sound, RowOK

LEMMA CreateAnsweredInv ==
  ASSUME ReadinessInv, NEW c \in Calls, CreateAnswered(c) PROVE ReadinessInv'
<1>1. /\ call' = [call EXCEPT ![c] = NoCall] /\ ResultsOK' /\ changes' = changes
      /\ readinessStatus' \in {"active", "paused"} /\ deployment' = deployment
      /\ depSecret' = depSecret /\ readinessImage' = readinessImage
  BY RowsStay DEF CreateAnswered, ReadinessInv, InputsTyped
<1>2. CASE UNCHANGED <<exists, config, secret>>
  <2>1. UNCHANGED <<inputVars, exists, changes>>
    BY <1>1, <1>2 DEF inputVars
  <2> QED BY <1>1, <2>1, Blank, OneCall
<1>3. ASSUME ~exists, exists', config' = [config EXCEPT !.revision = 2], NEW token \in 0 .. 1,
             secret' = [secret EXCEPT !["gitToken"] = token]
      PROVE  ReadinessInv'
  <2>1. InputsTyped /\ NumbersOK
    BY DEF ReadinessInv
  <2>2. token \in Nat /\ Old(token)' /\ changes \in Nat
    <3>1. changes \in Nat
      BY <2>1 DEF InputsTyped
    <3>2. token \in Nat /\ token < changes + 2
      BY <1>3, <3>1
    <3> QED BY <1>1, <3>1, <3>2 DEF Old, Fresh
  <2>3. config' \in ConfigType
    BY <1>3, <2>1 DEF InputsTyped, ConfigType
  <2>4. /\ secret' \in [SecretNames -> Nat]
        /\ \A k \in SecretNames : secret'[k] = secret[k] \/ secret'[k] = token
    BY <1>3, <2>1, <2>2 DEF InputsTyped
  <2>5. InputsTyped' /\ NumbersOK'
    <3>1. \A n : Old(n) => Old(n)'
      BY <1>1 DEF Old, Fresh
    <3> QED BY <1>1, <2>1, <2>2, <2>3, <2>4, <3>1 DEF InputsTyped, NumbersOK
  <2>6. \A d \in Calls : call'[d] = (IF d = c THEN NoCall ELSE call[d])
    BY <1>1, CallAt
  <2>7. \A d \in Calls : CallOK(call[d])'
    <3> SUFFICES ASSUME NEW d \in Calls PROVE CallOK(call[d])'
      OBVIOUS
    <3>1. PICK z : z = call'[d]
      OBVIOUS
    <3>2. CallOK(z) /\ ~z.resume
      <4>1. CASE d = c
        BY <2>6, <3>1, <4>1, Blank
      <4>2. CASE d /= c
        BY <1>3, <2>6, <3>1, <4>2 DEF ReadinessInv, CallsOK, CallOK, Sound
      <4> QED BY <4>1, <4>2
    <3>3. CallOK(z)'
      BY <3>2, CallFree
    <3>4. z = call[d]'
      BY <3>1
    <3> QED BY <3>3, <3>4
  <2>8. call' \in [Calls -> CallType]
    BY <1>1, CallAt, Blank
  <2> QED BY <1>1, <1>3, <2>5, <2>7, <2>8 DEF ReadinessInv, CallsOK
<1> QED BY <1>2, <1>3 DEF CreateAnswered

LEMMA ResumeInv ==
  ASSUME ReadinessInv, NEW c \in Calls, Resume(c) PROVE ReadinessInv'
<1> USE IdsAre
<1>1. /\ call' = [call EXCEPT ![c] = NoCall] /\ UNCHANGED <<inputVars, exists, changes>>
      /\ checks' = checks /\ call[c].at = "resume"
  BY DEF Resume, At
<1>2. readinessStatus' \in {"active", "paused"}
  BY DEF Resume, Activates, ReadinessInv, InputsTyped
<1>3. ResultsOK'
  <2>1. CASE UNCHANGED readinessRow
    BY <1>1, <2>1, RowsStay
  <2>2. CASE readinessRow' = Rechecked(c)
    <3>1. \A i \in Ids : call[c].result[i] /= NoRow
      BY <1>1, CallAt, Blank DEF Sound
    <3>2. ASSUME NEW i \in Ids
          PROVE  /\ Outcome(call[c].result[i], "needs_recheck") \in ResultType
                 /\ Outcome(call[c].result[i], "needs_recheck").check = call[c].check
      <4>1. RowOK(call[c], i, call[c].result[i]) /\ call[c].result[i] /= NoRow
        BY <3>1, CallAt
      <4>2. /\ RowOK(call[c], i, Outcome(call[c].result[i], "needs_recheck"))
            /\ Outcome(call[c].result[i], "needs_recheck").check = call[c].result[i].check
        BY <4>1, OutcomeOK
      <4> QED BY <4>1, <4>2 DEF RowOK
    <3>3. readinessRow' \in [Ids -> ResultType]
      BY <2>2, <3>2 DEF Rechecked
    <3>4. \A i \in Ids : readinessRow'[i].check = call[c].check
      BY <2>2, <3>2 DEF Rechecked
    <3> QED BY <1>1, <3>3, <3>4 DEF ResultsOK, RowsOfOneCheck, ReadinessInv
  <2> QED BY <2>1, <2>2 DEF Resume
<1> QED BY <1>1, <1>2, <1>3, Blank, OneCall

LEMMA ReadinessStart == ReadinessInit => ReadinessInv
<1> SUFFICES ASSUME ReadinessInit PROVE ReadinessInv
  OBVIOUS
<1>1. InputsTyped
  <2>1. config \in ConfigType
    BY DEF ReadinessInit, ConfigType
  <2>2. secret \in [SecretNames -> Nat]
    BY DEF ReadinessInit, SecretNames
  <2>3. deployment \in DepType
    BY DEF ReadinessInit, DepType
  <2> QED BY <2>1, <2>2, <2>3 DEF ReadinessInit, InputsTyped
<1>2. NumbersOK
  BY DEF ReadinessInit, NumbersOK, Old, Fresh, SecretNames
<1>3. CallsOK
  BY Blank DEF ReadinessInit, CallsOK
<1>4. ResultsOK
  BY Blank DEF ReadinessInit, ResultsOK, RowsOfOneCheck
<1> QED BY <1>1, <1>2, <1>3, <1>4 DEF ReadinessInv

LEMMA ReadinessStep == ReadinessInv /\ [ReadinessNext]_readinessVars => ReadinessInv'
<1> SUFFICES ASSUME ReadinessInv, [ReadinessNext]_readinessVars PROVE ReadinessInv'
  OBVIOUS
<1>1. ASSUME NEW c \in Calls, CheckStep(c) PROVE ReadinessInv'
  BY <1>1, BeginCheckInv, RepositoryAnsweredInv, ProviderAnsweredInv, StorageAnsweredInv,
     EnvironmentAnsweredInv, CommitResolvedInv, InspectedInv, ResumeInv, BeginCreateInv,
     CreateAnsweredInv DEF CheckStep
<1>2. CASE UNCHANGED readinessVars
  <2>1. UNCHANGED <<inputVars, changes, checks, readinessRow, call, exists, readinessStatus>>
    BY <1>2 DEF readinessVars, inputVars
  <2>2. InputsTyped' /\ NumbersOK' /\ ResultsOK'
    BY <2>1, InputsStay, RowsStay DEF ReadinessInv, InputsTyped
  <2>3. InputsTyped /\ changes <= changes' /\ \A v : Renewed(v, v)
    BY <2>1 DEF ReadinessInv, InputsTyped, Renewed
  <2> QED BY <2>1, <2>2, <2>3, InputWritten DEF inputVars
<1> QED BY <1>1, <1>2, AdminStepInv, WorkMovesInv DEF ReadinessNext

\* What a project becomes active with was checked.
LEMMA ActivationStep ==
  ASSUME ReadinessInv, [ReadinessNext]_readinessVars,
         readinessStatus = "paused", readinessStatus' = "active"
  PROVE  \E c \in Calls : /\ call[c].at = "resume" /\ call'[c] = NoCall
                          /\ \A i \in Ids : /\ call[c].result[i].status = "ok"
                                            /\ StillAbout(i, call[c].result[i].of)
<1>1. PICK c \in Calls : Resume(c)
  BY DEF ReadinessNext, CheckStep, AdminStep, WorkMoves, BeginCheck, RepositoryAnswered,
     ProviderAnswered, StorageAnswered, EnvironmentAnswered, CommitResolved, Inspected,
     BeginCreate, CreateAnswered, Concluded, Waits, PutConfiguration, PutDeployment,
     ImageChanges, PrepareImageEnds, Pause, PutSecret, PutDeploymentSecret, Write, readinessVars
<1>2. call[c].before = Fingerprint /\ call[c].at = "resume" /\ call' = [call EXCEPT ![c] = NoCall]
  BY <1>1 DEF Resume, At
<1>3. /\ call[c].before[1] = config /\ call[c].before[4] = secret
      /\ call[c].before[5] = depSecret /\ call[c].before[6] = readinessImage
  BY <1>2 DEF Fingerprint
<1>4. /\ call[c].resume /\ call'[c] = NoCall
      /\ \A i \in Ids : /\ call[c].result[i].status = "ok"
                        /\ Seen(i, call[c].before, call[c].result[i].of)
  BY <1>2, CallAt DEF Sound, RowOK
<1>5. ASSUME NEW i \in Ids PROVE StillAbout(i, call[c].result[i].of)
  <2>1. Seen(i, call[c].before, call[c].result[i].of)
    BY <1>4
  <2>2. secret["gitToken"] /= 0
    <3>1. Seen("repository", call[c].before, call[c].result["repository"].of)
      BY <1>4, IdsAre
    <3> QED BY <1>3, <3>1 DEF Seen
  <2> QED BY <1>3, <2>1, <2>2 DEF Seen, Kept, StillAbout, Ids, Inputs
<1> QED BY <1>2, <1>4, <1>5

THEOREM ActivationIsCheckedCorrect == ReadinessSpec => ActivationIsChecked
<1>1. ReadinessInit => ReadinessInv
  BY ReadinessStart
<1>2. ReadinessInv /\ [ReadinessNext]_readinessVars => ReadinessInv'
  BY ReadinessStep
<1>3. ReadinessInv => RowsOfOneCheck
  BY DEF ReadinessInv, ResultsOK
<1>4. ReadinessInv /\ [ReadinessNext]_readinessVars =>
        [readinessStatus = "paused" /\ readinessStatus' = "active" =>
           \E c \in Calls : /\ call[c].at = "resume" /\ call'[c] = NoCall
                            /\ \A i \in Ids : /\ call[c].result[i].status = "ok"
                                              /\ StillAbout(i, call[c].result[i].of)]_readinessVars
  BY ActivationStep
<1> QED BY <1>1, <1>2, <1>3, <1>4, PTL DEF ReadinessSpec, ActivationIsChecked, ActivatedAsChecked

\* The numbers stay within the bounds.
WithinBounds ==
  /\ changes <= MaxChange /\ config.revision <= changes + 2 /\ checks \in 0 .. MaxCheck
  /\ exists \in BOOLEAN /\ cutover \in BOOLEAN /\ evidence \in BOOLEAN
  /\ work \in Pending \union {"none"}

LEMMA WithinBoundsStart == ReadinessInit => WithinBounds
<1> SUFFICES ASSUME ReadinessInit PROVE WithinBounds
  OBVIOUS
<1>1. changes = 0 /\ checks = 0 /\ config.revision = 1 /\ 0 \in 0 .. MaxCheck /\ 0 <= MaxChange
  BY ReadinessAssumption DEF ReadinessInit
<1>2. exists \in BOOLEAN /\ cutover \in BOOLEAN /\ evidence \in BOOLEAN
  BY Zenon DEF ReadinessInit
<1>3. work \in Pending \union {"none"}
  BY DEF ReadinessInit, Pending
<1> QED BY <1>1, <1>2, <1>3 DEF WithinBounds

LEMMA WithinBoundsStep ==
  ASSUME ReadinessInv, WithinBounds, [ReadinessNext]_readinessVars PROVE WithinBounds'
<1> USE ReadinessAssumption DEF WithinBounds
<1>1. changes \in Nat /\ config.revision \in Nat /\ checks \in Nat
  BY DEF ReadinessInv, InputsTyped, ConfigType, ResultsOK
<1>2. ASSUME changes' = changes, config' = config, checks' = checks,
             UNCHANGED <<exists, cutover, evidence, work>>
      PROVE  WithinBounds'
  BY <1>2
<1>3. ASSUME Waits PROVE WithinBounds'
  BY <1>2, <1>3 DEF Waits, inputVars, restVars
<1>4. ASSUME NEW c, NEW R, Concluded(c, R) PROVE WithinBounds'
  BY <1>2, <1>4 DEF Concluded, inputVars, restVars
<1>5. ASSUME NEW c \in Calls, CheckStep(c) PROVE WithinBounds'
  <2>1. ASSUME NEW resume, BeginCheck(c, resume) PROVE WithinBounds'
    <3>1. checks < MaxCheck /\ checks' = checks + 1 /\ UNCHANGED <<inputVars, restVars, changes>>
      BY <2>1 DEF BeginCheck
    <3> QED BY <1>1, <3>1 DEF inputVars, restVars
  <2>2. CASE RepositoryAnswered(c)
    BY <1>3, <2>2 DEF RepositoryAnswered
  <2>3. CASE ProviderAnswered(c)
    BY <1>3, <2>3 DEF ProviderAnswered
  <2>4. CASE StorageAnswered(c)
    BY <1>3, <2>4 DEF StorageAnswered
  <2>5. CASE EnvironmentAnswered(c)
    BY <1>3, <1>4, <2>5 DEF EnvironmentAnswered
  <2>6. CASE CommitResolved(c)
    BY <1>3, <1>4, <2>6 DEF CommitResolved
  <2>7. CASE Inspected(c)
    BY <1>4, <2>7 DEF Inspected
  <2>8. CASE Resume(c)
    BY <2>8 DEF Resume, Activates, inputVars
  <2>9. CASE BeginCreate(c)
    BY <1>2, <2>9 DEF BeginCreate, inputVars, restVars
  <2>10. CASE CreateAnswered(c)
    <3>1. \/ exists' = TRUE /\ config' = [config EXCEPT !.revision = 2]
          \/ exists' = exists /\ config' = config
      BY <2>10 DEF CreateAnswered
    <3>2. UNCHANGED <<cutover, work, evidence, checks, changes>>
      BY <2>10 DEF CreateAnswered
    <3>3. [config EXCEPT !.revision = 2].revision = 2
      BY DEF ReadinessInv, InputsTyped, ConfigType
    <3>4. config'.revision \in {2, config.revision}
      BY <3>1, <3>3
    <3>5. config'.revision <= changes + 2
      BY <1>1, <3>4
    <3>6. exists' \in BOOLEAN
      BY <3>1, Zenon
    <3> QED BY <1>1, <3>2, <3>5, <3>6
  <2> QED BY <1>5, <2>1, <2>2, <2>3, <2>4, <2>5, <2>6, <2>7, <2>8, <2>9, <2>10 DEF CheckStep
<1>6. ASSUME NEW ids, Write(ids), config'.revision \in {config.revision, config.revision + 1}
      PROVE  WithinBounds'
  <2>1. changes < MaxChange /\ changes' = changes + 1 /\ UNCHANGED <<restVars, checks>>
    BY <1>6 DEF Write
  <2> QED BY <1>1, <1>6, <2>1 DEF restVars
<1>7. CASE AdminStep
  <2>1. CASE PutConfiguration
    <3>1. config'.revision = config.revision + 1
      BY <2>1 DEF PutConfiguration
    <3> QED BY <1>6, <2>1, <3>1 DEF PutConfiguration
  <2>2. CASE PutDeployment
    BY <1>6, <2>2 DEF PutDeployment
  <2>3. CASE ImageChanges
    BY <1>1, <2>3 DEF ImageChanges, restVars
  <2>4. CASE PrepareImageEnds
    BY <1>2, <2>4 DEF PrepareImageEnds, inputVars, restVars
  <2>5. CASE Pause
    BY <1>1, <2>5 DEF Pause, inputVars, restVars
  <2>6. ASSUME NEW key, PutSecret(key) PROVE WithinBounds'
    BY <1>6, <2>6 DEF PutSecret
  <2>7. ASSUME NEW key, PutDeploymentSecret(key) PROVE WithinBounds'
    BY <1>6, <2>7 DEF PutDeploymentSecret
  <2> QED BY <1>7, <2>1, <2>2, <2>3, <2>4, <2>5, <2>6, <2>7 DEF AdminStep
<1>8. CASE WorkMoves
  BY <1>1, <1>8 DEF WorkMoves, inputVars, Pending
<1>9. CASE UNCHANGED readinessVars
  BY <1>2, <1>9 DEF readinessVars
<1> QED BY <1>5, <1>7, <1>8, <1>9 DEF ReadinessNext

LEMMA ReadinessTypes == ASSUME ReadinessInv, WithinBounds PROVE ReadinessTypeOK
<1> USE ReadinessAssumption DEF ReadinessInv, InputsTyped
<1>1. changes \in 0 .. MaxChange /\ \A n \in Nat : Old(n) => n \in 0 .. MaxChange + 1
  BY DEF WithinBounds, Old, Fresh
<1>2. /\ config.revision \in 0 .. MaxChange + 2 /\ config.baseUrl \in BOOLEAN
      /\ config.cleanupUrl \in BOOLEAN
  BY DEF WithinBounds, ConfigType
<1>3. secret \in [SecretNames -> 0 .. MaxChange + 1]
  BY <1>1 DEF NumbersOK
<1>4. depSecret \in 0 .. MaxChange + 1 /\ readinessImage \in 0 .. MaxChange + 1
  BY <1>1 DEF NumbersOK
<1>5. \A i \in Ids : readinessRow[i].status \in ReadinessStatuses \union {"none"}
  BY DEF ResultsOK, ResultType
<1>6. \A c \in Calls : call[c].at \in {"idle", "create", "repository", "provider", "storage",
                                       "environment", "commit", "inspect", "resume"}
  BY DEF CallsOK, CallType, CheckPlaces
<1> QED BY <1>1, <1>2, <1>3, <1>4, <1>5, <1>6 DEF ReadinessTypeOK, WithinBounds, SecretNames,
   DepType

-----------------------------------------------------------------------------
(***************************************************************************)
(* GitPoller: no poll misses a commit.  What counts as seen and is watched *)
(* is requested, and a poll under way compares with a base below which     *)
(* nothing is missed, whatever moves the branch or the configuration.      *)
(***************************************************************************)
CommitLists == Seq(1 .. MaxPollerCommit)

TickStages == {"idle", "index", "git", "fetch", "compare", "submit", "record", "cron", "drain"}
TickType   == [at : TickStages, active : BOOLEAN, cron : {"no", "this", "past"}]
PollType   == [trigger : {"none", "git", "schedule"}, place : Places \union {NoPlace},
               head : CommitLists, base : CommitLists]

PollerTyped ==
  /\ pollerHead \in [Places -> CommitLists] /\ pollerCommits \in 0 .. MaxPollerCommit
  /\ place \in Places /\ onCommit \in BOOLEAN /\ pollerActive \in BOOLEAN
  /\ pollerChanges \in 0 .. MaxPollerChange
  /\ lastPoll \in {"never", "young", "due"} /\ minute \in {"other", "cron"}
  /\ lastCron \in BOOLEAN /\ cronPolls \in Nat
  /\ seenPlace \in Places \union {NoPlace} /\ seen \in CommitLists /\ progress \in CommitLists
  /\ tick \in TickType /\ poll \in PollType
  /\ pollerFailures \in 0 .. MaxPollerFailure /\ pollerCrashes \in 0 .. MaxPollerCrash
  /\ requested \subseteq 1 .. MaxPollerCommit /\ watched \subseteq Testable

\* Branches share the first commit alone, and a watched commit is one that was pushed to the
\* configured branch.
BranchesOK ==
  /\ pollerCommits >= 1
  /\ \A p \in Places : Range(pollerHead[p]) \subseteq 1 .. pollerCommits
  /\ \A p, q \in Places : p # q =>
       Range(pollerHead[p]) \intersect Range(pollerHead[q]) \subseteq {1}
  /\ watched \subseteq 2 .. pollerCommits /\ watched \subseteq Range(pollerHead[place])
  /\ progress \in {NoCommit, <<1>>}

\* What counts as seen and is watched is requested, whatever place it was seen at.
SeenOK ==
  Range(seen) \subseteq 1 .. pollerCommits /\ watched \intersect Range(seen) \subseteq requested

\* What a poll compares: nothing below its base is missed, and the head of a place that is no
\* longer configured holds nothing watched.
PollOK ==
  /\ tick.at \in {"fetch", "compare", "record"} =>
       /\ poll.place \in Places /\ poll.trigger \in {"git", "schedule"}
  /\ tick.at \in {"compare", "record"} => Range(poll.head) \subseteq 1 .. pollerCommits
  /\ tick.at = "compare" =>
       /\ Range(poll.base) \subseteq 1 .. pollerCommits
       /\ watched \intersect Range(poll.base) \subseteq requested
       /\ poll.place # place => watched \intersect Range(poll.head) = {}
  /\ tick.at = "record" => watched \intersect Range(poll.head) \subseteq requested

\* A tick that is to poll for the current minute is the first to do so.
CronOK ==
  /\ cronPolls <= 1 /\ (~lastCron => cronPolls = 0)
  /\ tick.cron = "this" => minute = "cron"
  /\ /\ tick.cron = "this"
     /\ \/ tick.at \in {"index", "git", "cron"}
        \/ tick.at \in {"fetch", "compare", "record"} /\ poll.trigger = "git"
     => ~lastCron

PollerInv == PollerTyped /\ BranchesOK /\ SeenOK /\ PollOK /\ CronOK

-----------------------------------------------------------------------------
\* What sequences contain.
LEMMA AppendRange ==
  ASSUME NEW S, NEW s \in Seq(S), NEW e
  PROVE  Range(Append(s, e)) = Range(s) \cup {e}
<1>1. /\ DOMAIN Append(s, e) = 1 .. Len(s) + 1 /\ DOMAIN s = 1 .. Len(s) /\ Len(s) \in Nat
      /\ Append(s, e)[Len(s) + 1] = e
      /\ \A i \in 1 .. Len(s) : Append(s, e)[i] = s[i]
  OBVIOUS
<1>2. 1 .. Len(s) + 1 = (1 .. Len(s)) \cup {Len(s) + 1}
  BY <1>1
<1> QED BY <1>1, <1>2 DEF Range

LEMMA FrontRange ==
  ASSUME NEW S, NEW s \in Seq(S), Len(s) > 1
  PROVE  Front(s) \in Seq(S) /\ Range(Front(s)) \subseteq Range(s)
<1>1. /\ DOMAIN Front(s) = 1 .. Len(s) - 1 /\ DOMAIN s = 1 .. Len(s) /\ Len(s) \in Nat
      /\ Front(s) \in Seq(S) /\ \A i \in 1 .. Len(s) - 1 : Front(s)[i] = s[i]
  BY DEF Front
<1> QED BY <1>1 DEF Range

\* What is in a head and not testable after its base is in the base.
LEMMA PrefixRange ==
  ASSUME NEW S, NEW base \in Seq(S), NEW target \in Seq(S), IsPrefix(base, target),
         ~TestableBetween(base, target)
  PROVE  Range(target) \cap Testable \subseteq Range(base)
<1>1. /\ Len(base) \in Nat /\ Len(target) \in Nat /\ Len(base) <= Len(target)
      /\ SubSeq(base, 1, Len(base)) = SubSeq(target, 1, Len(base))
      /\ DOMAIN target = 1 .. Len(target) /\ DOMAIN base = 1 .. Len(base)
  BY DEF IsPrefix
<1>2. \A i \in 1 .. Len(base) : base[i] = target[i]
  <2> TAKE i \in 1 .. Len(base)
  <2>1. SubSeq(base, 1, Len(base))[i] = base[i] /\ SubSeq(target, 1, Len(base))[i] = target[i]
    BY <1>1
  <2> QED BY <1>1, <2>1
<1> SUFFICES ASSUME NEW i \in 1 .. Len(target), target[i] \in Testable
             PROVE  target[i] \in Range(base)
  BY <1>1 DEF Range
<1>3. i \notin Len(base) + 1 .. Len(target)
  BY DEF TestableBetween
<1>4. i \in 1 .. Len(base)
  BY <1>1, <1>3
<1> QED BY <1>1, <1>2, <1>4 DEF Range

LEMMA TickMoves ==
  ASSUME NEW t \in TickType, NEW a \in TickStages, NEW n, n = [t EXCEPT !.at = a]
  PROVE  n \in TickType /\ n.at = a /\ n.cron = t.cron /\ n.active = t.active
  BY DEF TickType

LEMMA PollValues ==
  ASSUME PollerTyped
  PROVE  /\ NoPoll \in PollType
         /\ \A trigger \in {"git", "schedule"} : \A n :
              n = [NoPoll EXCEPT !.trigger = trigger, !.place = place] =>
                n \in PollType /\ n.trigger = trigger /\ n.place = place
<1>1. <<>> \in CommitLists /\ place \in Places /\ poll \in PollType
  BY DEF PollerTyped, CommitLists
<1>2. NoPoll \in PollType
  BY <1>1 DEF NoPoll, NoCommit, PollType
<1>3. ASSUME NEW trigger \in {"git", "schedule"}, NEW n,
             n = [NoPoll EXCEPT !.trigger = trigger, !.place = place]
      PROVE  n \in PollType /\ n.trigger = trigger /\ n.place = place
  BY <1>1, <1>2, <1>3 DEF PollType
<1> QED BY <1>2, <1>3

LEMMA PollerStart == PollerInit => PollerInv
<1> SUFFICES ASSUME PollerInit PROVE PollerInv
  OBVIOUS
<1> USE DEF PollerInit, NoPoll, IdleTick, NoCommit
<1>1. <<1>> \in Seq(1 .. MaxPollerCommit) /\ <<>> \in Seq(1 .. MaxPollerCommit)
  BY PollerAssumption
<1>2. PollerTyped
  <2>1. tick \in TickType /\ poll \in PollType
    BY <1>1 DEF TickType, TickStages, PollType, CommitLists
  <2>2. pollerHead \in [Places -> CommitLists] /\ progress \in CommitLists /\ seen \in CommitLists
    BY <1>1 DEF CommitLists
  <2>3. /\ pollerCommits \in 0 .. MaxPollerCommit /\ pollerChanges \in 0 .. MaxPollerChange
        /\ pollerFailures \in 0 .. MaxPollerFailure /\ pollerCrashes \in 0 .. MaxPollerCrash
    BY PollerAssumption
  <2> QED BY <2>1, <2>2, <2>3 DEF PollerTyped
<1>3. Range(<<1>>) = {1} /\ Range(<<>>) = {}
  BY DEF Range
<1>4. BranchesOK /\ SeenOK /\ PollOK /\ CronOK
  BY <1>3 DEF BranchesOK, SeenOK, PollOK, CronOK
<1> QED BY <1>2, <1>4 DEF PollerInv


\* A poll that ends with a head recorded up to which nothing watched is missed.
LEMMA RecordsPoller ==
  ASSUME PollerInv, tick.at \in {"fetch", "compare", "record"}, NEW h \in CommitLists, Record(h),
         Range(h) \subseteq 1 .. pollerCommits, watched' \subseteq watched,
         watched' \cap Range(h) \subseteq requested,
         UNCHANGED <<gitVars, adminVars, clockVars, pollerCountVars, requested>>
  PROVE  PollerInv'
<1>1. PollerTyped /\ AfterPoll \in {"cron", "drain"} /\ AfterPoll \in TickStages
  BY DEF PollerInv, AfterPoll, TickStages
<1>2. /\ tick' \in TickType /\ tick'.at = AfterPoll /\ tick'.cron = tick.cron
      /\ poll' \in PollType /\ seenPlace' = poll.place /\ seen' = h
  <2>1. tick' = [tick EXCEPT !.at = AfterPoll] /\ poll' = NoPoll /\ tick \in TickType
    BY <1>1 DEF Record, PollerTyped
  <2>2. tick' \in TickType /\ tick'.at = AfterPoll /\ tick'.cron = tick.cron
    BY <1>1, <2>1, TickMoves
  <2>3. poll' \in PollType /\ seenPlace' = poll.place /\ seen' = h
    BY <1>1, <2>1, PollValues DEF Record
  <2> QED BY <2>2, <2>3
<1>3. UNCHANGED <<pollerHead, pollerCommits, place, onCommit, pollerActive, pollerChanges, lastPoll,
                  minute, lastCron, cronPolls, progress, pollerFailures, pollerCrashes, requested>>
  BY DEF adminVars, clockVars, gitVars, pollerCountVars
<1>4. PollerTyped'
  <2>1. poll.place \in Places
    BY DEF PollerInv, PollOK
  <2> QED BY <1>1, <1>2, <1>3, <2>1 DEF PollerTyped
<1>5. BranchesOK' /\ SeenOK' /\ PollOK'
  BY <1>1, <1>2, <1>3 DEF PollerInv, BranchesOK, SeenOK, PollOK
<1>6. CronOK'
  BY <1>1, <1>2, <1>3 DEF PollerInv, CronOK, AfterPoll
<1> QED BY <1>4, <1>5, <1>6 DEF PollerInv

\* A poll that is given up, and the rest of the project's tick with it.
LEMMA AbandonsPoller ==
  ASSUME PollerInv, Abandon, pollerFailures' \in 0 .. MaxPollerFailure,
         UNCHANGED <<gitVars, adminVars, clockVars, seenVars, progress, pollerCrashes, requested,
                     watched>>
  PROVE  PollerInv'
<1>1. PollerTyped /\ "drain" \in TickStages
  BY DEF PollerInv, TickStages
<1>2. /\ tick' \in TickType /\ tick'.at = "drain" /\ tick'.cron = tick.cron /\ poll' \in PollType
  <2>1. tick' = [tick EXCEPT !.at = "drain"] /\ poll' = NoPoll /\ tick \in TickType
    BY <1>1 DEF Abandon, PollerTyped
  <2>2. tick' \in TickType /\ tick'.at = "drain" /\ tick'.cron = tick.cron
    BY <1>1, <2>1, TickMoves
  <2>3. poll' \in PollType
    BY <1>1, <2>1, PollValues
  <2> QED BY <2>2, <2>3
<1>3. UNCHANGED <<pollerHead, pollerCommits, place, onCommit, pollerActive, pollerChanges, lastPoll,
                  minute, lastCron, cronPolls, progress, pollerCrashes, requested, seenPlace, seen,
                  watched>>
  BY DEF adminVars, clockVars, gitVars, seenVars
<1>4. PollerTyped'
  BY <1>1, <1>2, <1>3 DEF PollerTyped
<1>5. BranchesOK' /\ SeenOK' /\ PollOK' /\ CronOK'
  BY <1>2, <1>3 DEF PollerInv, BranchesOK, SeenOK, PollOK, CronOK
<1> QED BY <1>4, <1>5 DEF PollerInv

LEMMA PushCommitPoller ==
  ASSUME PollerInv, NEW p \in Places, NEW rewritten \in BOOLEAN, PushCommit(p, rewritten)
  PROVE  PollerInv'
<1> DEFINE c    == pollerCommits + 1
           old  == pollerHead[p]
           kept == IF rewritten THEN Front(old) ELSE old
           lost == Range(old) \ Range(kept)
<1>1. /\ pollerCommits < MaxPollerCommit /\ pollerCommits' = c
      /\ rewritten => Len(old) > 1
      /\ pollerHead' = [pollerHead EXCEPT ![p] = Append(kept, c)]
      /\ watched' = (watched \ lost) \cup (IF p = place THEN {c} \cap Testable ELSE {})
      /\ UNCHANGED <<place, onCommit, pollerActive, pollerChanges, lastPoll, minute, lastCron,
                     cronPolls, seenPlace, seen, progress, tick, poll, pollerFailures,
                     pollerCrashes, requested>>
  BY DEF PushCommit, adminVars, clockVars, seenVars, pollerCountVars
<1>2. /\ PollerTyped /\ BranchesOK /\ SeenOK /\ PollOK /\ CronOK
      /\ pollerHead \in [Places -> CommitLists]
  BY DEF PollerInv, PollerTyped
<1>3. old \in CommitLists
  BY <1>2
<1>4. kept \in CommitLists /\ Range(kept) \subseteq Range(old)
  BY <1>1, <1>3, FrontRange DEF CommitLists
<1>5. c \in 1 .. MaxPollerCommit /\ pollerCommits \in Nat /\ pollerCommits >= 1 /\ c > pollerCommits
  BY <1>1, <1>2, PollerAssumption DEF PollerTyped, BranchesOK
<1>6. Range(Append(kept, c)) = Range(kept) \cup {c} /\ Append(kept, c) \in CommitLists
  BY <1>4, <1>5, AppendRange DEF CommitLists
<1>7. /\ Range(pollerHead'[p]) = Range(kept) \cup {c} /\ pollerHead' \in [Places -> CommitLists]
      /\ \A q \in Places : q # p => pollerHead'[q] = pollerHead[q]
      /\ Range(old) \subseteq 1 .. pollerCommits
  BY <1>1, <1>2, <1>6 DEF BranchesOK
<1> HIDE DEF kept, lost, old, c
<1>8. watched' \subseteq watched \cup {c} /\ watched' \subseteq Testable
  BY <1>1, <1>2 DEF PollerTyped
<1>9. PollerTyped'
  <2>1. pollerCommits' \in 0 .. MaxPollerCommit
    BY <1>1, <1>5
  <2> QED BY <1>1, <1>2, <1>7, <1>8, <2>1 DEF PollerTyped
<1>10. BranchesOK'
  <2>1. \A q \in Places : Range(pollerHead'[q]) \subseteq 1 .. pollerCommits'
    BY <1>1, <1>2, <1>4, <1>5, <1>7 DEF BranchesOK, c
  <2>2. \A q \in Places : q # p => Range(pollerHead'[p]) \cap Range(pollerHead'[q]) \subseteq {1}
    BY <1>2, <1>4, <1>5, <1>7 DEF BranchesOK, c, old
  <2>3. \A q, r \in Places : q # r =>
          Range(pollerHead'[q]) \cap Range(pollerHead'[r]) \subseteq {1}
    BY <1>2, <1>7, <2>2 DEF BranchesOK
  <2>4. watched' \subseteq Range(pollerHead'[place])
    <3>1. CASE p = place
      BY <1>1, <1>2, <1>7, <3>1 DEF BranchesOK, lost, old
    <3>2. CASE p # place
      BY <1>1, <1>2, <1>7, <3>2 DEF BranchesOK, PollerTyped
    <3> QED BY <3>1, <3>2
  <2>5. watched' \subseteq 2 .. pollerCommits' /\ pollerCommits' >= 1
    <3>1. watched \subseteq 2 .. pollerCommits /\ pollerCommits' = pollerCommits + 1
      BY <1>1, <1>2 DEF BranchesOK, c
    <3>2. c = pollerCommits + 1
      BY DEF c
    <3> QED BY <1>5, <1>8, <3>1, <3>2
  <2> QED BY <1>1, <1>2, <2>1, <2>3, <2>4, <2>5 DEF BranchesOK
<1>11. SeenOK'
  BY <1>1, <1>2, <1>5, <1>8 DEF SeenOK, c
<1>12. PollOK'
  BY <1>1, <1>2, <1>5, <1>8 DEF PollOK, c
<1>13. CronOK'
  BY <1>1, <1>2 DEF CronOK
<1> QED BY <1>9, <1>10, <1>11, <1>12, <1>13 DEF PollerInv

LEMMA ConfigurePoller == ASSUME PollerInv, NEW p \in Places, Configure(p) PROVE PollerInv'
<1> USE DEF Configure, adminVars, clockVars, gitVars, seenVars, pollerCountVars
<1>1. PollerTyped'
  BY PollerAssumption DEF PollerInv, PollerTyped
<1>2. BranchesOK'
  BY DEF PollerInv, BranchesOK
<1>3. SeenOK'
  BY DEF PollerInv, SeenOK, BranchesOK
<1>4. PollOK'
  BY DEF PollerInv, PollOK, BranchesOK, SeenOK
<1>5. CronOK'
  BY DEF PollerInv, CronOK, PollOK, PollerTyped
<1> QED BY <1>1, <1>2, <1>3, <1>4, <1>5 DEF PollerInv

LEMMA TogglePoller == ASSUME PollerInv, Toggle PROVE PollerInv'
<1>1. /\ pollerChanges < MaxPollerChange /\ pollerChanges' = pollerChanges + 1
      /\ \/ onCommit' = ~onCommit /\ pollerActive' = pollerActive
         \/ pollerActive' = ~pollerActive /\ onCommit' = onCommit
  BY DEF Toggle
<1>2. UNCHANGED <<pollerHead, pollerCommits, place, lastPoll, minute, lastCron, cronPolls,
                  seenPlace, seen, progress, tick, poll, pollerFailures, pollerCrashes,
                  requested, watched>>
  BY DEF Toggle, adminVars, clockVars, gitVars, seenVars, pollerCountVars
<1>3. PollerTyped'
  <2>1. pollerChanges' \in 0 .. MaxPollerChange
    BY <1>1, PollerAssumption DEF PollerInv, PollerTyped
  <2>2. onCommit' \in BOOLEAN /\ pollerActive' \in BOOLEAN
    BY <1>1, Zenon DEF PollerInv, PollerTyped
  <2> QED BY <1>2, <2>1, <2>2 DEF PollerInv, PollerTyped
<1>4. BranchesOK' /\ SeenOK' /\ PollOK'
  BY <1>1, <1>2 DEF PollerInv, BranchesOK, SeenOK, PollOK
<1>5. CronOK'
  BY <1>1, <1>2 DEF PollerInv, CronOK, PollOK, PollerTyped
<1> QED BY <1>3, <1>4, <1>5 DEF PollerInv

LEMMA IntervalPassesPoller == ASSUME PollerInv, IntervalPasses PROVE PollerInv'
<1> USE DEF IntervalPasses, adminVars, clockVars, gitVars, seenVars, pollerCountVars
<1>1. PollerTyped'
  BY PollerAssumption DEF PollerInv, PollerTyped
<1>2. BranchesOK'
  BY DEF PollerInv, BranchesOK
<1>3. SeenOK'
  BY DEF PollerInv, SeenOK, BranchesOK
<1>4. PollOK'
  BY DEF PollerInv, PollOK, BranchesOK, SeenOK
<1>5. CronOK'
  BY DEF PollerInv, CronOK, PollOK, PollerTyped
<1> QED BY <1>1, <1>2, <1>3, <1>4, <1>5 DEF PollerInv

LEMMA MinuteBeginsPoller == ASSUME PollerInv, MinuteBegins PROVE PollerInv'
<1> USE DEF MinuteBegins, adminVars, clockVars, gitVars, seenVars, pollerCountVars
<1>1. PollerTyped'
  BY PollerAssumption DEF PollerInv, PollerTyped
<1>2. BranchesOK'
  BY DEF PollerInv, BranchesOK
<1>3. SeenOK'
  BY DEF PollerInv, SeenOK, BranchesOK
<1>4. PollOK'
  BY DEF PollerInv, PollOK, BranchesOK, SeenOK
<1>5. CronOK'
  BY DEF PollerInv, CronOK, PollOK, PollerTyped
<1> QED BY <1>1, <1>2, <1>3, <1>4, <1>5 DEF PollerInv

LEMMA MinuteEndsPoller == ASSUME PollerInv, MinuteEnds PROVE PollerInv'
<1>1. /\ minute = "cron" /\ minute' = "other" /\ lastCron' = FALSE /\ cronPolls' = 0
      /\ tick' \in TickType /\ tick'.at = tick.at /\ tick'.cron # "this"
  <2>1. tick \in TickType
    BY DEF PollerInv, PollerTyped
  <2> QED BY <2>1 DEF MinuteEnds, TickType
<1>2. UNCHANGED <<pollerHead, pollerCommits, place, onCommit, pollerActive, pollerChanges,
                  lastPoll, seenPlace, seen, progress, poll, pollerFailures, pollerCrashes,
                  requested, watched>>
  BY DEF MinuteEnds, adminVars, clockVars, gitVars, seenVars, pollerCountVars
<1>3. PollerTyped'
  BY <1>1, <1>2 DEF PollerInv, PollerTyped
<1>4. BranchesOK' /\ SeenOK' /\ PollOK'
  BY <1>1, <1>2 DEF PollerInv, BranchesOK, SeenOK, PollOK
<1>5. CronOK'
  BY <1>1, <1>2 DEF PollerInv, CronOK, PollOK, PollerTyped
<1> QED BY <1>3, <1>4, <1>5 DEF PollerInv

LEMMA TickStartsPoller == ASSUME PollerInv, TickStarts PROVE PollerInv'
<1>1. /\ tick.at = "idle" /\ tick' \in TickType /\ tick'.at = "index"
      /\ tick'.cron = "this" <=> minute = "cron" /\ ~lastCron
  BY DEF TickStarts, TickType, TickStages, PollerInv, PollerTyped
<1>2. UNCHANGED <<pollerHead, pollerCommits, place, onCommit, pollerActive, pollerChanges,
                  lastPoll, minute, lastCron, cronPolls, seenPlace, seen, progress, poll,
                  pollerFailures, pollerCrashes, requested, watched>>
  BY DEF TickStarts, adminVars, clockVars, gitVars, seenVars, pollerCountVars
<1>3. PollerTyped'
  BY <1>1, <1>2 DEF PollerInv, PollerTyped
<1>4. BranchesOK' /\ SeenOK' /\ PollOK'
  BY <1>1, <1>2 DEF PollerInv, BranchesOK, SeenOK, PollOK
<1>5. CronOK'
  BY <1>1, <1>2 DEF PollerInv, CronOK, PollOK, PollerTyped
<1> QED BY <1>3, <1>4, <1>5 DEF PollerInv

LEMMA IndexedPoller == ASSUME PollerInv, Indexed PROVE PollerInv'
<1>1. /\ tick.at = "index" /\ tick' \in TickType /\ tick'.at \in {"git", "drain"}
      /\ tick'.cron = tick.cron
  <2>1. tick \in TickType /\ "git" \in TickStages /\ "drain" \in TickStages
    BY DEF PollerInv, PollerTyped, TickStages
  <2> QED BY <2>1, TickMoves DEF Indexed
<1>2. UNCHANGED <<pollerHead, pollerCommits, place, onCommit, pollerActive, pollerChanges,
                  lastPoll, minute, lastCron, cronPolls, seenPlace, seen, progress, poll,
                  pollerFailures, pollerCrashes, requested, watched>>
  BY DEF Indexed, adminVars, clockVars, gitVars, seenVars, pollerCountVars
<1>3. PollerTyped'
  BY <1>1, <1>2 DEF PollerInv, PollerTyped
<1>4. BranchesOK' /\ SeenOK' /\ PollOK'
  BY <1>1, <1>2 DEF PollerInv, BranchesOK, SeenOK, PollOK
<1>5. CronOK'
  BY <1>1, <1>2 DEF PollerInv, CronOK, PollOK, PollerTyped
<1> QED BY <1>3, <1>4, <1>5 DEF PollerInv

LEMMA GitCheckPoller == ASSUME PollerInv, GitCheck PROVE PollerInv'
<1>1. /\ tick.at = "git" /\ lastPoll' = "young" /\ tick' \in TickType /\ tick'.cron = tick.cron
      /\ poll' \in PollType
      /\ \/ tick'.at = "cron"
         \/ tick'.at = "fetch" /\ poll'.trigger = "git" /\ poll'.place = place
  <2>1. tick \in TickType /\ "cron" \in TickStages /\ "fetch" \in TickStages /\ poll \in PollType
        /\ PollerTyped
    BY DEF PollerInv, PollerTyped, TickStages
  <2>2. tick.at = "git" /\ lastPoll' = "young"
    BY DEF GitCheck
  <2>3. CASE tick' = [tick EXCEPT !.at = "cron"] /\ poll' = poll
    BY <2>1, <2>2, <2>3, TickMoves
  <2>4. CASE BeginPoll("git")
    <3>1. /\ tick' = [tick EXCEPT !.at = "fetch"]
          /\ poll' = [NoPoll EXCEPT !.trigger = "git", !.place = place]
      BY <2>4 DEF BeginPoll
    <3>2. tick' \in TickType /\ tick'.at = "fetch" /\ tick'.cron = tick.cron
      BY <2>1, <3>1, TickMoves
    <3>3. poll' \in PollType /\ poll'.trigger = "git" /\ poll'.place = place
      BY <2>1, <3>1, PollValues
    <3> QED BY <2>2, <3>2, <3>3
  <2> QED BY <2>3, <2>4 DEF GitCheck
<1>2. UNCHANGED <<pollerHead, pollerCommits, place, onCommit, pollerActive, pollerChanges,
                  minute, lastCron, cronPolls, seenPlace, seen, progress, pollerFailures,
                  pollerCrashes, requested, watched>>
  BY DEF GitCheck, adminVars, clockVars, gitVars, seenVars, pollerCountVars
<1>3. PollerTyped'
  BY <1>1, <1>2 DEF PollerInv, PollerTyped
<1>4. BranchesOK' /\ SeenOK' /\ PollOK'
  BY <1>1, <1>2 DEF PollerInv, PollerTyped, BranchesOK, SeenOK, PollOK
<1>5. CronOK'
  BY <1>1, <1>2 DEF PollerInv, CronOK, PollOK, PollerTyped
<1> QED BY <1>3, <1>4, <1>5 DEF PollerInv

LEMMA CronCheckPoller == ASSUME PollerInv, CronCheck PROVE PollerInv'
<1>1. /\ tick.at = "cron" /\ tick' \in TickType /\ tick'.cron = tick.cron /\ poll' \in PollType
      /\ \/ /\ tick'.at = "drain" /\ UNCHANGED <<lastCron, cronPolls>>
         \/ /\ tick'.at = "fetch" /\ poll'.trigger = "schedule" /\ poll'.place = place
            /\ IF tick.cron = "this" THEN lastCron' = TRUE /\ cronPolls' = cronPolls + 1
                ELSE UNCHANGED <<lastCron, cronPolls>>
  <2>1. tick \in TickType /\ "drain" \in TickStages /\ "fetch" \in TickStages /\ poll \in PollType
        /\ PollerTyped
    BY DEF PollerInv, PollerTyped, TickStages
  <2>2. tick.at = "cron"
    BY DEF CronCheck
  <2>3. CASE tick' = [tick EXCEPT !.at = "drain"] /\ UNCHANGED <<poll, lastCron, cronPolls>>
    BY <2>1, <2>2, <2>3, TickMoves
  <2>4. CASE /\ BeginPoll("schedule")
             /\ IF tick.cron = "this" THEN lastCron' = TRUE /\ cronPolls' = cronPolls + 1
                 ELSE UNCHANGED <<lastCron, cronPolls>>
    <3>1. /\ tick' = [tick EXCEPT !.at = "fetch"]
          /\ poll' = [NoPoll EXCEPT !.trigger = "schedule", !.place = place]
      BY <2>4 DEF BeginPoll
    <3>2. tick' \in TickType /\ tick'.at = "fetch" /\ tick'.cron = tick.cron
      BY <2>1, <3>1, TickMoves
    <3>3. poll' \in PollType /\ poll'.trigger = "schedule" /\ poll'.place = place
      BY <2>1, <3>1, PollValues
    <3> QED BY <2>2, <2>4, <3>2, <3>3
  <2> QED BY <2>3, <2>4 DEF CronCheck
<1>2. UNCHANGED <<pollerHead, pollerCommits, place, onCommit, pollerActive, pollerChanges,
                  lastPoll, minute, seenPlace, seen, progress, pollerFailures, pollerCrashes,
                  requested, watched>>
  BY DEF CronCheck, adminVars, clockVars, gitVars, seenVars, pollerCountVars
<1>3. PollerTyped'
  <2>1. lastCron \in BOOLEAN /\ cronPolls \in Nat /\ cronPolls + 1 \in Nat
    BY DEF PollerInv, PollerTyped
  <2>2. \/ lastCron' = lastCron /\ cronPolls' = cronPolls
        \/ lastCron' = TRUE /\ cronPolls' = cronPolls + 1
    BY <1>1
  <2>3. cronPolls' \in Nat
    BY <2>1, <2>2
  <2>4. lastCron' \in BOOLEAN
    BY <2>1, <2>2, Zenon
  <2> QED BY <1>1, <1>2, <2>3, <2>4 DEF PollerInv, PollerTyped
<1>4. BranchesOK' /\ SeenOK' /\ PollOK'
  BY <1>1, <1>2 DEF PollerInv, PollerTyped, BranchesOK, SeenOK, PollOK
<1>5. CronOK'
  BY <1>1, <1>2 DEF PollerInv, CronOK, PollOK, PollerTyped
<1> QED BY <1>3, <1>4, <1>5 DEF PollerInv

LEMMA GitFailsPoller == ASSUME PollerInv, GitFails PROVE PollerInv'
<1>1. pollerFailures' \in 0 .. MaxPollerFailure
  BY PollerAssumption DEF GitFails, PollerInv, PollerTyped
<1> QED BY <1>1, AbandonsPoller DEF GitFails

LEMMA NewBaselinePoller == ASSUME PollerInv, NewBaseline PROVE PollerInv'
<1> DEFINE h == pollerHead[poll.place]
<1>1. tick.at = "fetch" /\ poll.place \in Places
  BY DEF NewBaseline, PollerInv, PollOK
<1>2. h \in CommitLists /\ Range(h) \subseteq 1 .. pollerCommits
  BY <1>1 DEF PollerInv, PollerTyped, BranchesOK
<1>3. /\ Record(h) /\ watched' = watched \ Range(h)
      /\ UNCHANGED <<gitVars, adminVars, clockVars, pollerCountVars, requested>>
  BY DEF NewBaseline
<1> HIDE DEF h
<1> QED BY <1>1, <1>2, <1>3, RecordsPoller

\* Nothing watched below the base of a poll is missed.
LEMMA BaseIsCovered ==
  ASSUME PollerInv
  PROVE  /\ Base \in CommitLists /\ Range(Base) \subseteq 1 .. pollerCommits
         /\ watched \cap Range(Base) \subseteq requested
<1>1. Range(<<1>>) = {1} /\ Range(<<>>) = {}
  BY DEF Range
<1>2. CASE Base = seen
  BY <1>2 DEF PollerInv, PollerTyped, SeenOK
<1>3. CASE Base = progress
  BY <1>1, <1>3 DEF PollerInv, PollerTyped, BranchesOK, NoCommit
<1> QED BY <1>2, <1>3 DEF Base

LEMMA NothingNewPoller == ASSUME PollerInv, NothingNew PROVE PollerInv'
<1> DEFINE h == pollerHead[poll.place]
<1>1. tick.at = "fetch" /\ poll.place \in Places /\ Base = h
  BY DEF NothingNew, PollerInv, PollOK
<1>2. h \in CommitLists /\ Range(h) \subseteq 1 .. pollerCommits
  BY <1>1 DEF PollerInv, PollerTyped, BranchesOK
<1>3. /\ Record(h)
      /\ UNCHANGED <<gitVars, adminVars, clockVars, pollerCountVars, requested, watched>>
  BY DEF NothingNew
<1> HIDE DEF h
<1>4. watched \cap Range(h) \subseteq requested
  BY <1>1, BaseIsCovered
<1> QED BY <1>1, <1>2, <1>3, <1>4, RecordsPoller

LEMMA FetchedPoller == ASSUME PollerInv, Fetched PROVE PollerInv'
<1>1. tick.at = "fetch" /\ poll.place \in Places /\ tick \in TickType /\ "compare" \in TickStages
  BY DEF Fetched, PollerInv, PollOK, PollerTyped, TickStages
<1>2. /\ pollerHead[poll.place] \in CommitLists
      /\ Range(pollerHead[poll.place]) \subseteq 1 .. pollerCommits
      /\ PollerTyped
  BY <1>1 DEF PollerInv, PollerTyped, BranchesOK
<1>3. /\ tick' \in TickType /\ tick'.at = "compare" /\ tick'.cron = tick.cron
  BY <1>1, TickMoves DEF Fetched
<1>4. /\ poll' \in PollType /\ poll'.trigger = poll.trigger /\ poll'.place = poll.place
      /\ poll'.head = pollerHead[poll.place] /\ poll'.base = Base
  <2> DEFINE tip == pollerHead[poll.place]
  <2>1. poll' = [poll EXCEPT !.head = tip, !.base = Base]
    BY DEF Fetched
  <2>2. tip \in CommitLists /\ Base \in CommitLists
    BY <1>2, BaseIsCovered
  <2> HIDE DEF tip
  <2>3. /\ poll' \in PollType /\ poll'.trigger = poll.trigger /\ poll'.place = poll.place
        /\ poll'.head = tip /\ poll'.base = Base
    <3>1. poll \in PollType
      BY <1>2 DEF PollerTyped
    <3> DEFINE n == [poll EXCEPT !.head = tip, !.base = Base]
    <3>2. /\ n \in PollType /\ n.trigger = poll.trigger /\ n.place = poll.place
          /\ n.head = tip /\ n.base = Base
      BY <2>2, <3>1 DEF PollType
    <3> HIDE DEF n
    <3>3. poll' = n
      BY <2>1 DEF n
    <3> QED BY <3>2, <3>3
  <2> QED BY <2>3 DEF tip
<1>5. UNCHANGED <<pollerHead, pollerCommits, place, onCommit, pollerActive, pollerChanges,
                  lastPoll, minute, lastCron, cronPolls, seenPlace, seen, progress,
                  pollerFailures, pollerCrashes, requested, watched>>
  BY DEF Fetched, adminVars, clockVars, gitVars, seenVars, pollerCountVars
<1>6. PollerTyped'
  BY <1>2, <1>3, <1>4, <1>5 DEF PollerTyped
<1>7. BranchesOK' /\ SeenOK' /\ CronOK'
  BY <1>1, <1>3, <1>4, <1>5 DEF PollerInv, BranchesOK, SeenOK, CronOK
<1>8. PollOK'
  <2>1. poll.place # place => watched \cap Range(pollerHead[poll.place]) = {}
    BY <1>1 DEF PollerInv, BranchesOK, PollerTyped
  <2> QED BY <1>1, <1>2, <1>3, <1>4, <1>5, <2>1, BaseIsCovered DEF PollerInv, PollOK
<1> QED BY <1>6, <1>7, <1>8 DEF PollerInv

LEMMA HistoryBrokenPoller == ASSUME PollerInv, HistoryBroken PROVE PollerInv'
<1>1. /\ pollerFailures' \in 0 .. MaxPollerFailure /\ UNCHANGED <<progress, pollerCrashes>>
  BY DEF HistoryBroken, PollerInv, PollerTyped, pollerCountVars
<1> QED BY <1>1, AbandonsPoller DEF HistoryBroken

LEMMA OnlyAssetsPoller == ASSUME PollerInv, OnlyAssets PROVE PollerInv'
<1>1. /\ tick.at = "compare" /\ poll.head \in CommitLists /\ poll.base \in CommitLists
      /\ IsPrefix(poll.base, poll.head) /\ ~TestableBetween(poll.base, poll.head)
      /\ watched \subseteq Testable
  BY DEF OnlyAssets, PollerInv, PollerTyped, PollType
<1>2. Range(poll.head) \cap Testable \subseteq Range(poll.base)
  BY <1>1, PrefixRange DEF CommitLists
<1>3. /\ watched \cap Range(poll.head) \subseteq requested
      /\ Range(poll.head) \subseteq 1 .. pollerCommits
  BY <1>1, <1>2 DEF PollerInv, PollOK
<1> DEFINE h == poll.head
<1>4. /\ Record(h)
      /\ UNCHANGED <<gitVars, adminVars, clockVars, pollerCountVars, requested, watched>>
  BY DEF OnlyAssets
<1> QED BY <1>1, <1>3, <1>4, RecordsPoller

LEMMA SubmitCommitPoller == ASSUME PollerInv, SubmitCommit PROVE PollerInv'
<1>1. CASE ~pollerActive
  <2>1. /\ Abandon /\ pollerFailures' \in 0 .. MaxPollerFailure
        /\ UNCHANGED <<gitVars, adminVars, clockVars, seenVars, progress, pollerCrashes, requested,
                       watched>>
    BY <1>1 DEF SubmitCommit, PollerInv, PollerTyped, pollerCountVars
  <2> QED BY <2>1, AbandonsPoller
<1>2. CASE pollerActive
  <2>1. /\ tick.at = "compare" /\ requested' = requested \cup Range(pollerHead[place])
        /\ tick' = [tick EXCEPT !.at = "record"]
        /\ UNCHANGED <<poll, gitVars, adminVars, clockVars, seenVars, pollerCountVars, watched>>
    BY <1>2 DEF SubmitCommit
  <2>2. UNCHANGED <<pollerHead, pollerCommits, place, onCommit, pollerActive, pollerChanges,
                    lastPoll, minute, lastCron, cronPolls, progress, pollerFailures, pollerCrashes,
                    seenPlace, seen, poll, watched>>
    BY <2>1 DEF adminVars, clockVars, gitVars, seenVars, pollerCountVars
  <2>3. PollerTyped /\ "record" \in TickStages
    BY DEF PollerInv, TickStages
  <2>4. tick' \in TickType /\ tick'.at = "record" /\ tick'.cron = tick.cron
    BY <2>1, <2>3, TickMoves DEF PollerTyped
  <2>5. Range(pollerHead[place]) \subseteq 1 .. pollerCommits /\ watched \subseteq requested'
        /\ requested \subseteq requested'
    BY <2>1, <2>3 DEF PollerInv, BranchesOK, PollerTyped
  <2>6. PollerTyped'
    <3>1. requested' \subseteq 1 .. MaxPollerCommit
      BY <2>1, <2>3, <2>5, PollerAssumption DEF PollerTyped
    <3> QED BY <2>2, <2>3, <2>4, <3>1 DEF PollerTyped
  <2>7. BranchesOK' /\ SeenOK' /\ PollOK' /\ CronOK'
    BY <2>1, <2>2, <2>4, <2>5 DEF PollerInv, BranchesOK, SeenOK, PollOK, CronOK
  <2> QED BY <2>6, <2>7 DEF PollerInv
<1> QED BY <1>1, <1>2

LEMMA RecordSubmittedPoller == ASSUME PollerInv, RecordSubmitted PROVE PollerInv'
<1> DEFINE h == poll.head
<1>1. /\ tick.at = "record" /\ h \in CommitLists /\ watched \cap Range(h) \subseteq requested
      /\ Range(h) \subseteq 1 .. pollerCommits
  BY DEF RecordSubmitted, PollerInv, PollerTyped, PollType, PollOK
<1>2. /\ Record(h)
      /\ UNCHANGED <<gitVars, adminVars, clockVars, pollerCountVars, requested, watched>>
  BY DEF RecordSubmitted
<1> QED BY <1>1, <1>2, RecordsPoller

LEMMA DrainedPoller == ASSUME PollerInv, Drained PROVE PollerInv'
<1>1. tick' \in TickType /\ tick'.at = "idle" /\ tick'.cron = "no"
  BY DEF Drained, IdleTick, TickType, TickStages
<1>2. UNCHANGED <<pollerHead, pollerCommits, place, onCommit, pollerActive, pollerChanges,
                  lastPoll, minute, lastCron, cronPolls, seenPlace, seen, progress, poll,
                  pollerFailures, pollerCrashes, requested, watched>>
  BY DEF Drained, adminVars, clockVars, gitVars, seenVars, pollerCountVars
<1>3. PollerTyped'
  BY <1>1, <1>2 DEF PollerInv, PollerTyped
<1>4. BranchesOK' /\ SeenOK' /\ PollOK'
  BY <1>1, <1>2 DEF PollerInv, BranchesOK, SeenOK, PollOK
<1>5. CronOK'
  BY <1>1, <1>2 DEF PollerInv, CronOK, PollOK, PollerTyped
<1> QED BY <1>3, <1>4, <1>5 DEF PollerInv

LEMMA PollerCrashPoller ==
  ASSUME PollerInv, NEW halfway \in BOOLEAN, PollerCrash(halfway)
  PROVE  PollerInv'
<1>1. /\ pollerCrashes' = pollerCrashes + 1 /\ pollerCrashes < MaxPollerCrash
      /\ tick' = IdleTick /\ poll' = NoPoll
      /\ seenPlace' = seenPlace \/ (tick.at = "fetch" /\ seenPlace' = poll.place)
      /\ UNCHANGED <<pollerHead, pollerCommits, place, onCommit, pollerActive, pollerChanges,
                     lastPoll, minute, lastCron, cronPolls, progress, pollerFailures, seen,
                     requested, watched>>
  BY DEF PollerCrash, adminVars, clockVars, gitVars
<1>2. /\ PollerTyped /\ tick' \in TickType /\ tick'.at = "idle" /\ tick'.cron = "no"
      /\ poll' \in PollType
  BY <1>1, PollValues DEF PollerInv, IdleTick, TickType, TickStages
<1>3. PollerTyped'
  <2>1. seenPlace' \in Places \cup {NoPlace} /\ pollerCrashes' \in 0 .. MaxPollerCrash
    BY <1>1, <1>2, PollerAssumption DEF PollerInv, PollOK, PollerTyped
  <2> QED BY <1>1, <1>2, <2>1 DEF PollerTyped
<1>4. BranchesOK' /\ SeenOK' /\ PollOK' /\ CronOK'
  BY <1>1, <1>2 DEF PollerInv, BranchesOK, SeenOK, PollOK, CronOK
<1> QED BY <1>3, <1>4 DEF PollerInv

LEMMA PollerStep == PollerInv /\ [PollerNext]_pollerVars => PollerInv'
<1> SUFFICES ASSUME PollerInv, [PollerNext]_pollerVars PROVE PollerInv'
  OBVIOUS
<1>1. CASE UNCHANGED pollerVars
  BY <1>1 DEF pollerVars, PollerInv, PollerTyped, BranchesOK, SeenOK, PollOK, CronOK
<1>2. CASE \E p \in Places : Configure(p) \/ \E rewritten \in BOOLEAN : PushCommit(p, rewritten)
  BY <1>2, ConfigurePoller, PushCommitPoller
<1>3. CASE Toggle \/ IntervalPasses \/ MinuteBegins \/ MinuteEnds
  BY <1>3, TogglePoller, IntervalPassesPoller, MinuteBeginsPoller, MinuteEndsPoller
<1>4. CASE TickStep
  BY <1>4, TickStartsPoller, IndexedPoller, GitCheckPoller, CronCheckPoller, DrainedPoller,
     NewBaselinePoller, NothingNewPoller, FetchedPoller, HistoryBrokenPoller, OnlyAssetsPoller,
     SubmitCommitPoller, RecordSubmittedPoller DEF TickStep, PollStep
<1>5. CASE GitFails \/ \E halfway \in BOOLEAN : PollerCrash(halfway)
  BY <1>5, GitFailsPoller, PollerCrashPoller
<1> QED BY <1>1, <1>2, <1>3, <1>4, <1>5 DEF PollerNext

LEMMA PollerInvHolds == PollerInit /\ [][PollerNext]_pollerVars => []PollerInv
<1>1. PollerInit => PollerInv
  BY PollerStart
<1>2. PollerInv /\ [PollerNext]_pollerVars => PollerInv'
  BY PollerStep
<1> QED BY <1>1, <1>2, PTL

LEMMA PollerInvMeans == ASSUME PollerInv PROVE GitPollerTypeOK /\ PollsMissNothing
<1>1. GitPollerTypeOK
  BY DEF PollerInv, PollerTyped, GitPollerTypeOK, TickType, TickStages, PollType, CommitLists
<1>2. NothingSkipped /\ CronPolledOnce
  BY DEF PollerInv, SeenOK, CronOK, NothingSkipped, CronPolledOnce
<1> QED BY <1>1, <1>2 DEF PollsMissNothing

\* No watched commit counts as seen before a request covers it, whatever is pushed, configured,
\* paused or restarted between the steps of a poll, and a minute of the Cron expression is polled
\* once (automation/poller.ts, projects/background-scheduler.ts).
THEOREM PollsMissNothingCorrect == PollerSpec => []PollsMissNothing
<1>1. PollerInv => PollsMissNothing
  BY PollerInvMeans
<1> QED BY <1>1, PollerInvHolds, PTL DEF PollerSpec

-----------------------------------------------------------------------------
(***************************************************************************)
(* RepositoryIndex: the tables are those of one commit.  A caller between  *)
(* two awaits holds a head that is a commit of the branch, and a patch that*)
(* was applied grows the tree it was made on.                              *)
(***************************************************************************)
ReportFiles == {Absent, Bad, "report"}
CommitType  == [parent : Nat, files : [Paths -> Files], reports : [Reports -> ReportFiles],
                by : {"others", "patch"}]
IndexRowType     == [id : {Absent} \cup ScenarioIds, commit : Nat]
SyncType    == [step : {"idle", "head", "checked"}, head : Nat]

\* The commits, each after its parent; what callers and the tables name is one of them.
BranchOK ==
  /\ commits \in Seq(CommitType)
  /\ \A c \in 1 .. Len(commits) : commits[c].parent < c
  /\ indexHead \in 0 .. Len(commits)
SyncsOK ==
  /\ sync \in [Syncers -> SyncType]
  /\ \A s \in Syncers : sync[s].step /= "idle" => sync[s].head \in 1 .. Len(commits)
IndexRowsOK ==
  /\ indexed \in 0 .. Len(commits)
  /\ rows \in [Paths -> IndexRowType]
  /\ \A p \in Paths : rows[p] /= NoIndexRow =>
       rows[p].id \in ScenarioIds /\ rows[p].commit \in 1 .. Len(commits)

IndexInv == BranchOK /\ SyncsOK /\ IndexRowsOK /\ IndexIsOneCommit /\ PatchKeepsScenarios

\* Only callers move: branch and tables rest.
LEMMA SyncMoves ==
  ASSUME IndexInv, NEW s \in Syncers, NEW e \in SyncType, sync' = [sync EXCEPT ![s] = e],
         e.step /= "idle" => e.head \in 1 .. Len(commits),
         UNCHANGED <<branchVars, tableVars>>
  PROVE  IndexInv'
<1> USE DEF IndexInv, branchVars, tableVars
<1>1. commits' = commits /\ indexHead' = indexHead /\ rows' = rows /\ reports' = reports
      /\ errors' = errors /\ indexed' = indexed
  OBVIOUS
<1>2. BranchOK'
  BY <1>1 DEF BranchOK
<1>3. SyncsOK'
  BY <1>1 DEF SyncsOK
<1>4. IndexRowsOK'
  BY <1>1 DEF IndexRowsOK, NoIndexRow
<1>5. IndexIsOneCommit'
  BY <1>1 DEF IndexIsOneCommit, TreeOf, EmptyTree, NoIndexRow
<1>6. PatchKeepsScenarios'
  BY <1>1 DEF PatchKeepsScenarios, TreeOf, EmptyTree, ScenariosOf
<1> QED BY <1>2, <1>3, <1>4, <1>5, <1>6

LEMMA TreeType ==
  ASSUME BranchOK, NEW c \in 0 .. Len(commits)
  PROVE  /\ TreeOf(c).files \in [Paths -> Files]
         /\ TreeOf(c).reports \in [Reports -> ReportFiles]
<1>1. c /= 0 => commits[c] \in CommitType
  BY DEF BranchOK
<1> QED BY <1>1 DEF CommitType, TreeOf, EmptyTree, Files, ReportFiles

\* What a push leaves of what was there.
LEMMA BranchGrown ==
  ASSUME BranchOK, NEW p \in 0 .. Len(commits), NEW f \in [Paths -> Files],
         NEW r \in [Reports -> ReportFiles], NEW b \in {"others", "patch"}, Grows(p, f, r, b)
  PROVE  /\ Len(commits') = Len(commits) + 1 /\ Len(commits) \in Nat
         /\ \A c \in 1 .. Len(commits) : commits'[c] = commits[c]
         /\ commits'[Len(commits) + 1] = [parent |-> p, files |-> f, reports |-> r, by |-> b]
         /\ \A c \in 0 .. Len(commits) : TreeOf(c)' = TreeOf(c)
         /\ BranchOK'
<1> DEFINE new == [parent |-> p, files |-> f, reports |-> r, by |-> b]
<1>1. new \in CommitType /\ new.parent = p
  BY DEF CommitType, BranchOK
<1>2. commits' = Append(commits, new) /\ indexHead' = Len(commits')
  BY DEF Grows
<1> HIDE DEF new
<1>3. /\ Len(commits') = Len(commits) + 1 /\ Len(commits) \in Nat
      /\ \A c \in 1 .. Len(commits) : commits'[c] = commits[c]
      /\ commits'[Len(commits) + 1] = new /\ commits' \in Seq(CommitType)
  BY <1>1, <1>2 DEF BranchOK
<1>4. BranchOK'
  <2>1. \A c \in 1 .. Len(commits') : c \in 1 .. Len(commits) \/ c = Len(commits) + 1
    BY <1>3
  <2> QED BY <1>1, <1>2, <1>3, <2>1 DEF BranchOK
<1>5. \A c \in 0 .. Len(commits) : c = 0 \/ c \in 1 .. Len(commits)
  BY <1>3
<1>6. \A c \in 0 .. Len(commits) : TreeOf(c)' = TreeOf(c)
  BY <1>3, <1>5 DEF TreeOf, EmptyTree
<1> QED BY <1>3, <1>4, <1>6 DEF new

\* The branch grows by a commit that loses no scenario if it is a patch.
LEMMA BranchGrows ==
  ASSUME IndexInv, NEW p \in 0 .. Len(commits), NEW f \in [Paths -> Files],
         NEW r \in [Reports -> ReportFiles], NEW b \in {"others", "patch"}, Grows(p, f, r, b),
         UNCHANGED <<sync, tableVars>>,
         b = "patch" =>
           /\ \A x \in ScenariosOf(TreeOf(p).files) : \E q \in Paths : f[q] = TreeOf(p).files[x]
           /\ \A x, y \in ScenariosOf(f) : x /= y => f[x] /= f[y]
  PROVE  IndexInv'
<1> USE DEF IndexInv, tableVars
<1>1. /\ Len(commits') = Len(commits) + 1 /\ Len(commits) \in Nat
      /\ \A c \in 1 .. Len(commits) : commits'[c] = commits[c]
      /\ commits'[Len(commits) + 1] = [parent |-> p, files |-> f, reports |-> r, by |-> b]
      /\ \A c \in 0 .. Len(commits) : TreeOf(c)' = TreeOf(c)
      /\ BranchOK'
  BY BranchGrown
<1>2. rows' = rows /\ reports' = reports /\ errors' = errors /\ indexed' = indexed /\ sync' = sync
  OBVIOUS
<1>3. SyncsOK'
  BY <1>1, <1>2 DEF SyncsOK
<1>4. IndexRowsOK'
  BY <1>1, <1>2 DEF IndexRowsOK, NoIndexRow
<1>5. IndexIsOneCommit'
  <2>1. TreeOf(indexed)' = TreeOf(indexed)
    BY <1>1, <1>2 DEF IndexRowsOK
  <2>2. \A x \in Paths : rows[x] /= NoIndexRow => commits'[rows[x].commit] = commits[rows[x].commit]
    BY <1>1 DEF IndexRowsOK
  <2> QED BY <1>2, <2>1, <2>2 DEF IndexIsOneCommit, NoIndexRow
<1>6. PatchKeepsScenarios'
  <2> SUFFICES ASSUME NEW c \in 1 .. Len(commits'), commits'[c].by = "patch",
                      NEW q, q = commits'[c].parent
               PROVE  /\ \A x \in ScenariosOf(TreeOf(q)'.files) :
                           \E y \in Paths : commits'[c].files[y] = TreeOf(q)'.files[x]
                      /\ \A x, y \in ScenariosOf(commits'[c].files) :
                           x /= y => commits'[c].files[x] /= commits'[c].files[y]
    BY DEF PatchKeepsScenarios, ScenariosOf, TreeOf, EmptyTree
  <2>1. c \in 1 .. Len(commits) \/ c = Len(commits) + 1
    BY <1>1
  <2>2. CASE c = Len(commits) + 1
    <3>1. commits'[c].parent = p /\ commits'[c].files = f /\ commits'[c].by = b
      BY <1>1, <2>2
    <3>2. TreeOf(q)' = TreeOf(p)
      BY <1>1, <3>1
    <3> QED BY <3>1, <3>2
  <2>3. CASE c \in 1 .. Len(commits)
    <3>1. commits'[c] = commits[c] /\ commits[c] \in CommitType /\ commits[c].parent < c
      BY <1>1, <2>3 DEF BranchOK
    <3>2. q \in 0 .. Len(commits) /\ q = commits[c].parent
      BY <1>1, <2>3, <3>1 DEF CommitType
    <3>3. TreeOf(q)' = TreeOf(q)
      BY <1>1, <3>2
    <3>4. /\ \A x \in ScenariosOf(TreeOf(q).files) :
               \E y \in Paths : commits[c].files[y] = TreeOf(q).files[x]
          /\ \A x, y \in ScenariosOf(commits[c].files) :
               x /= y => commits[c].files[x] /= commits[c].files[y]
      <4>1. c \in {n \in 1 .. Len(commits) : commits[n].by = "patch"}
        BY <2>3, <3>1
      <4>2. /\ \A x \in ScenariosOf(TreeOf(commits[c].parent).files) :
                 \E y \in Paths : commits[c].files[y] = TreeOf(commits[c].parent).files[x]
            /\ \A x, y \in ScenariosOf(commits[c].files) :
                 x /= y => commits[c].files[x] /= commits[c].files[y]
        BY <4>1, Zenon DEF PatchKeepsScenarios
      <4> QED BY <3>2, <4>2
    <3> QED BY <3>1, <3>3, <3>4
  <2> QED BY <2>1, <2>2, <2>3
<1> QED BY <1>1, <1>3, <1>4, <1>5, <1>6

LEMMA IndexStart == IndexInit => IndexInv
<1> USE IndexAssumption DEF IndexInit, Absent, NoIndexRow
<1>1. IndexInit => BranchOK
  BY DEF BranchOK
<1>2. IndexInit => SyncsOK
  BY DEF SyncsOK, SyncType, Idle
<1>3. IndexInit => IndexRowsOK
  BY DEF IndexRowsOK, IndexRowType
<1>4. IndexInit => IndexIsOneCommit
  BY DEF IndexIsOneCommit, TreeOf, EmptyTree
<1>5. IndexInit => PatchKeepsScenarios
  BY DEF PatchKeepsScenarios
<1> QED BY <1>1, <1>2, <1>3, <1>4, <1>5 DEF IndexInv

LEMMA OthersPushInv == ASSUME IndexInv, OthersPushBranch PROVE IndexInv'
<1>1. indexHead \in 0 .. Len(commits) /\ BranchOK
  BY DEF IndexInv, BranchOK
<1> DEFINE t == TreeOf(indexHead)
<1>2. t.files \in [Paths -> Files] /\ t.reports \in [Reports -> ReportFiles]
  BY <1>1, TreeType
<1> HIDE DEF t
<1>3. UNCHANGED <<sync, tableVars>>
  BY DEF OthersPushBranch
<1>4. CASE \E p \in Paths, f \in Files : Grows(indexHead, [t.files EXCEPT ![p] = f], t.reports,
                                              "others")
  <2>1. PICK p \in Paths, f \in Files : Grows(indexHead, [t.files EXCEPT ![p] = f], t.reports,
                                            "others")
    BY <1>4
  <2>2. [t.files EXCEPT ![p] = f] \in [Paths -> Files]
    BY <1>2
  <2> QED BY <1>1, <1>2, <1>3, <2>1, <2>2, BranchGrows
<1>5. CASE \E r \in Reports, f \in ReportFiles :
             Grows(indexHead, t.files, [t.reports EXCEPT ![r] = f], "others")
  <2>1. PICK r \in Reports, f \in ReportFiles :
               Grows(indexHead, t.files, [t.reports EXCEPT ![r] = f], "others")
    BY <1>5
  <2>2. [t.reports EXCEPT ![r] = f] \in [Reports -> ReportFiles]
    BY <1>2
  <2> QED BY <1>1, <1>2, <1>3, <2>1, <2>2, BranchGrows
<1> QED BY <1>4, <1>5 DEF OthersPushBranch, t, ReportFiles

LEMMA Rewritten == ASSUME IndexInv, BranchRewritten PROVE IndexInv'
<1>1. indexHead \in 1 .. Len(commits) /\ BranchOK /\ Len(commits) \in Nat
  BY DEF IndexInv, BranchOK, BranchRewritten
<1>2. commits[indexHead].parent \in Nat /\ commits[indexHead].parent < indexHead
  <2>1. commits[indexHead] \in CommitType
    BY <1>1 DEF BranchOK
  <2> QED BY <1>1, <2>1 DEF BranchOK, CommitType
<1>3. PICK p \in 0 .. Len(commits) : p = commits[indexHead].parent
  BY <1>1, <1>2
<1>4. Grows(p, TreeOf(p).files, TreeOf(p).reports, "others") /\ UNCHANGED <<sync, tableVars>>
  BY <1>3 DEF BranchRewritten
<1>5. TreeOf(p).files \in [Paths -> Files] /\ TreeOf(p).reports \in [Reports -> ReportFiles]
  BY <1>1, TreeType
<1> QED BY <1>4, <1>5, BranchGrows

\* git apply moves a file with its contents or to a free path, so what the patch does not name
\* stays and what it names keeps its identifier.
LEMMA PatchKeeps ==
  ASSUME NEW files \in [Paths -> Files], NEW patch \in Patches, Applies(files, patch),
         ValidContents(files, Patched(files, patch), patch)
  PROVE  /\ Patched(files, patch) \in [Paths -> Files]
         /\ \A x \in ScenariosOf(files) : \E q \in Paths : Patched(files, patch)[q] = files[x]
         /\ \A x, y \in ScenariosOf(Patched(files, patch)) :
              x /= y => Patched(files, patch)[x] /= Patched(files, patch)[y]
<1>1. /\ patch \subseteq Changes
      /\ \A c, d \in patch : c /= d => Touched(c) \cap Touched(d) = {}
  BY DEF Patches, ValidText
<1>2. \A c \in patch : /\ c.old \in {Absent} \cup Paths /\ c.new \in Paths /\ c.file \in Files
                       /\ c.new \in Touched(c) /\ c.new /= Absent
                       /\ c.old /= Absent => c.old \in Touched(c)
  BY <1>1, IndexAssumption DEF Changes, Touched, Absent, Files
<1>3. \A c, d \in patch : c.new = d.new => c = d
  BY <1>1, <1>2
<1>4. \A c \in patch : Patched(files, patch)[c.new] = c.file
  <2> SUFFICES ASSUME NEW c \in patch PROVE Patched(files, patch)[c.new] = c.file
    OBVIOUS
  <2>1. (CHOOSE d \in patch : d.new = c.new) = c
    <3>1. (CHOOSE d \in patch : d.new = c.new) \in patch
          /\ (CHOOSE d \in patch : d.new = c.new).new = c.new
      OBVIOUS
    <3> QED BY <3>1, <1>3
  <2> QED BY <2>1, <1>2 DEF Patched
<1>5. \A p \in Paths : (~\E c \in patch : c.new = p \/ c.old = p)
                         => Patched(files, patch)[p] = files[p]
  BY DEF Patched
<1>6. \A p \in Paths : \/ \E c \in patch : c.new = p /\ Patched(files, patch)[p] = c.file
                       \/ Patched(files, patch)[p] = Absent
                       \/ Patched(files, patch)[p] = files[p]
  <2> SUFFICES ASSUME NEW p \in Paths
               PROVE  \/ \E c \in patch : c.new = p /\ Patched(files, patch)[p] = c.file
                      \/ Patched(files, patch)[p] = Absent
                      \/ Patched(files, patch)[p] = files[p]
    OBVIOUS
  <2>1. CASE \E c \in patch : c.new = p
    BY <2>1, <1>4
  <2>2. CASE ~\E c \in patch : c.new = p
    BY <2>2 DEF Patched
  <2> QED BY <2>1, <2>2
<1>7. Patched(files, patch) \in [Paths -> Files]
  <2>1. \A p \in Paths : Patched(files, patch)[p] \in Files
    BY <1>2, <1>6 DEF Files
  <2>2. Patched(files, patch) = [p \in Paths |-> Patched(files, patch)[p]]
    BY DEF Patched
  <2> QED BY <2>1, <2>2
<1>8. ASSUME NEW x \in ScenariosOf(files)
      PROVE  \E q \in Paths : Patched(files, patch)[q] = files[x]
  <2>1. x \in Paths /\ files[x] \in ScenarioIds /\ files[x] /= Absent
    BY <1>8, IndexAssumption DEF ScenariosOf, Absent
  <2>2. CASE \E c \in patch : c.old = x
    <3>1. PICK c \in patch : c.old = x
      BY <2>2
    <3>2. files[x] = c.file
      BY <2>1, <3>1, IndexAssumption DEF ValidContents, Absent
    <3> QED BY <3>2, <1>2, <1>4
  <2>3. CASE (~\E c \in patch : c.old = x) /\ \E c \in patch : c.new = x
    BY <2>1, <2>3 DEF Applies
  <2>4. CASE ~\E c \in patch : c.new = x \/ c.old = x
    BY <2>1, <2>4, <1>5
  <2> QED BY <2>2, <2>3, <2>4
<1>9. ASSUME NEW x \in ScenariosOf(Patched(files, patch)),
             NEW y \in ScenariosOf(Patched(files, patch)), x /= y
      PROVE  Patched(files, patch)[x] /= Patched(files, patch)[y]
  BY <1>9 DEF ValidContents, ScenariosOf
<1> QED BY <1>7, <1>8, <1>9

LEMMA PatchStep == ASSUME IndexInv, NEW patch \in Patches, PatchPublished(patch) PROVE IndexInv'
<1>1. indexHead \in 0 .. Len(commits) /\ BranchOK
  BY DEF IndexInv, BranchOK
<1>2. /\ TreeOf(indexHead).files \in [Paths -> Files]
      /\ TreeOf(indexHead).reports \in [Reports -> ReportFiles]
  BY <1>1, TreeType
<1> DEFINE before == TreeOf(indexHead).files
           after  == Patched(before, patch)
<1>3. /\ Applies(before, patch) /\ ValidContents(before, after, patch)
      /\ Grows(indexHead, after, TreeOf(indexHead).reports, "patch")
      /\ UNCHANGED <<sync, tableVars>>
  BY DEF PatchPublished
<1>4. /\ after \in [Paths -> Files]
      /\ \A x \in ScenariosOf(before) : \E q \in Paths : after[q] = before[x]
      /\ \A x, y \in ScenariosOf(after) : x /= y => after[x] /= after[y]
  <2> HIDE DEF before
  <2> QED BY <1>2, <1>3, PatchKeeps DEF before
<1> HIDE DEF after
<1> QED BY <1>1, <1>2, <1>3, <1>4, BranchGrows

LEMMA CallerSteps ==
  ASSUME IndexInv, NEW s \in Syncers, SyncBegins(s) \/ SyncChecks(s) \/ SyncFails(s)
  PROVE  IndexInv'
<1>1. /\ sync[s] \in SyncType /\ Idle \in SyncType /\ Idle.step = "idle"
      /\ sync[s].step /= "idle" => sync[s].head \in 1 .. Len(commits)
  BY DEF IndexInv, SyncsOK, SyncType, Idle
<1>2. CASE SyncBegins(s)
  <2>1. /\ sync' = [sync EXCEPT ![s] = [step |-> "head", head |-> indexHead]]
        /\ UNCHANGED <<branchVars, tableVars>> /\ indexHead \in 1 .. Len(commits)
    BY <1>2 DEF SyncBegins, IndexInv, BranchOK
  <2>2. [step |-> "head", head |-> indexHead] \in SyncType
    BY <2>1 DEF SyncType
  <2> QED BY <2>1, <2>2, SyncMoves
<1>3. CASE SyncChecks(s)
  <2>1. /\ \/ sync' = [sync EXCEPT ![s] = Idle]
           \/ sync' = [sync EXCEPT ![s] = [sync[s] EXCEPT !.step = "checked"]]
        /\ UNCHANGED <<branchVars, tableVars>> /\ sync[s].step = "head"
    BY <1>3 DEF SyncChecks
  <2>2. /\ [sync[s] EXCEPT !.step = "checked"] \in SyncType
        /\ [sync[s] EXCEPT !.step = "checked"].head = sync[s].head
    BY <1>1 DEF SyncType
  <2> QED BY <1>1, <2>1, <2>2, SyncMoves
<1>4. CASE SyncFails(s)
  BY <1>1, <1>4, SyncMoves DEF SyncFails
<1> QED BY <1>2, <1>3, <1>4

LEMMA AppliesStep ==
  ASSUME IndexInv, NEW s \in Syncers, NEW unread \in SUBSET Paths, SyncApplies(s, unread)
  PROVE  IndexInv'
<1>1. PICK c \in 1 .. Len(commits) : c = sync[s].head
  BY DEF IndexInv, SyncsOK, SyncApplies
<1>2. PICK files \in [Paths -> Files] : files = commits[c].files
  <2>1. commits[c] \in CommitType
    BY DEF IndexInv, BranchOK
  <2> QED BY <2>1 DEF CommitType
<1> DEFINE here == PresentPaths(files)
           scenes == Scenes(files, unread)
           ids == {files[q] : q \in scenes}
<1>3. /\ rows' = [p \in Paths |-> RowAfter(p, c, here, scenes)]
      /\ reports' = [r \in Reports |-> ReportAfter(r, c)]
      /\ errors' = (here \ scenes) \cup {r \in Reports : commits[c].reports[r] = Bad}
      /\ indexed' = c /\ sync' = [sync EXCEPT ![s] = Idle]
      /\ commits' = commits /\ indexHead' = indexHead
  BY <1>1, <1>2 DEF SyncApplies, branchVars
<1>4. /\ scenes \subseteq Paths /\ \A p \in scenes : files[p] \in ScenarioIds
      /\ \A p, q \in scenes : p /= q => files[p] /= files[q]
      /\ here = {p \in Paths : files[p] /= Absent}
  BY DEF Scenes, Distinct, ScenariosOf, PresentPaths
<1>5. ids = {commits[c].files[q] : q \in scenes}
  BY <1>2
<1>6. \A p \in Paths : /\ rows[p] \in IndexRowType
                       /\ rows[p] /= NoIndexRow =>
                            rows[p].id \in ScenarioIds /\ rows[p].commit \in 1 .. Len(commits)
  BY DEF IndexInv, IndexRowsOK
<1> HIDE DEF here, scenes, ids
<1>12. ASSUME NEW p \in Paths
       PROVE  \/ p \in scenes /\ rows'[p] = [id |-> files[p], commit |-> c]
              \/ p \notin scenes /\ rows'[p] = NoIndexRow
              \/ p \notin scenes /\ p \in here /\ rows[p].id \notin ids /\ rows'[p] = rows[p]
  <2>1. rows'[p] = RowAfter(p, c, here, scenes)
    BY <1>3
  <2>2. CASE p \in scenes
    BY <1>2, <2>1, <2>2 DEF RowAfter
  <2>3. CASE p \notin scenes /\ (p \notin here \/ rows[p].id \in ids)
    BY <1>5, <2>1, <2>3 DEF RowAfter
  <2>4. CASE p \notin scenes /\ p \in here /\ rows[p].id \notin ids
    BY <1>5, <2>1, <2>4 DEF RowAfter
  <2> QED BY <2>2, <2>3, <2>4
<1>13. NoIndexRow \in IndexRowType /\ NoIndexRow.id = Absent /\ Absent \notin ScenarioIds
  BY IndexAssumption DEF NoIndexRow, IndexRowType, Absent
<1>14. ASSUME NEW p \in scenes
       PROVE  /\ rows'[p] = [id |-> files[p], commit |-> c] /\ rows'[p].id = files[p]
              /\ rows'[p].commit = c /\ files[p] \in ids /\ files[p] /= Absent
              /\ rows'[p] \in IndexRowType /\ files[p] \in ScenarioIds
  BY <1>4, <1>12, <1>13 DEF IndexRowType, ids
<1>7. BranchOK'
  BY <1>3 DEF IndexInv, BranchOK
<1>8. SyncsOK'
  BY <1>3 DEF IndexInv, SyncsOK, SyncType, Idle
<1>9. IndexRowsOK'
  <2>1. ASSUME NEW p \in Paths
        PROVE  /\ rows'[p] \in IndexRowType
               /\ rows'[p] /= NoIndexRow =>
                    rows'[p].id \in ScenarioIds /\ rows'[p].commit \in 1 .. Len(commits)
    <3>1. CASE p \in scenes
      BY <1>14, <3>1
    <3>2. CASE rows'[p] = NoIndexRow
      BY <1>13, <3>2
    <3>3. CASE rows'[p] = rows[p]
      BY <1>6, <3>3
    <3> QED BY <1>12, <3>1, <3>2, <3>3
  <2> QED BY <1>3, <2>1 DEF IndexRowsOK, NoIndexRow
<1>10. IndexIsOneCommit'
  <2>1. TreeOf(indexed)'.files = files /\ TreeOf(indexed)'.reports = commits[c].reports
    BY <1>2, <1>3 DEF TreeOf
  <2>2. ASSUME NEW p \in Paths, rows'[p] /= NoIndexRow
        PROVE  /\ files[p] /= Absent
               /\ commits[rows'[p].commit].files[p] = rows'[p].id
               /\ \A q \in Paths \ {p} : rows'[q].id /= rows'[p].id
    <3>1. CASE p \in scenes
      <4>1. ASSUME NEW q \in Paths \ {p} PROVE rows'[q].id /= files[p]
        <5>1. CASE q \in scenes
          BY <1>4, <1>14, <3>1, <5>1
        <5>2. CASE q \notin scenes
          BY <1>12, <1>13, <1>14, <3>1, <5>2
        <5> QED BY <5>1, <5>2
      <4> QED BY <1>2, <1>14, <3>1, <4>1
    <3>2. CASE p \notin scenes
      <4>1. p \in here /\ rows[p].id \notin ids /\ rows'[p] = rows[p] /\ rows[p] /= NoIndexRow
        BY <1>12, <2>2, <3>2
      <4>2. /\ commits[rows[p].commit].files[p] = rows[p].id
            /\ \A q \in Paths \ {p} : rows[q].id /= rows[p].id
        BY <4>1 DEF IndexInv, IndexIsOneCommit
      <4>3. ASSUME NEW q \in Paths \ {p} PROVE rows'[q].id /= rows[p].id
        <5>1. CASE q \in scenes
          BY <1>14, <4>1, <5>1
        <5>2. rows[p].id \in ScenarioIds
          BY <1>6, <4>1
        <5>3. CASE q \notin scenes /\ rows'[q] = NoIndexRow
          BY <1>13, <5>2, <5>3
        <5>4. CASE q \notin scenes /\ rows'[q] = rows[q]
          BY <4>2, <5>4
        <5> QED BY <1>12, <5>1, <5>3, <5>4
      <4> QED BY <1>4, <4>1, <4>2, <4>3
    <3> QED BY <3>1, <3>2
  <2>3. ASSUME NEW p \in Paths, files[p] /= Absent
        PROVE  rows'[p].commit = c \/ p \in errors'
    BY <1>3, <1>4, <1>14, <2>3
  <2>4. ASSUME NEW r \in Reports
        PROVE  /\ reports'[r] /= 0 => commits[c].reports[r] /= Absent
               /\ commits[c].reports[r] /= Absent => reports'[r] = c \/ r \in errors'
    <3>1. commits[c] \in CommitType
      BY DEF IndexInv, BranchOK
    <3>2. commits[c].reports[r] \in ReportFiles
      BY <3>1 DEF CommitType
    <3> QED BY <1>3, <3>2 DEF ReportAfter, ReportFiles, Absent, Bad
  <2> QED BY <1>3, <2>1, <2>2, <2>3, <2>4 DEF IndexIsOneCommit, NoIndexRow
<1>11. PatchKeepsScenarios'
  BY <1>3 DEF IndexInv, PatchKeepsScenarios, TreeOf, EmptyTree, ScenariosOf
<1> QED BY <1>7, <1>8, <1>9, <1>10, <1>11 DEF IndexInv

LEMMA IndexStep == IndexInv /\ [IndexNext]_indexVars => IndexInv'
<1> SUFFICES ASSUME IndexInv, [IndexNext]_indexVars PROVE IndexInv'
  OBVIOUS
<1>1. CASE UNCHANGED indexVars
  BY <1>1 DEF indexVars, IndexInv, BranchOK, SyncsOK, IndexRowsOK, IndexIsOneCommit,
              PatchKeepsScenarios, TreeOf, EmptyTree, ScenariosOf, NoIndexRow
<1>2. CASE \E patch \in Patches : PatchPublished(patch)
  BY <1>2, PatchStep
<1>3. CASE \E s \in Syncers : SyncBegins(s) \/ SyncChecks(s) \/ SyncFails(s)
  BY <1>3, CallerSteps
<1>4. CASE \E s \in Syncers : \E unread \in SUBSET Paths : SyncApplies(s, unread)
  BY <1>4, AppliesStep
<1> QED BY <1>1, <1>2, <1>3, <1>4, OthersPushInv, Rewritten DEF IndexNext

\* The index is that of the one commit it names, and a published patch loses no scenario of the
\* branch, however callers, pushes and rewrites interleave.
THEOREM IndexIsFaithfulCorrect == IndexSpec => []IndexIsFaithful
<1>1. IndexInv => IndexIsFaithful
  BY DEF IndexInv, IndexIsFaithful
<1> QED BY <1>1, IndexStart, IndexStep, PTL DEF IndexSpec

\* The reports and errors of the index, the counts, and callers that rest.
TablesOK ==
  /\ reports \in [Reports -> 0 .. Len(commits)] /\ errors \subseteq Paths \cup Reports
  /\ rewrites \in 0 .. MaxRewrite /\ unreads \in 0 .. MaxUnread
  /\ \A s \in Syncers : sync[s].step = "idle" => sync[s] = Idle

LEMMA TablesOKStart == IndexInit => TablesOK
  BY IndexAssumption DEF IndexInit, TablesOK

LEMMA TablesOKStep ==
  ASSUME IndexInv, TablesOK, [IndexNext]_indexVars PROVE TablesOK'
<1> USE IndexAssumption DEF TablesOK
<1>1. Len(commits) \in Nat /\ rewrites \in Nat /\ unreads \in Nat
  BY DEF IndexInv, BranchOK
<1>2. ASSUME UNCHANGED <<tableVars, unreads>>,
             \A s \in Syncers : sync'[s].step = "idle" => sync'[s] = Idle,
             rewrites' \in 0 .. MaxRewrite,
             Len(commits') \in Nat, Len(commits) <= Len(commits')
      PROVE  TablesOK'
  <2>1. \A n \in 0 .. Len(commits) : n \in 0 .. Len(commits')
    BY <1>1, <1>2
  <2> QED BY <1>2, <2>1 DEF tableVars
<1>3. ASSUME NEW p, NEW f, NEW r, NEW b, Grows(p, f, r, b)
      PROVE  Len(commits') \in Nat /\ Len(commits) <= Len(commits')
  BY <1>1, <1>3 DEF Grows, IndexInv, BranchOK
<1>4. CASE OthersPushBranch
  BY <1>2, <1>3, <1>4 DEF OthersPushBranch
<1>5. CASE BranchRewritten
  BY <1>1, <1>2, <1>3, <1>5 DEF BranchRewritten
<1>6. ASSUME NEW patch, PatchPublished(patch) PROVE TablesOK'
  BY <1>2, <1>3, <1>6 DEF PatchPublished
<1>7. ASSUME UNCHANGED <<branchVars, tableVars, unreads>>,
             \A s \in Syncers : sync'[s].step = "idle" => sync'[s] = Idle
      PROVE  TablesOK'
  BY <1>1, <1>2, <1>7 DEF branchVars
<1>8. ASSUME NEW s \in Syncers, SyncBegins(s) \/ SyncChecks(s) \/ SyncFails(s) PROVE TablesOK'
  <2>1. UNCHANGED <<branchVars, tableVars, unreads>>
    BY <1>8 DEF SyncBegins, SyncChecks, SyncFails
  <2>2. PICK e : sync' = [sync EXCEPT ![s] = e] /\ (e.step = "idle" => e = Idle)
    <3>1. CASE SyncBegins(s)
      <4>1. sync' = [sync EXCEPT ![s] = [step |-> "head", head |-> indexHead]]
        BY <3>1 DEF SyncBegins
      <4>2. [step |-> "head", head |-> indexHead].step /= "idle"
        OBVIOUS
      <4> QED BY <4>1, <4>2
    <3>2. CASE SyncChecks(s)
      <4>1. sync[s].step = "head" /\ sync[s] \in SyncType
        BY <3>2 DEF SyncChecks, IndexInv, SyncsOK
      <4>2. [sync[s] EXCEPT !.step = "checked"].step = "checked"
        BY <4>1 DEF SyncType
      <4> QED BY <3>2, <4>2 DEF SyncChecks
    <3>3. CASE SyncFails(s)
      BY <3>3 DEF SyncFails
    <3> QED BY <1>8, <3>1, <3>2, <3>3
  <2>3. \A t \in Syncers : sync'[t].step = "idle" => sync'[t] = Idle
    BY <2>2 DEF IndexInv, SyncsOK
  <2> QED BY <1>7, <2>1, <2>3
<1>9. ASSUME NEW s \in Syncers, NEW unread \in SUBSET Paths, SyncApplies(s, unread)
      PROVE  TablesOK'
  <2> DEFINE c == sync[s].head
             onTree == PresentPaths(commits[c].files)
             scenes == Scenes(commits[c].files, unread)
  <2>1. /\ UNCHANGED branchVars /\ sync[s].step = "checked"
        /\ unreads' \in {unreads, unreads + 1} /\ (unreads' /= unreads => unreads < MaxUnread)
        /\ reports' = [r \in Reports |-> ReportAfter(r, c)]
        /\ errors' = (onTree \ scenes) \cup {r \in Reports : commits[c].reports[r] = Bad}
    BY <1>9 DEF SyncApplies
  <2>2. c \in 1 .. Len(commits)
    BY <2>1 DEF IndexInv, SyncsOK
  <2>3. \A r \in Reports : ReportAfter(r, c) \in 0 .. Len(commits)
    BY <1>1, <2>2 DEF ReportAfter
  <2>5. \A t \in Syncers : sync'[t].step = "idle" => sync'[t] = Idle
    BY <1>9 DEF SyncApplies, IndexInv, SyncsOK
  <2>4. errors' \subseteq Paths \cup Reports
    BY <2>1 DEF PresentPaths
  <2> QED BY <1>1, <2>1, <2>3, <2>4, <2>5 DEF branchVars
<1>10. CASE UNCHANGED indexVars
  BY <1>1, <1>7, <1>10 DEF indexVars, branchVars, tableVars
<1> QED BY <1>4, <1>5, <1>6, <1>8, <1>9, <1>10 DEF IndexNext

LEMMA IndexTypes == ASSUME IndexInv, TablesOK PROVE IndexTypeOK
<1>1. ASSUME NEW c \in 1 .. Len(commits)
      PROVE  /\ commits[c].parent < c /\ commits[c].files \in [Paths -> Files]
             /\ commits[c].reports \in [Reports -> {Absent, Bad, "report"}]
  <2>1. commits[c] \in CommitType
    BY DEF IndexInv, BranchOK
  <2> QED BY <2>1 DEF IndexInv, BranchOK, CommitType, ReportFiles
<1>2. indexHead \in 0 .. Len(commits) /\ indexed \in 0 .. Len(commits)
  BY DEF IndexInv, BranchOK, IndexRowsOK
<1>3. rows \in [Paths -> [id : {Absent} \cup ScenarioIds, commit : 0 .. Len(commits)]]
  <2>1. ASSUME NEW p \in Paths
        PROVE  rows[p] \in [id : {Absent} \cup ScenarioIds, commit : 0 .. Len(commits)]
    <3>1. rows[p] \in IndexRowType
      BY DEF IndexInv, IndexRowsOK
    <3>2. Len(commits) \in Nat
      BY DEF IndexInv, BranchOK
    <3>3. rows[p].commit \in 0 .. Len(commits)
      BY <3>2 DEF IndexInv, IndexRowsOK, NoIndexRow
    <3> QED BY <3>1, <3>3 DEF IndexRowType
  <2>2. rows \in [Paths -> IndexRowType]
    BY DEF IndexInv, IndexRowsOK
  <2> QED BY <2>1, <2>2
<1>4. ASSUME NEW s \in Syncers
      PROVE  sync[s].step \in {"idle", "head", "checked"} /\ sync[s].head \in 0 .. Len(commits)
  BY DEF IndexInv, SyncsOK, SyncType, BranchOK, TablesOK, Idle
<1> QED BY <1>1, <1>2, <1>3, <1>4 DEF IndexTypeOK, TablesOK

-----------------------------------------------------------------------------
(***************************************************************************)
(* LegacyAutomation: v0.6 has one request in flight and somebody drives it,*)
(* the active request of a process that serves, or the one recovery has    *)
(* before it; a monitor is where its row and its Run are.                  *)
(***************************************************************************)
Flight == {r \in LegacyRequests : status[r] \in InFlight}

LegacyTyped ==
  /\ status \in [LegacyRequests -> {"new", "queued"} \cup InFlight \cup Ended]
  /\ rowArchive \in ArchiveTypes
  /\ run \in [LegacyRequests -> {"none", "running", "completed", "failed", "interrupted"}]
  /\ stored \in ArchiveTypes
  /\ active \in 0 .. MaxRequest
  /\ dispatch \in {"idle", "current", "resolving", "down"}
  /\ monitor \in [LegacyRequests -> {"none", "run", "archive"} \cup Results]
  /\ recovery = NotRecovering \/ recovery \subseteq LegacyRequests

\* A request that was never claimed, or is queued again, has no Run; a Run that executes is that
\* of a running request; what is archived has completed.
RunsOK ==
  \A r \in LegacyRequests :
    /\ status[r] \in {"new", "queued"} => run[r] = "none"
    /\ run[r] = "running" => status[r] = "running"
    /\ status[r] = "waiting_archive" => run[r] = "completed"
    /\ r \in archiving \/ stored[r] /= "none" => run[r] = "completed"

\* One request is in flight.  A process that serves has it in activeQueueId, one that recovers has
\* it before it, and dispatchNext asks for the current Run only when there is none.
FlightOK ==
  /\ \A q, r \in Flight : q = r
  /\ Serving => \A r \in Flight : active = r
  /\ Recovering => /\ recovery = Flight /\ dispatch = "idle"
                   /\ active = 0 /\ ~Scanning
                   /\ \A r \in LegacyRequests : run[r] /= "running"
  /\ dispatch = "current" => active = 0
  /\ dispatch = "resolving" => active /= 0 /\ status[active] = "running" /\ run[active] = "none"
  /\ dispatch = "down" => ~Recovering /\ ~Scanning /\ active = 0

\* A monitor is that of the active request, or of the one recovery has before it, and is where the
\* row and the Run are.
MonitorsOK ==
  \A r \in LegacyRequests :
    /\ monitor[r] /= "none" => /\ Up /\ run[r] /= "none"
                               /\ IF Recovering THEN r \in recovery ELSE active = r
    /\ monitor[r] = "run" => status[r] = "running" /\ ~Recovering
    /\ monitor[r] = "archive" => r \in archiving
    /\ monitor[r] \in {"archive"} \cup Results =>
         run[r] = "completed" /\ status[r] \in {"waiting_archive", "completed"}

\* A scan has results of the archives it asked for, and archives late only a request that waits or
\* has ended meanwhile.
ScanType == [on : BOOLEAN, waits : SUBSET LegacyRequests, found : ArchiveTypes,
             late : 0 .. MaxRequest]

ScansOK ==
  /\ scan \in [Scanners -> ScanType]
  /\ \A s \in Scanners : scan[s].late /= 0 =>
       status[scan[s].late] \in {"waiting_archive"} \cup Ended

LegacyInv == LegacyTyped /\ RunsOK /\ FlightOK /\ MonitorsOK /\ RemovedIsDone

LEMMA FirstIs ==
  ASSUME LegacyInv, Recovering, recovery /= {}
  PROVE  /\ First \in LegacyRequests /\ recovery = {First} /\ Flight = {First}
         /\ status[First] \in InFlight /\ active = 0 /\ dispatch = "idle" /\ ~Scanning
<1>1. recovery = Flight /\ recovery \subseteq LegacyRequests
  BY DEF LegacyInv, FlightOK, Flight
<1>2. PICK r \in recovery : recovery = {r}
  BY <1>1 DEF LegacyInv, FlightOK
<1>3. r \in Int
  BY <1>1, <1>2 DEF LegacyRequests
<1>4. \E q \in recovery : \A p \in recovery : q <= p
  BY <1>2, <1>3
<1>5. First \in recovery
  BY <1>4 DEF First
<1> QED BY <1>1, <1>2, <1>5 DEF LegacyInv, FlightOK, Flight

LEMMA NotRecovered == \A r \in LegacyRequests : r \notin NotRecovering /\ r /= 0
  BY LegacyAssumption DEF NotRecovering, LegacyRequests

LEMMA ActiveIs == LegacyInv /\ active /= 0 => active \in LegacyRequests
  BY LegacyAssumption DEF LegacyInv, LegacyTyped, ArchiveTypes, Results, LegacyRequests


LEMMA StartsInv == ASSUME LegacyInv, Starts PROVE LegacyInv'
<1> USE DEF Starts
<1>1. LegacyTyped'
  BY NotRecovered, LegacyAssumption DEF LegacyInv, LegacyTyped, ArchiveTypes, Results, FlightOK,
       InFlight, Ended,
     NotRecovering, Up, Recovering
<1>2. RunsOK'
  BY NotRecovered, LegacyAssumption DEF LegacyInv, RunsOK, LegacyTyped, FlightOK, MonitorsOK,
     InFlight, Ended
<1>3. FlightOK'
  BY NotRecovered, LegacyAssumption DEF LegacyInv, LegacyTyped, ArchiveTypes, Results, RunsOK,
       FlightOK, MonitorsOK,
     Flight, InFlight, Ended, Serving, Up, Recovering, Scanning
<1>4. MonitorsOK'
  BY NotRecovered, LegacyAssumption DEF LegacyInv, LegacyTyped, ArchiveTypes, Results, RunsOK,
       FlightOK, MonitorsOK,
     Flight, InFlight, Ended, Serving, Up, Recovering, Scanning
<1>5. RemovedIsDone'
  BY NotRecovered, LegacyAssumption DEF LegacyInv, RemovedIsDone, LegacyTyped, RunsOK, FlightOK,
     MonitorsOK, Flight, InFlight, Ended, Serving, Up, Recovering, Scanning
<1> QED BY <1>1, <1>2, <1>3, <1>4, <1>5 DEF LegacyInv

LEMMA StartRefusedInv == ASSUME LegacyInv, StartRefused PROVE LegacyInv'
<1> USE DEF StartRefused
<1>1. LegacyTyped'
  <2>1. status' \in [LegacyRequests -> {"new", "queued"} \cup InFlight \cup Ended]
    BY DEF LegacyInv, LegacyTyped, ArchiveTypes, Results, Ended
  <2> QED BY <2>1, LegacyAssumption DEF LegacyInv, LegacyTyped, ArchiveTypes, Results, NotRecovering
<1>2. RunsOK'
  BY NotRecovered, LegacyAssumption DEF LegacyInv, RunsOK, LegacyTyped, FlightOK, MonitorsOK,
     InFlight, Ended
<1>3. FlightOK'
  BY NotRecovered, LegacyAssumption DEF LegacyInv, LegacyTyped, ArchiveTypes, Results, RunsOK,
       FlightOK, MonitorsOK,
     Flight, InFlight, Ended, Serving, Up, Recovering, Scanning
<1>4. MonitorsOK'
  BY NotRecovered, LegacyAssumption DEF LegacyInv, LegacyTyped, ArchiveTypes, Results, RunsOK,
       FlightOK, MonitorsOK,
     Flight, InFlight, Ended, Serving, Up, Recovering, Scanning
<1>5. RemovedIsDone'
  BY NotRecovered, LegacyAssumption DEF LegacyInv, RemovedIsDone, LegacyTyped, RunsOK, FlightOK,
     MonitorsOK, Flight, InFlight, Ended, Serving, Up, Recovering, Scanning
<1> QED BY <1>1, <1>2, <1>3, <1>4, <1>5 DEF LegacyInv

LEMMA MonitorSeesInv == ASSUME LegacyInv, NEW r \in LegacyRequests, MonitorSees(r) PROVE LegacyInv'
<1> USE DEF MonitorSees
<1>1. LegacyTyped'
  BY NotRecovered, LegacyAssumption DEF LegacyInv, LegacyTyped, ArchiveTypes, Results, FlightOK,
       InFlight, Ended,
     NotRecovering, Up, Recovering
<1>2. RunsOK'
  BY NotRecovered, LegacyAssumption DEF LegacyInv, RunsOK, LegacyTyped, FlightOK, MonitorsOK,
     InFlight, Ended
<1>3. FlightOK'
  BY NotRecovered, LegacyAssumption DEF LegacyInv, LegacyTyped, ArchiveTypes, Results, RunsOK,
       FlightOK, MonitorsOK,
     Flight, InFlight, Ended, Serving, Up, Recovering, Scanning
<1>4. MonitorsOK'
  BY NotRecovered, LegacyAssumption DEF LegacyInv, LegacyTyped, ArchiveTypes, Results, RunsOK,
       FlightOK, MonitorsOK,
     Flight, InFlight, Ended, Serving, Up, Recovering, Scanning
<1>5. RemovedIsDone'
  BY NotRecovered, LegacyAssumption DEF LegacyInv, RemovedIsDone, LegacyTyped, RunsOK, FlightOK,
     MonitorsOK, Flight, InFlight, Ended, Serving, Up, Recovering, Scanning
<1> QED BY <1>1, <1>2, <1>3, <1>4, <1>5 DEF LegacyInv

LEMMA ArchiveEndsInv == ASSUME LegacyInv, NEW r \in LegacyRequests, ArchiveEnds(r) PROVE LegacyInv'
<1>1. PICK result \in Results :
        /\ Archived(r, result)
        /\ monitor' = [monitor EXCEPT ![r] = IF @ = "archive" THEN result ELSE @]
        /\ scan' = [s \in Scanners |-> Heard(s, r, result)]
  BY DEF ArchiveEnds
<1>2. /\ Up /\ r \in archiving /\ archiving' = archiving \ {r}
      /\ UNCHANGED <<status, linked, rowArchive, run, present, active, dispatch, recovery>>
  BY DEF ArchiveEnds
<1>3. run[r] = "completed"
  BY <1>2 DEF LegacyInv, RunsOK
<1>4. stored' \in ArchiveTypes /\ \A q \in LegacyRequests : q /= r => stored'[q] = stored[q]
  BY <1>1 DEF LegacyInv, LegacyTyped, Archived, ArchiveTypes, Results
<1>5. monitor' \in [LegacyRequests -> {"none", "run", "archive"} \cup Results]
  BY <1>1 DEF LegacyInv, LegacyTyped
<1>6. LegacyTyped'
  BY <1>2, <1>4, <1>5 DEF LegacyInv, LegacyTyped
<1>7. RunsOK'
  BY <1>2, <1>3, <1>4 DEF LegacyInv, RunsOK
<1>8. ~Scanning => ~Scanning'
  <2>1. ASSUME NEW s \in Scanners, scan[s] = NoScan PROVE scan'[s] = NoScan
    <3>1. r \notin scan[s].waits
      BY <2>1 DEF NoScan
    <3>2. Heard(s, r, result) = NoScan
      BY <2>1, <3>1 DEF Heard
    <3> QED BY <1>1, <3>2
  <2> QED BY <2>1 DEF Scanning
<1>9. FlightOK'
  BY <1>2, <1>8 DEF LegacyInv, FlightOK, Flight, Serving, Up, Recovering
<1>10. MonitorsOK'
  BY <1>1, <1>2 DEF LegacyInv, LegacyTyped, MonitorsOK, Up, Recovering, Results
<1>11. RemovedIsDone'
  BY <1>2 DEF LegacyInv, RemovedIsDone
<1> QED BY <1>6, <1>7, <1>9, <1>10, <1>11 DEF LegacyInv

\* queue.complete of a request with a result of its archive, which changes no other row.
LEMMA CompletedRow ==
  ASSUME LegacyInv, NEW r \in LegacyRequests, NEW result \in {"none"} \cup Results,
         Completed(r, result)
  PROVE  /\ status' \in [LegacyRequests -> {"new", "queued"} \cup InFlight \cup Ended]
         /\ rowArchive' \in ArchiveTypes
         /\ \A q \in LegacyRequests :
              \/ /\ status'[q] = status[q] /\ rowArchive'[q] = rowArchive[q]
              \/ /\ q = r /\ status[q] \in InFlight /\ status'[q] = "completed"
         /\ status'[r] \notin InFlight
  BY DEF Completed, LegacyInv, LegacyTyped, ArchiveTypes, InFlight, Ended

\* A scan completes a request that waits; everything else stays but the scans.
LEMMA ScanCompletesInv ==
  ASSUME LegacyInv, NEW r \in LegacyRequests, NEW result \in {"none"} \cup Results,
         status[r] \in {"waiting_archive"} \cup Ended, Completed(r, result), Scanning,
         UNCHANGED <<linked, run, stored, present, active, dispatch, monitor, archiving, recovery>>
  PROVE  LegacyInv'
<1>1. /\ status' \in [LegacyRequests -> {"new", "queued"} \cup InFlight \cup Ended]
      /\ rowArchive' \in ArchiveTypes
      /\ \A q \in LegacyRequests :
           \/ status'[q] = status[q] /\ rowArchive'[q] = rowArchive[q]
           \/ q = r /\ status[q] \in InFlight /\ status'[q] = "completed"
      /\ status'[r] \notin InFlight
  BY CompletedRow
<1>2. status[r] \in InFlight => status[r] = "waiting_archive" /\ run[r] = "completed"
  BY DEF InFlight, Ended, LegacyInv, RunsOK
<1>3. ~Recovering /\ dispatch /= "down"
  BY DEF LegacyInv, FlightOK
<1>4. LegacyTyped'
  BY <1>1 DEF LegacyInv, LegacyTyped
<1>5. RunsOK'
  BY <1>1, <1>2 DEF LegacyInv, RunsOK
<1>6. Flight' \subseteq Flight
  BY <1>1 DEF Flight, InFlight
<1>7. dispatch = "resolving" => active /= 0 /\ active /= r /\ active \in LegacyRequests
  BY <1>2, ActiveIs, NotRecovered DEF LegacyInv, FlightOK, InFlight, Ended
<1>8. FlightOK'
  BY <1>1, <1>3, <1>6, <1>7 DEF LegacyInv, FlightOK, Serving, Up, Recovering
<1>9. MonitorsOK'
  BY <1>1, <1>2, <1>3 DEF LegacyInv, MonitorsOK, Up, Recovering
<1>10. RemovedIsDone'
  BY <1>1, <1>2 DEF LegacyInv, RemovedIsDone, InFlight
<1> QED BY <1>4, <1>5, <1>8, <1>9, <1>10 DEF LegacyInv

LEMMA ScanEndsInv ==
  ASSUME LegacyInv, ScansOK, NEW s \in Scanners, ScanEnds(s)
  PROVE  LegacyInv'
<1>1. Scanning /\ scan[s] \in ScanType
  BY DEF ScanEnds, HasAll, Scanning, NoScan, ScansOK
<1>2. CASE UNCHANGED <<status, rowArchive>>
  BY <1>1, <1>2 DEF ScanEnds, LegacyInv, LegacyTyped, RunsOK, FlightOK, MonitorsOK, RemovedIsDone,
                    Flight, Serving, Up, Recovering
<1>3. ASSUME NEW r \in Waiting, Completed(r, scan[s].found[r]) PROVE LegacyInv'
  <2>1. /\ r \in LegacyRequests /\ status[r] = "waiting_archive"
        /\ scan[s].found[r] \in {"none"} \cup Results
    BY <1>1, <1>3 DEF Waiting, ScanType, ArchiveTypes
  <2> QED BY <1>1, <1>3, <2>1, ScanCompletesInv DEF ScanEnds
<1> QED BY <1>2, <1>3 DEF ScanEnds

LEMMA LateScanEndsInv ==
  ASSUME LegacyInv, ScansOK, NEW s \in Scanners, LateScanEnds(s)
  PROVE  LegacyInv'
<1> DEFINE r == scan[s].late
<1>1. Scanning /\ scan[s] \in ScanType /\ r /= 0
  BY DEF LateScanEnds, HasAll, Scanning, NoScan, ScansOK
<1>2. r \in LegacyRequests /\ status[r] \in {"waiting_archive"} \cup Ended
  BY <1>1, LegacyAssumption DEF ScansOK, ScanType, LegacyRequests
<1>3. scan[s].found[r] \in {"none"} \cup Results
  BY <1>1, <1>2 DEF ScanType, ArchiveTypes
<1> QED BY <1>1, <1>2, <1>3, ScanCompletesInv DEF LateScanEnds

LEMMA ScanArchivesLateInv ==
  ASSUME LegacyInv, ScansOK, NEW s \in Scanners, ScanArchivesLate(s)
  PROVE  LegacyInv'
<1>1. Scanning
  BY DEF ScanArchivesLate, HasAll, Scanning, NoScan
<1>2. PICK r \in Waiting : archiving' = archiving \cup {r}
  BY DEF ScanArchivesLate
<1>3. r \in LegacyRequests /\ run[r] = "completed"
  BY <1>2 DEF Waiting, LegacyInv, RunsOK
<1> QED BY <1>1, <1>2, <1>3 DEF ScanArchivesLate, LegacyInv, LegacyTyped, RunsOK, FlightOK,
           MonitorsOK, RemovedIsDone, Flight, Serving, Up, Recovering

LEMMA MonitorCompletesInv ==
  ASSUME LegacyInv, NEW r \in LegacyRequests, MonitorCompletes(r)
  PROVE  LegacyInv'
<1> USE DEF MonitorCompletes, Completed
<1>1. LegacyTyped'
  BY NotRecovered, LegacyAssumption DEF LegacyInv, LegacyTyped, ArchiveTypes, Results, FlightOK,
       InFlight, Ended,
     NotRecovering, Up, Recovering
<1>2. RunsOK'
  BY NotRecovered, LegacyAssumption DEF LegacyInv, RunsOK, LegacyTyped, FlightOK, MonitorsOK,
     InFlight, Ended
<1>3. FlightOK'
  BY NotRecovered, LegacyAssumption DEF LegacyInv, LegacyTyped, ArchiveTypes, Results, RunsOK,
       FlightOK, MonitorsOK,
     Flight, InFlight, Ended, Serving, Up, Recovering, Scanning
<1>4. MonitorsOK'
  BY NotRecovered, LegacyAssumption DEF LegacyInv, LegacyTyped, ArchiveTypes, Results, RunsOK,
       FlightOK, MonitorsOK,
     Flight, InFlight, Ended, Serving, Up, Recovering, Scanning
<1>5. RemovedIsDone'
  <2>1. /\ monitor[r] \in {"none"} \cup Results /\ Completed(r, monitor[r])
        /\ present' = present /\ run' = run /\ recovery' = recovery
    OBVIOUS
  <2> QED BY <2>1, CompletedRow DEF LegacyInv, RemovedIsDone, InFlight
<1> QED BY <1>1, <1>2, <1>3, <1>4, <1>5 DEF LegacyInv

LEMMA DirectoryRemovedInv ==
  ASSUME LegacyInv, NEW r \in LegacyRequests, DirectoryRemoved(r)
  PROVE  LegacyInv'
<1> USE DEF DirectoryRemoved, MayRemove, serviceVars
<1>1. LegacyTyped'
  BY NotRecovered, LegacyAssumption DEF LegacyInv, LegacyTyped, ArchiveTypes, Results, FlightOK,
       InFlight, Ended,
     NotRecovering, Up, Recovering
<1>2. RunsOK'
  BY NotRecovered, LegacyAssumption DEF LegacyInv, RunsOK, LegacyTyped, FlightOK, MonitorsOK,
     InFlight, Ended
<1>3. FlightOK'
  BY NotRecovered, LegacyAssumption DEF LegacyInv, LegacyTyped, ArchiveTypes, Results, RunsOK,
       FlightOK, MonitorsOK,
     Flight, InFlight, Ended, Serving, Up, Recovering, Scanning
<1>4. MonitorsOK'
  BY NotRecovered, LegacyAssumption DEF LegacyInv, LegacyTyped, ArchiveTypes, Results, RunsOK,
       FlightOK, MonitorsOK,
     Flight, InFlight, Ended, Serving, Up, Recovering, Scanning
<1>5. RemovedIsDone'
  BY NotRecovered, LegacyAssumption DEF LegacyInv, RemovedIsDone, LegacyTyped, RunsOK, FlightOK,
     MonitorsOK, Flight, InFlight, Ended, Serving, Up, Recovering, Scanning
<1> QED BY <1>1, <1>2, <1>3, <1>4, <1>5 DEF LegacyInv

LEMMA CrashInv == ASSUME LegacyInv, Crash PROVE LegacyInv'
<1> USE DEF Crash, ProcessLost, NotRecovering, NoScan
<1>1. LegacyTyped'
  BY NotRecovered, LegacyAssumption DEF LegacyInv, LegacyTyped, ArchiveTypes, Results, FlightOK,
       InFlight, Ended,
     NotRecovering, Up, Recovering
<1>2. RunsOK'
  BY NotRecovered, LegacyAssumption DEF LegacyInv, RunsOK, LegacyTyped, FlightOK, MonitorsOK,
     InFlight, Ended
<1>3. FlightOK'
  BY NotRecovered, LegacyAssumption DEF LegacyInv, LegacyTyped, ArchiveTypes, Results, RunsOK,
       FlightOK, MonitorsOK,
     Flight, InFlight, Ended, Serving, Up, Recovering, Scanning
<1>4. MonitorsOK'
  BY NotRecovered, LegacyAssumption DEF LegacyInv, LegacyTyped, ArchiveTypes, Results, RunsOK,
       FlightOK, MonitorsOK,
     Flight, InFlight, Ended, Serving, Up, Recovering, Scanning
<1>5. RemovedIsDone'
  BY NotRecovered, LegacyAssumption DEF LegacyInv, RemovedIsDone, LegacyTyped, RunsOK, FlightOK,
     MonitorsOK, Flight, InFlight, Ended, Serving, Up, Recovering, Scanning
<1> QED BY <1>1, <1>2, <1>3, <1>4, <1>5 DEF LegacyInv

LEMMA CrashAfterStartInv == ASSUME LegacyInv, CrashAfterStart PROVE LegacyInv'
<1> USE DEF CrashAfterStart, ProcessLost, NotRecovering, NoScan
<1>1. LegacyTyped'
  <2>1. run' \in [LegacyRequests -> {"none", "running", "completed", "failed", "interrupted"}]
    BY DEF LegacyInv, LegacyTyped, ArchiveTypes, Results
  <2> QED BY <2>1, LegacyAssumption DEF LegacyInv, LegacyTyped, ArchiveTypes, Results
<1>2. RunsOK'
  BY NotRecovered, LegacyAssumption DEF LegacyInv, RunsOK, LegacyTyped, FlightOK, MonitorsOK,
     InFlight, Ended
<1>3. FlightOK'
  BY NotRecovered, LegacyAssumption DEF LegacyInv, LegacyTyped, ArchiveTypes, Results, RunsOK,
       FlightOK, MonitorsOK,
     Flight, InFlight, Ended, Serving, Up, Recovering, Scanning
<1>4. MonitorsOK'
  BY NotRecovered, LegacyAssumption DEF LegacyInv, LegacyTyped, ArchiveTypes, Results, RunsOK,
       FlightOK, MonitorsOK,
     Flight, InFlight, Ended, Serving, Up, Recovering, Scanning
<1>5. RemovedIsDone'
  BY NotRecovered, LegacyAssumption DEF LegacyInv, RemovedIsDone, LegacyTyped, RunsOK, FlightOK,
     MonitorsOK, Flight, InFlight, Ended, Serving, Up, Recovering, Scanning
<1> QED BY <1>1, <1>2, <1>3, <1>4, <1>5 DEF LegacyInv

LEMMA RecoverArchiveInv == ASSUME LegacyInv, RecoverArchive PROVE LegacyInv'
<1> USE DEF RecoverArchive
<1>1. /\ First \in LegacyRequests /\ recovery = {First} /\ Flight = {First}
      /\ status[First] \in InFlight /\ active = 0 /\ dispatch = "idle" /\ ~Scanning
  BY FirstIs
<1>2. LegacyTyped'
  BY NotRecovered, LegacyAssumption, <1>1 DEF LegacyInv, LegacyTyped, ArchiveTypes, Results,
       FlightOK, InFlight, Ended,
     NotRecovering, Up, Recovering
<1>3. RunsOK'
  BY NotRecovered, LegacyAssumption, <1>1 DEF LegacyInv, RunsOK, LegacyTyped, FlightOK, MonitorsOK,
     InFlight, Ended
<1>4. FlightOK'
  BY NotRecovered, LegacyAssumption, <1>1 DEF LegacyInv, LegacyTyped, ArchiveTypes, Results,
       RunsOK, FlightOK, MonitorsOK,
     Flight, InFlight, Ended, Serving, Up, Recovering, Scanning
<1>5. MonitorsOK'
  BY NotRecovered, LegacyAssumption, <1>1 DEF LegacyInv, LegacyTyped, ArchiveTypes, Results,
       RunsOK, FlightOK, MonitorsOK,
     Flight, InFlight, Ended, Serving, Up, Recovering, Scanning
<1>6. RemovedIsDone'
  BY NotRecovered, LegacyAssumption, <1>1 DEF LegacyInv, RemovedIsDone, LegacyTyped, RunsOK,
     FlightOK, MonitorsOK, Flight, InFlight, Ended, Serving, Up, Recovering, Scanning
<1> QED BY <1>2, <1>3, <1>4, <1>5, <1>6 DEF LegacyInv

LEMMA RecoverCompletesInv == ASSUME LegacyInv, RecoverCompletes PROVE LegacyInv'
<1> USE DEF RecoverCompletes, Completed
<1>1. /\ First \in LegacyRequests /\ recovery = {First} /\ Flight = {First}
      /\ status[First] \in InFlight /\ active = 0 /\ dispatch = "idle" /\ ~Scanning
  BY FirstIs
<1>2. LegacyTyped'
  BY NotRecovered, LegacyAssumption, <1>1 DEF LegacyInv, LegacyTyped, ArchiveTypes, Results,
       FlightOK, InFlight, Ended,
     NotRecovering, Up, Recovering
<1>3. RunsOK'
  BY NotRecovered, LegacyAssumption, <1>1 DEF LegacyInv, RunsOK, LegacyTyped, FlightOK, MonitorsOK,
     InFlight, Ended
<1>4. FlightOK'
  BY NotRecovered, LegacyAssumption, <1>1 DEF LegacyInv, LegacyTyped, ArchiveTypes, Results,
       RunsOK, FlightOK, MonitorsOK,
     Flight, InFlight, Ended, Serving, Up, Recovering, Scanning
<1>5. MonitorsOK'
  BY NotRecovered, LegacyAssumption, <1>1 DEF LegacyInv, LegacyTyped, ArchiveTypes, Results,
       RunsOK, FlightOK, MonitorsOK,
     Flight, InFlight, Ended, Serving, Up, Recovering, Scanning
<1>6. RemovedIsDone'
  <2>1. /\ monitor[First] \in {"none"} \cup Results /\ Completed(First, monitor[First])
        /\ present' = present /\ run' = run /\ recovery' = recovery \ {First}
    OBVIOUS
  <2> QED BY <1>1, <2>1, CompletedRow DEF LegacyInv, RemovedIsDone, InFlight
<1> QED BY <1>2, <1>3, <1>4, <1>5, <1>6 DEF LegacyInv

LEMMA RecoverRequestInv == ASSUME LegacyInv, RecoverRequest PROVE LegacyInv'
<1> USE DEF RecoverRequest
<1>1. /\ First \in LegacyRequests /\ recovery = {First} /\ Flight = {First}
      /\ status[First] \in InFlight /\ active = 0 /\ dispatch = "idle" /\ ~Scanning
  BY FirstIs
<1>2. LegacyTyped'
  BY NotRecovered, LegacyAssumption, <1>1 DEF LegacyInv, LegacyTyped, ArchiveTypes, Results,
       FlightOK, InFlight, Ended,
     NotRecovering, Up, Recovering
<1>3. RunsOK'
  <2>1. status' = [status EXCEPT ![First] = IF run[First] = "none" THEN "queued" ELSE "interrupted"]
        /\ run' = run /\ stored' = stored /\ archiving' = archiving
    OBVIOUS
  <2>2. ~(run[First] = "running")
    BY <1>1 DEF LegacyInv, FlightOK
  <2> QED BY <1>1, <2>1, <2>2 DEF LegacyInv, RunsOK, LegacyTyped, InFlight
<1>4. FlightOK'
  BY NotRecovered, LegacyAssumption, <1>1 DEF LegacyInv, LegacyTyped, ArchiveTypes, Results,
       RunsOK, FlightOK, MonitorsOK,
     Flight, InFlight, Ended, Serving, Up, Recovering, Scanning
<1>5. MonitorsOK'
  BY NotRecovered, LegacyAssumption, <1>1 DEF LegacyInv, LegacyTyped, ArchiveTypes, Results,
       RunsOK, FlightOK, MonitorsOK,
     Flight, InFlight, Ended, Serving, Up, Recovering, Scanning
<1>6. RemovedIsDone'
  BY NotRecovered, LegacyAssumption, <1>1 DEF LegacyInv, RemovedIsDone, LegacyTyped, RunsOK,
     FlightOK, MonitorsOK, Flight, InFlight, Ended, Serving, Up, Recovering, Scanning
<1> QED BY <1>2, <1>3, <1>4, <1>5, <1>6 DEF LegacyInv

LEMMA RecoveryEndsInv == ASSUME LegacyInv, RecoveryEnds PROVE LegacyInv'
<1> USE DEF RecoveryEnds, NotRecovering
<1>1. LegacyTyped'
  BY NotRecovered, LegacyAssumption DEF LegacyInv, LegacyTyped, ArchiveTypes, Results, FlightOK,
       InFlight, Ended,
     NotRecovering, Up, Recovering
<1>2. RunsOK'
  BY NotRecovered, LegacyAssumption DEF LegacyInv, RunsOK, LegacyTyped, FlightOK, MonitorsOK,
     InFlight, Ended
<1>3. FlightOK'
  BY NotRecovered, LegacyAssumption DEF LegacyInv, LegacyTyped, ArchiveTypes, Results, RunsOK,
       FlightOK, MonitorsOK,
     Flight, InFlight, Ended, Serving, Up, Recovering, Scanning
<1>4. MonitorsOK'
  BY NotRecovered, LegacyAssumption DEF LegacyInv, LegacyTyped, ArchiveTypes, Results, RunsOK,
       FlightOK, MonitorsOK,
     Flight, InFlight, Ended, Serving, Up, Recovering, Scanning
<1>5. RemovedIsDone'
  BY NotRecovered, LegacyAssumption DEF LegacyInv, RemovedIsDone, LegacyTyped, RunsOK, FlightOK,
     MonitorsOK, Flight, InFlight, Ended, Serving, Up, Recovering, Scanning
<1> QED BY <1>1, <1>2, <1>3, <1>4, <1>5 DEF LegacyInv

LEMMA SubmitInv == ASSUME LegacyInv, Submit PROVE LegacyInv'
<1> USE DEF Submit, serviceVars
<1>1. LegacyTyped'
  BY DEF LegacyInv, LegacyTyped, ArchiveTypes, Results, InFlight, Ended, NotRecovering, Up,
       Recovering
<1>2. RunsOK'
  BY DEF LegacyInv, RunsOK, LegacyTyped, InFlight, Ended
<1>3. FlightOK'
  BY DEF LegacyInv, FlightOK, LegacyTyped, RunsOK, MonitorsOK, Flight, InFlight, Ended, Serving,
     Up, Recovering, Scanning
<1>4. MonitorsOK'
  BY DEF LegacyInv, MonitorsOK, LegacyTyped, RunsOK, FlightOK, Flight, InFlight, Ended, Serving,
     Up, Recovering, Scanning
<1>5. RemovedIsDone'
  BY DEF LegacyInv, RemovedIsDone, LegacyTyped, RunsOK, FlightOK, MonitorsOK, Flight, InFlight,
     Ended, Serving, Up, Recovering
<1> QED BY <1>1, <1>2, <1>3, <1>4, <1>5 DEF LegacyInv

LEMMA EntersInv == ASSUME LegacyInv, Enters PROVE LegacyInv'
<1> USE DEF Enters
<1>1. LegacyTyped'
  BY DEF LegacyInv, LegacyTyped, ArchiveTypes, Results, InFlight, Ended, NotRecovering, Up,
       Recovering
<1>2. RunsOK'
  BY DEF LegacyInv, RunsOK, LegacyTyped, InFlight, Ended
<1>3. FlightOK'
  BY DEF LegacyInv, FlightOK, LegacyTyped, RunsOK, MonitorsOK, Flight, InFlight, Ended, Serving,
     Up, Recovering, Scanning
<1>4. MonitorsOK'
  BY DEF LegacyInv, MonitorsOK, LegacyTyped, RunsOK, FlightOK, Flight, InFlight, Ended, Serving,
     Up, Recovering, Scanning
<1>5. RemovedIsDone'
  BY DEF LegacyInv, RemovedIsDone, LegacyTyped, RunsOK, FlightOK, MonitorsOK, Flight, InFlight,
     Ended, Serving, Up, Recovering
<1> QED BY <1>1, <1>2, <1>3, <1>4, <1>5 DEF LegacyInv

LEMMA RunEndsInv == ASSUME LegacyInv, NEW r \in LegacyRequests, RunEnds(r) PROVE LegacyInv'
<1> USE DEF RunEnds, serviceVars
<1>1. LegacyTyped'
  BY DEF LegacyInv, LegacyTyped, ArchiveTypes, Results, InFlight, Ended, NotRecovering, Up,
       Recovering
<1>2. RunsOK'
  BY DEF LegacyInv, RunsOK, LegacyTyped, InFlight, Ended
<1>3. FlightOK'
  BY DEF LegacyInv, FlightOK, LegacyTyped, RunsOK, MonitorsOK, Flight, InFlight, Ended, Serving,
     Up, Recovering, Scanning
<1>4. MonitorsOK'
  BY DEF LegacyInv, MonitorsOK, LegacyTyped, RunsOK, FlightOK, Flight, InFlight, Ended, Serving,
     Up, Recovering, Scanning
<1>5. RemovedIsDone'
  BY DEF LegacyInv, RemovedIsDone, LegacyTyped, RunsOK, FlightOK, MonitorsOK, Flight, InFlight,
     Ended, Serving, Up, Recovering
<1> QED BY <1>1, <1>2, <1>3, <1>4, <1>5 DEF LegacyInv

LEMMA ScanBeginsInv ==
  ASSUME LegacyInv, NEW s \in Scanners, ScanBegins(s)
  PROVE  LegacyInv'
<1> USE DEF ScanBegins
<1>1. LegacyTyped' /\ RemovedIsDone'
  BY DEF LegacyInv, LegacyTyped, RemovedIsDone
<1>2. RunsOK'
  BY DEF LegacyInv, RunsOK
<1>3. FlightOK'
  BY DEF LegacyInv, FlightOK, Flight, Serving, Up, Recovering
<1>4. MonitorsOK'
  BY DEF LegacyInv, MonitorsOK, Up, Recovering
<1> QED BY <1>1, <1>2, <1>3, <1>4 DEF LegacyInv

LEMMA ArchiveAskedInv ==
  ASSUME LegacyInv, NEW r \in LegacyRequests, ArchiveAsked(r)
  PROVE  LegacyInv'
<1> USE DEF ArchiveAsked
<1>1. LegacyTyped'
  BY DEF LegacyInv, LegacyTyped, ArchiveTypes, Results, InFlight, Ended, NotRecovering, Up,
       Recovering
<1>2. RunsOK'
  BY DEF LegacyInv, RunsOK, LegacyTyped, InFlight, Ended
<1>3. FlightOK'
  BY DEF LegacyInv, FlightOK, LegacyTyped, RunsOK, MonitorsOK, Flight, InFlight, Ended, Serving,
     Up, Recovering, Scanning
<1>4. MonitorsOK'
  BY DEF LegacyInv, MonitorsOK, LegacyTyped, RunsOK, FlightOK, Flight, InFlight, Ended, Serving,
     Up, Recovering, Scanning
<1>5. RemovedIsDone'
  BY DEF LegacyInv, RemovedIsDone, LegacyTyped, RunsOK, FlightOK, MonitorsOK, Flight, InFlight,
     Ended, Serving, Up, Recovering
<1> QED BY <1>1, <1>2, <1>3, <1>4, <1>5 DEF LegacyInv

LEMMA RecoveryBeginsInv == ASSUME LegacyInv, RecoveryBegins PROVE LegacyInv'
<1> DEFINE unlinked == {r \in LegacyRequests : status[r] \in {"queued",
"running"} /\ run[r] = "none"}
<1>1. PICK unprepared \in SUBSET unlinked :
        status' = [r \in LegacyRequests |-> IF r \in unprepared THEN "failed" ELSE status[r]]
  BY DEF RecoveryBegins
<1>2. /\ dispatch = "down" /\ dispatch' = "idle"
      /\ run' = [r \in LegacyRequests |-> Recorded(run[r])] /\ recovery' = Flight'
      /\ UNCHANGED <<linked, rowArchive, stored, present, active, monitor, archiving, scan>>
  BY DEF RecoveryBegins, Flight
<1>3. ~Recovering /\ ~Scanning /\ active = 0
  BY <1>2 DEF LegacyInv, FlightOK
<1>4. \A r \in LegacyRequests : monitor[r] = "none"
  BY <1>2 DEF LegacyInv, LegacyTyped, MonitorsOK, Up
<1>5. \A r \in LegacyRequests :
        status'[r] /= status[r] => status'[r] = "failed" /\ run[r] = "none"
  BY <1>1
<1>6. LegacyTyped'
  <2>1. status' \in [LegacyRequests -> {"new", "queued"} \cup InFlight \cup Ended]
    BY <1>1 DEF LegacyInv, LegacyTyped, Ended
  <2>2. run' \in [LegacyRequests -> {"none", "running", "completed", "failed", "interrupted"}]
    BY <1>2 DEF LegacyInv, LegacyTyped, Recorded
  <2> QED BY <1>2, <2>1, <2>2 DEF LegacyInv, LegacyTyped, Flight
<1>7. RunsOK'
  BY <1>2, <1>5 DEF LegacyInv, RunsOK, Recorded
<1>8. Flight' \subseteq Flight
  BY <1>5 DEF Flight, InFlight
<1>9. \A r \in LegacyRequests : run'[r] /= "running"
  BY <1>2 DEF Recorded
<1>10. Recovering'
  BY <1>2, NotRecovered DEF Recovering, Flight, NotRecovering
<1>11. FlightOK'
  BY <1>2, <1>3, <1>8, <1>9, <1>10 DEF LegacyInv, FlightOK, Serving, Scanning
<1>12. MonitorsOK'
  BY <1>2, <1>4 DEF MonitorsOK, Results
<1>13. RemovedIsDone'
  BY <1>2, <1>5 DEF LegacyInv, RemovedIsDone, Recorded, Flight, InFlight
<1> QED BY <1>6, <1>7, <1>11, <1>12, <1>13 DEF LegacyInv

LEMMA LeastRequest ==
  ASSUME NEW S \in SUBSET LegacyRequests, S /= {}
  PROVE  \E r \in S : \A q \in S : r <= q
<1> DEFINE R == OpToRel(<, Nat)
<1>1. S \subseteq Nat
  BY LegacyAssumption DEF LegacyRequests
<1>2. IsWellFoundedOn(R, Nat)
  BY NatLessThanWellFounded
<1>3. PICK r \in S : \A q \in S : ~(<<q, r>> \in R)
  BY <1>1, <1>2, WFMin
<1>4. \A q \in S : ~(q < r)
  BY <1>1, <1>3 DEF OpToRel
<1> QED BY <1>1, <1>4

LEMMA ClaimsInv == ASSUME LegacyInv, Claims PROVE LegacyInv'
<1> DEFINE waits == {r \in LegacyRequests : status[r] = "queued"}
<1> USE DEF Claims
<1>1. /\ linked' = linked /\ rowArchive' = rowArchive /\ run' = run /\ stored' = stored
      /\ present' = present /\ monitor' = monitor /\ archiving' = archiving /\ scan' = scan
      /\ recovery' = recovery /\ dispatch = "current"
  OBVIOUS
<1>2. CASE dispatch' = "idle" /\ UNCHANGED <<status, active>>
  <2>1. LegacyTyped' /\ RunsOK' /\ MonitorsOK' /\ RemovedIsDone'
    BY <1>1, <1>2 DEF LegacyInv, LegacyTyped, ArchiveTypes, Results, RunsOK, MonitorsOK,
         RemovedIsDone, Up, Recovering
  <2>2. FlightOK'
    BY <1>1, <1>2 DEF LegacyInv, FlightOK, Flight, Serving, Up, Recovering, Scanning
  <2> QED BY <2>1, <2>2 DEF LegacyInv
<1>3. CASE \E r \in waits : /\ Current = {} /\ status' = [status EXCEPT ![r] = "running"]
                            /\ active' = r /\ dispatch' = "resolving"
  <2>1. PICK r \in LegacyRequests :
          /\ status[r] = "queued" /\ active' = r /\ dispatch' = "resolving"
          /\ status' = [status EXCEPT ![r] = "running"]
    BY <1>3
  <2>2. r /= 0 /\ run[r] = "none" /\ active = 0 /\ ~Recovering /\ Serving
    BY <1>1, <2>1, NotRecovered DEF LegacyInv, FlightOK, RunsOK, Serving, Up, Recovering
  <2>3. Flight = {}
    BY <2>2, NotRecovered DEF LegacyInv, FlightOK, Flight
  <2>4. LegacyTyped'
    BY <1>1, <2>1, LegacyAssumption DEF LegacyInv, LegacyTyped, ArchiveTypes, Results, InFlight,
         LegacyRequests
  <2>5. RunsOK'
    BY <1>1, <2>1, <2>2 DEF LegacyInv, LegacyTyped, ArchiveTypes, Results, RunsOK
  <2>6. \A q \in LegacyRequests : q /= r => status'[q] = status[q] /\ status[q] \notin InFlight
    BY <2>1, <2>3 DEF LegacyInv, LegacyTyped, ArchiveTypes, Results, Flight
  <2>7. Flight' = {r} /\ status'[r] = "running"
    BY <2>1, <2>6 DEF LegacyInv, LegacyTyped, ArchiveTypes, Results, Flight, InFlight
  <2>8. FlightOK'
    BY <1>1, <2>1, <2>2, <2>7 DEF FlightOK, Serving, Up, Recovering
  <2>9. \A q \in LegacyRequests : monitor[q] = "none"
    BY <2>2, NotRecovered DEF LegacyInv, LegacyTyped, ArchiveTypes, Results, MonitorsOK
  <2>10. MonitorsOK'
    BY <1>1, <2>9 DEF MonitorsOK, Results
  <2>11. RemovedIsDone'
    BY <1>1, <2>1, <2>2 DEF LegacyInv, LegacyTyped, ArchiveTypes, Results, RemovedIsDone
  <2> QED BY <2>4, <2>5, <2>8, <2>10, <2>11 DEF LegacyInv
<1>4. ASSUME Current = {}, waits /= {}
      PROVE  (CHOOSE q \in waits : \A p \in waits : q <= p) \in waits
  <2>1. \E q \in waits : \A p \in waits : q <= p
    BY <1>4, LeastRequest
  <2> QED BY <2>1
<1> HIDE DEF waits
<1>5. \/ dispatch' = "idle" /\ UNCHANGED <<status, active>>
      \/ /\ Current = {} /\ waits /= {}
         /\ status' = [status EXCEPT ![CHOOSE q \in waits : \A p \in waits : q <= p] = "running"]
         /\ active' = (CHOOSE q \in waits : \A p \in waits : q <= p) /\ dispatch' = "resolving"
  BY DEF waits
<1> QED BY <1>2, <1>3, <1>4, <1>5

LEMMA LegacyStart == LegacyInit => LegacyInv
<1> USE LegacyAssumption, NotRecovered DEF LegacyInit, LegacyRequests
<1>1. LegacyInit => LegacyTyped
  BY DEF LegacyTyped, NoArchive, ArchiveTypes
<1>2. LegacyInit => RunsOK
  BY DEF RunsOK, NoArchive
<1>3. LegacyInit => FlightOK
  BY DEF FlightOK, Flight, InFlight, Recovering, Up, Serving
<1>4. LegacyInit => MonitorsOK
  BY DEF MonitorsOK, Results
<1>5. LegacyInit => RemovedIsDone
  BY DEF RemovedIsDone
<1> QED BY <1>1, <1>2, <1>3, <1>4, <1>5 DEF LegacyInv

LEMMA LegacyStep ==
  ASSUME LegacyInv, ScansOK, [LegacyNext]_legacyVars
  PROVE  LegacyInv'
<1>1. CASE UNCHANGED legacyVars
  BY <1>1 DEF legacyVars, LegacyInv, LegacyTyped, RunsOK, FlightOK, MonitorsOK, RemovedIsDone,
              Flight, Serving, Up, Recovering, Scanning
<1>2. CASE ServiceStep
  BY <1>2, EntersInv, ClaimsInv, StartsInv, StartRefusedInv, RecoveryBeginsInv, RecoverArchiveInv,
     RecoverCompletesInv, RecoverRequestInv, RecoveryEndsInv DEF ServiceStep
<1>3. CASE Submit \/ Crash \/ CrashAfterStart
  BY <1>3, SubmitInv, CrashInv, CrashAfterStartInv
<1>4. CASE \E s \in Scanners : ScanStep(s)
  BY <1>4, ScanBeginsInv, ScanEndsInv, ScanArchivesLateInv, LateScanEndsInv DEF ScanStep
<1>5. CASE \E r \in LegacyRequests : MonitorStep(r)
  BY <1>5, RunEndsInv, MonitorSeesInv, MonitorCompletesInv DEF MonitorStep
<1>6. CASE \E r \in LegacyRequests : ArchiveEnds(r) \/ ArchiveAsked(r) \/ DirectoryRemoved(r)
  BY <1>6, ArchiveEndsInv, ArchiveAskedInv, DirectoryRemovedInv
<1> QED BY <1>1, <1>2, <1>3, <1>4, <1>5, <1>6 DEF LegacyNext

LEMMA ScansStart == LegacyInit => ScansOK
  BY LegacyAssumption DEF LegacyInit, ScansOK, ScanType, NoScan, NoArchive, ArchiveTypes

\* The scans stay what they are, or each is again none.
LEMMA ScansStay ==
  ASSUME ScansOK, scan' = scan \/ scan' = [s \in Scanners |-> NoScan],
         \A r \in LegacyRequests : status[r] \in {"waiting_archive"} \cup Ended =>
                                  status'[r] \in {"waiting_archive"} \cup Ended
  PROVE  ScansOK'
<1>1. CASE scan' = scan
  BY <1>1, LegacyAssumption DEF ScansOK, ScanType, LegacyRequests
<1>2. CASE scan' = [s \in Scanners |-> NoScan]
  BY <1>2, LegacyAssumption DEF ScansOK, ScanType, NoScan, NoArchive, ArchiveTypes
<1> QED BY <1>1, <1>2

LEMMA ScansRest == ASSUME ScansOK, ~Scanning, scan' = scan PROVE ScansOK'
  BY DEF Scanning, NoScan, ScansOK

\* A row keeps waiting, or ends.
KeepsWaiting(r) == status[r] \in {"waiting_archive"} \cup Ended =>
                     status'[r] \in {"waiting_archive"} \cup Ended

LEMMA CompletedKeeps ==
  ASSUME LegacyInv, NEW r \in LegacyRequests, NEW result, Completed(r, result)
  PROVE  \A q \in LegacyRequests : KeepsWaiting(q)
  BY DEF LegacyInv, LegacyTyped, Completed, KeepsWaiting, Ended

LEMMA ScanStepScans ==
  ASSUME LegacyInv, ScansOK, NEW s \in Scanners, ScanStep(s)
  PROVE  ScansOK'
<1>1. scan[s] \in ScanType
  BY DEF ScansOK
<1>2. NoScan \in ScanType
  BY LegacyAssumption DEF ScanType, NoScan, NoArchive, ArchiveTypes
<1>3. CASE ScanBegins(s)
  <2> DEFINE listed == {r \in LegacyRequests : r \in present /\ run[r] = "completed"}
  <2>1. scan' = [scan EXCEPT ![s] = [NoScan EXCEPT !.on = TRUE, !.waits = listed]]
        /\ status' = status
    BY <1>3 DEF ScanBegins
  <2>2. listed \subseteq LegacyRequests
    OBVIOUS
  <2> QED BY <1>2, <2>1, <2>2 DEF ScansOK, ScanType, NoScan
<1>4. CASE ScanArchivesLate(s)
  <2>1. PICK r \in Waiting : scan' = [scan EXCEPT ![s].late = r, ![s].waits = {r}]
    BY <1>4 DEF ScanArchivesLate
  <2>2. r \in LegacyRequests /\ status[r] = "waiting_archive" /\ r \in 0 .. MaxRequest
    BY <2>1, LegacyAssumption DEF Waiting, LegacyRequests
  <2> QED BY <1>1, <1>4, <2>1, <2>2 DEF ScanArchivesLate, ScansOK, ScanType
<1>5. CASE ScanEnds(s) \/ LateScanEnds(s)
  <2>1. scan' = [scan EXCEPT ![s] = NoScan]
    BY <1>5 DEF ScanEnds, LateScanEnds
  <2>2. \A r \in LegacyRequests : KeepsWaiting(r)
    <3>1. CASE ScanEnds(s)
      BY <3>1, CompletedKeeps DEF ScanEnds, Waiting, KeepsWaiting
    <3>2. CASE LateScanEnds(s)
      <4>1. scan[s].late \in LegacyRequests
        BY <1>1, <3>2, LegacyAssumption DEF LateScanEnds, ScanType, LegacyRequests
      <4> QED BY <3>2, <4>1, CompletedKeeps DEF LateScanEnds
    <3> QED BY <1>5, <3>1, <3>2
  <2>3. \A t \in Scanners : scan[t].late /= 0 => scan[t].late \in LegacyRequests
    BY LegacyAssumption DEF ScansOK, ScanType, LegacyRequests
  <2>4. scan' \in [Scanners -> ScanType]
    BY <1>2, <2>1 DEF ScansOK
  <2>5. \A t \in Scanners : scan'[t].late /= 0 => scan'[t] = scan[t]
    BY <2>1 DEF ScansOK, NoScan
  <2> QED BY <2>2, <2>3, <2>4, <2>5 DEF ScansOK, KeepsWaiting
<1> QED BY <1>3, <1>4, <1>5 DEF ScanStep

LEMMA ArchiveEndsScans ==
  ASSUME LegacyInv, ScansOK, NEW r \in LegacyRequests, ArchiveEnds(r)
  PROVE  ScansOK'
<1>1. PICK result \in Results : scan' = [s \in Scanners |-> Heard(s, r, result)]
  BY DEF ArchiveEnds
<1>2. ASSUME NEW s \in Scanners
      PROVE  Heard(s, r, result) \in ScanType /\ Heard(s, r, result).late = scan[s].late
  <2>1. scan[s] \in ScanType
    BY DEF ScansOK
  <2> QED BY <2>1 DEF Heard, ScanType, ArchiveTypes
<1>3. status' = status
  BY DEF ArchiveEnds
<1> QED BY <1>1, <1>2, <1>3 DEF ScansOK

\* Every step keeps the scans what they are: recovery is alone, a crash ends them.
LEMMA ScansStep ==
  ASSUME LegacyInv, ScansOK, [LegacyNext]_legacyVars
  PROVE  ScansOK'
<1>1. CASE UNCHANGED legacyVars
  BY <1>1, ScansStay DEF legacyVars, serviceVars
<1>2. CASE Enters \/ Starts
  BY <1>2, ScansStay DEF Enters, Starts
<1>3. CASE Claims
  <2>1. ASSUME NEW r \in LegacyRequests, status[r] = "queued",
               status' = [status EXCEPT ![r] = "running"]
        PROVE  \A q \in LegacyRequests : KeepsWaiting(q)
    BY <2>1 DEF LegacyInv, LegacyTyped, KeepsWaiting, Ended
  <2>2. \A q \in LegacyRequests : KeepsWaiting(q)
    <3> DEFINE waits == {r \in LegacyRequests : status[r] = "queued"}
    <3>1. CASE UNCHANGED status
      BY <3>1 DEF KeepsWaiting
    <3>2. CASE waits /= {} /\ status' = [status EXCEPT ![CHOOSE q \in waits :
                                                      \A p \in waits : q <= p] = "running"]
      <4>1. (CHOOSE q \in waits : \A p \in waits : q <= p) \in waits
        BY <3>2, LeastRequest
      <4> QED BY <2>1, <3>2, <4>1
    <3> QED BY <1>3, <3>1, <3>2 DEF Claims
  <2> QED BY <1>3, <2>2, ScansStay DEF Claims, KeepsWaiting
<1>4. CASE StartRefused
  BY <1>4, ScansStay DEF StartRefused, LegacyInv, LegacyTyped, Ended
<1>5. CASE RecoveryBegins \/ RecoverArchive \/ RecoverCompletes \/ RecoverRequest \/ RecoveryEnds
  <2>1. ~Scanning
    BY <1>5 DEF RecoveryBegins, RecoverArchive, RecoverCompletes, RecoverRequest, RecoveryEnds,
                LegacyInv, FlightOK, Recovering, NotRecovering
  <2>2. scan' = scan
    BY <1>5 DEF RecoveryBegins, RecoverArchive, RecoverCompletes, RecoverRequest, RecoveryEnds
  <2> QED BY <2>1, <2>2, ScansRest
<1>6. CASE Submit
  BY <1>6, ScansStay DEF Submit, serviceVars, LegacyInv, LegacyTyped, Ended
<1>7. CASE Crash \/ CrashAfterStart
  BY <1>7, ScansStay DEF Crash, CrashAfterStart, ProcessLost
<1>8. CASE \E s \in Scanners : ScanStep(s)
  BY <1>8, ScanStepScans
<1>9. ASSUME NEW r \in LegacyRequests, RunEnds(r) \/ ArchiveAsked(r) \/ DirectoryRemoved(r)
      PROVE  ScansOK'
  BY <1>9, ScansStay DEF RunEnds, ArchiveAsked, DirectoryRemoved, serviceVars
<1>10. ASSUME NEW r \in LegacyRequests, MonitorSees(r) PROVE ScansOK'
  BY <1>10, ScansStay DEF MonitorSees, LegacyInv, LegacyTyped, Ended
<1>11. ASSUME NEW r \in LegacyRequests, MonitorCompletes(r) PROVE ScansOK'
  BY <1>11, CompletedKeeps, ScansStay DEF MonitorCompletes, KeepsWaiting
<1>12. ASSUME NEW r \in LegacyRequests, ArchiveEnds(r) PROVE ScansOK'
  BY <1>12, ArchiveEndsScans
<1> QED BY <1>1, <1>2, <1>3, <1>4, <1>5, <1>6, <1>7, <1>8, <1>9, <1>10, <1>11, <1>12
        DEF LegacyNext, ServiceStep, MonitorStep

LEMMA FlightOfOne ==
  ASSUME NEW S, \A q, r \in S : q = r
  PROVE  Cardinality(S) <= 1
<1>1. CASE S = {}
  BY <1>1, FS_EmptySet
<1>2. CASE S /= {}
  <2>1. PICK r : S = {r}
    BY <1>2
  <2> QED BY <2>1, FS_Singleton
<1> QED BY <1>1, <1>2

\* One request is in flight and driven by the process, and a directory goes only when the queue is
\* done with its Run, although no lease in the database says so.
THEOREM LegacyDrivenCorrect == LegacySpec => []LegacyDriven
<1>1. ASSUME LegacyInv PROVE LegacyDriven
  <2>1. Up => \A r \in LegacyRequests : status[r] \in InFlight => active = r \/ r \in recovery
    BY <1>1 DEF LegacyInv, FlightOK, Flight, Serving, Up, Recovering
  <2>2. Cardinality(Flight) <= 1
    BY <1>1, FlightOfOne DEF LegacyInv, FlightOK
  <2>3. \A q, r \in Current : q = r
    BY <1>1 DEF LegacyInv, FlightOK, Flight, InFlight, RunsOK, Current
  <2> QED BY <1>1, <2>1, <2>2, <2>3, FlightOfOne
          DEF LegacyDriven, OneDrivenRequest, LegacyInv, Flight
<1>2. LegacyInv /\ ScansOK /\ [LegacyNext]_legacyVars => (LegacyInv /\ ScansOK)'
  BY LegacyStep, ScansStep
<1> QED BY <1>1, <1>2, LegacyStart, ScansStart, PTL DEF LegacySpec

\* The sets hold requests, and a Run that is linked or stored is there.
LegacySets ==
  /\ linked \subseteq LegacyRequests /\ present \subseteq LegacyRequests
  /\ archiving \subseteq LegacyRequests
  /\ \A r \in linked : run[r] /= "none"

LEMMA LegacySetsStart == LegacyInit => LegacySets
  BY DEF LegacyInit, LegacySets

LEMMA LegacySetsStep ==
  ASSUME LegacyInv, LegacySets, [LegacyNext]_legacyVars PROVE LegacySets'
<1> USE DEF LegacySets
<1>1. /\ run \in [LegacyRequests -> {"none", "running", "completed", "failed", "interrupted"}]
      /\ 0 \notin LegacyRequests
  BY DEF LegacyInv, LegacyTyped, ArchiveTypes, Results, LegacyRequests
<1>2. CASE UNCHANGED legacyVars
  BY <1>2 DEF legacyVars, serviceVars
<1>3. CASE ServiceStep
  <2>1. CASE Starts
    <3>1. active \in LegacyRequests
      BY <2>1 DEF Starts, LegacyInv, LegacyTyped, FlightOK, LegacyRequests
    <3> QED BY <1>1, <2>1, <3>1 DEF Starts
  <2>2. CASE RecoveryBegins
    BY <1>1, <2>2 DEF RecoveryBegins, Recorded
  <2>3. CASE RecoverArchive \/ RecoverRequest
    <3>1. First \in LegacyRequests
      BY <2>3, FirstIs DEF RecoverArchive, RecoverRequest, LegacyInv, LegacyTyped, Recovering
    <3> QED BY <1>1, <2>3, <3>1 DEF RecoverArchive, RecoverRequest
  <2>4. CASE Enters \/ Claims \/ StartRefused \/ RecoverCompletes \/ RecoveryEnds
    BY <2>4 DEF Enters, Claims, StartRefused, RecoverCompletes, RecoveryEnds
  <2> QED BY <1>3, <2>1, <2>2, <2>3, <2>4 DEF ServiceStep
<1>4. ASSUME NEW r \in LegacyRequests, MonitorStep(r) PROVE LegacySets'
  <2>1. CASE RunEnds(r)
    BY <1>1, <2>1 DEF RunEnds, serviceVars
  <2>2. CASE MonitorSees(r)
    BY <2>2 DEF MonitorSees
  <2>3. CASE MonitorCompletes(r)
    BY <2>3 DEF MonitorCompletes
  <2> QED BY <1>4, <2>1, <2>2, <2>3 DEF MonitorStep
<1>5. ASSUME NEW r \in LegacyRequests, ArchiveEnds(r) PROVE LegacySets'
  BY <1>1, <1>5 DEF ArchiveEnds
<1>6. ASSUME NEW r \in LegacyRequests, ArchiveAsked(r) \/ DirectoryRemoved(r) PROVE LegacySets'
  BY <1>6 DEF ArchiveAsked, DirectoryRemoved, serviceVars
<1>7. CASE Submit
  BY <1>7 DEF Submit, serviceVars
<1>8. ASSUME NEW s \in Scanners, ScanStep(s) PROVE LegacySets'
  BY <1>8 DEF ScanStep, ScanBegins, ScanEnds, ScanArchivesLate, LateScanEnds, Waiting
<1>9. CASE Crash
  BY <1>9 DEF Crash, ProcessLost
<1>10. CASE CrashAfterStart
  <2>1. active \in LegacyRequests
    BY <1>10 DEF CrashAfterStart, LegacyInv, LegacyTyped, FlightOK, LegacyRequests
  <2> QED BY <1>1, <1>10, <2>1 DEF CrashAfterStart, ProcessLost
<1> QED BY <1>2, <1>3, <1>4, <1>5, <1>6, <1>7, <1>8, <1>9, <1>10 DEF LegacyNext

LEMMA LegacyTypes == LegacyInv /\ ScansOK /\ LegacySets => LegacyTypeOK
  BY DEF LegacyInv, LegacyTyped, ScansOK, ScanType, LegacySets, RunsOK, LegacyTypeOK

-----------------------------------------------------------------------------
(***************************************************************************)
(* Upgrade: the database is wholly old or wholly new.  A transaction is a  *)
(* first part of the migrations on the database whose fingerprint was      *)
(* taken, and a complete backup is a copy of a database before its upgrade.*)
(***************************************************************************)
CommandType  == [at : {"none", "copy", "finish", "cutover", "commit", "index"},
                 dir : Dirs \cup {"none"}, kind : {"none", "project", "empty"},
                 seen : SUBSET Databases]

\* The parts of the state that are functions and records.
UpgradeTyped ==
  /\ UpgradeTypeOK /\ cli \in CommandType
  /\ backups \in [Dirs -> [state : BackupStates, copy : SUBSET Databases]]

\* A database before its upgrade.
Untouched(d) == d.applied = {} /\ d.mine = {} /\ d.marker = "none"

\* What backup copies is a database before its upgrade, and it copies into a directory of its own.
BackupsOK ==
  /\ \A d \in Dirs : backups[d].state # "index" => \A copy \in backups[d].copy : Untouched(copy)
  /\ cli.at \in {"copy", "finish"} => cli.dir \in Dirs /\ backups[cli.dir].state = "incomplete"
  /\ cli.at = "copy" => Untouched(db)

\* The cutover verified a backup of the database whose fingerprint it took, and the transaction is
\* on that database.
CutoverOK ==
  /\ cli.at \in {"cutover", "commit"} =>
       /\ cli.dir \in Dirs /\ cli.kind \in {"project", "empty"} /\ Untouched(db)
       /\ \E now \in Databases : /\ cli.seen = {now} /\ Verified(cli.dir, now)
                                 /\ Passes(cli.kind, now)
  /\ cli.at = "commit" => cli.seen = {db}
  /\ cli.at = "commit" <=> tx # {}
  /\ cli.at = "index" => db.marker # "none"

\* The migrations of the transaction are a first part of the list, and each has taken the rows it is
\* about from the old instance.
TransactionOK ==
  \A now \in tx :
    /\ \E m \in 9 .. 17 : /\ now.applied = 9 .. m
                          /\ m >= 10 => "index" \notin now.held
                          /\ m >= 11 => "runs" \notin now.held
                          /\ m >= 12 => now.held \cap {"configuration", "state"} = {}
                          /\ m >= 13 => "secrets" \notin now.held
    /\ now.marker = "none"

UpgradeInv == UpgradeTyped /\ NeverHalf /\ BackupsOK /\ CutoverOK /\ TransactionOK

-----------------------------------------------------------------------------
LEMMA UpgradeStart == UpgradeInit => UpgradeInv
<1> SUFFICES ASSUME UpgradeInit PROVE UpgradeInv
  OBVIOUS
<1> USE DEF UpgradeInit, NoCommand
<1>0. db \in Databases
  <2>1. CASE \E held \in SUBSET {"configuration", "secrets"}, legacy \in LegacyLevels :
              db = [legacy |-> legacy, applied |-> {}, marker |-> "none", held |-> held,
                    mine |-> {}, running |-> FALSE, version |-> 0, resumed |-> FALSE]
    BY <2>1, UpgradeAssumption DEF Databases, Groups
  <2>2. /\ LastLegacy \in LegacyLevels /\ {"configuration"} \subseteq Groups
        /\ ProjectMigrations \ {IndexIdentity} \subseteq ProjectMigrations
        /\ 0 \in 0 .. MaxVersion
    BY UpgradeAssumption DEF LegacyLevels, LastLegacy, Groups
  <2>3. CASE db = [legacy |-> LastLegacy, applied |-> ProjectMigrations \ {IndexIdentity},
                   marker |-> "project", held |-> {}, mine |-> {"configuration"},
                   running |-> FALSE, version |-> 0, resumed |-> TRUE]
    BY <2>2, <2>3 DEF Databases
  <2> QED BY <2>1, <2>3
<1>1. UpgradeTyped
  BY <1>0, UpgradeAssumption DEF UpgradeTyped, UpgradeTypeOK, CommandType, BackupStates, AtMostOne
<1>2. NeverHalf
  BY DEF NeverHalf, ProjectMigrations, IndexIdentity
<1>3. BackupsOK /\ CutoverOK /\ TransactionOK
  BY DEF BackupsOK, CutoverOK, TransactionOK
<1> QED BY <1>1, <1>2, <1>3 DEF UpgradeInv


LEMMA TypedAgain ==
  ASSUME UpgradeInv, db' \in Databases, reviewed' \subseteq Databases, AtMostOne(reviewed'),
         backups' \in [Dirs -> [state : BackupStates, copy : SUBSET Databases]],
         \A d \in Dirs : AtMostOne(backups'[d].copy), server' \in {"stopped", "old", "new"},
         cli' \in CommandType, tx' \subseteq Databases, AtMostOne(tx'),
         damages' \in 0 .. MaxDamage
  PROVE  UpgradeTyped'
  BY DEF UpgradeTyped, UpgradeTypeOK, AtMostOne, CommandType, BackupStates

LEMMA WrittenIsDatabase ==
  ASSUME NEW d \in Databases, d.version < MaxVersion
  PROVE  /\ Written(d) \in Databases /\ Written(d).applied = d.applied
         /\ Written(d).marker = d.marker /\ Written(d).mine = d.mine /\ Written(d).held = d.held
         /\ [Written(d) EXCEPT !.running = FALSE] \in Databases
         /\ \A group \in Groups, running \in BOOLEAN :
              [Written(d) EXCEPT !.held = @ \cup {group}, !.running = running] \in Databases
<1>1. /\ Written(d) \in Databases /\ Written(d).applied = d.applied
      /\ Written(d).marker = d.marker /\ Written(d).mine = d.mine /\ Written(d).held = d.held
  BY UpgradeAssumption DEF Written, Databases
<1>2. [Written(d) EXCEPT !.running = FALSE] \in Databases
  BY <1>1 DEF Databases
<1>3. ASSUME NEW group \in Groups, NEW running \in BOOLEAN
      PROVE  [Written(d) EXCEPT !.held = @ \cup {group}, !.running = running] \in Databases
  <2> DEFINE w == Written(d)
  <2>1. w \in Databases
    BY <1>1
  <2> HIDE DEF w
  <2>2. w.held \cup {group} \in SUBSET Groups
    BY <2>1 DEF Databases
  <2>3. [w EXCEPT !.held = @ \cup {group}, !.running = running] \in Databases
    BY <2>1, <2>2 DEF Databases
  <2> QED BY <2>3 DEF w
<1> QED BY <1>1, <1>2, <1>3

\* What a server writes: it neither upgrades the database nor writes during a transaction.
LEMMA ServerWrites ==
  ASSUME UpgradeInv, tx = {}, db' \in Databases, db'.applied = db.applied,
         db'.marker = db.marker, db'.mine = db.mine, db.applied = {} \/ db'.held = db.held,
         server' \in {"stopped", "old", "new"}, UNCHANGED <<backups, reviewed, cli, tx, damages>>
  PROVE  UpgradeInv'
<1>1. UpgradeTyped'
  BY DEF UpgradeInv, UpgradeTyped, UpgradeTypeOK, AtMostOne
<1>2. NeverHalf' /\ BackupsOK' /\ TransactionOK'
  BY DEF UpgradeInv, NeverHalf, BackupsOK, TransactionOK, Untouched
<1>3. CutoverOK'
  BY DEF UpgradeInv, CutoverOK, Untouched, Verified, Passes
<1> QED BY <1>1, <1>2, <1>3 DEF UpgradeInv

LEMMA LegacyMigratesUpgrade == ASSUME UpgradeInv, LegacyMigrates PROVE UpgradeInv'
<1>1. db \in Databases /\ server \in {"stopped", "old", "new"}
  BY DEF UpgradeInv, UpgradeTyped, UpgradeTypeOK
<1>2. tx = {}
  BY DEF LegacyMigrates
<1>3. db' \in Databases
  BY <1>1, UpgradeAssumption DEF LegacyMigrates, LegacySchema, Databases, LegacyLevels, LastLegacy
<1>4. /\ db'.applied = db.applied /\ db'.marker = db.marker /\ db'.mine = db.mine
      /\ db.applied = {} \/ db'.held = db.held
      /\ server' \in {"stopped", "old", "new"} /\ UNCHANGED <<backups, reviewed, cli, tx, damages>>
  BY <1>1 DEF LegacyMigrates, LegacySchema, Databases, LegacyLevels, LastLegacy
<1> QED BY <1>2, <1>3, <1>4, ServerWrites

LEMMA OldStartsUpgrade == ASSUME UpgradeInv, OldStarts PROVE UpgradeInv'
<1>1. db \in Databases /\ server \in {"stopped", "old", "new"}
  BY DEF UpgradeInv, UpgradeTyped, UpgradeTypeOK
<1>2. tx = {}
  BY DEF OldStarts
<1>3. db' \in Databases
  BY <1>1, WrittenIsDatabase DEF OldStarts
<1>4. /\ db'.applied = db.applied /\ db'.marker = db.marker /\ db'.mine = db.mine
      /\ db.applied = {} \/ db'.held = db.held
      /\ server' \in {"stopped", "old", "new"} /\ UNCHANGED <<backups, reviewed, cli, tx, damages>>
  BY <1>1 DEF OldStarts, LegacySchema, Written, Databases
<1> QED BY <1>2, <1>3, <1>4, ServerWrites

LEMMA OldWritesUpgrade == ASSUME UpgradeInv, OldWrites PROVE UpgradeInv'
<1>1. db \in Databases /\ server \in {"stopped", "old", "new"}
  BY DEF UpgradeInv, UpgradeTyped, UpgradeTypeOK
<1>2. tx = {}
  BY DEF OldWrites
<1>3. db' \in Databases
  <2>1. PICK group \in Groups, running \in BOOLEAN :
          db' = [Written(db) EXCEPT !.held = @ \cup {group}, !.running = running]
    BY DEF OldWrites
  <2> QED BY <1>1, <2>1, WrittenIsDatabase DEF OldWrites
<1>4. /\ db'.applied = db.applied /\ db'.marker = db.marker /\ db'.mine = db.mine
      /\ db.applied = {} \/ db'.held = db.held
      /\ server' \in {"stopped", "old", "new"} /\ UNCHANGED <<backups, reviewed, cli, tx, damages>>
  BY <1>1 DEF OldWrites, LegacySchema, Written, Databases, Groups
<1> QED BY <1>2, <1>3, <1>4, ServerWrites

LEMMA NewStartsUpgrade == ASSUME UpgradeInv, NewStarts PROVE UpgradeInv'
<1> USE DEF NewStarts, ProjectSchema
<1>1. UpgradeTyped'
  BY DEF UpgradeInv, UpgradeTyped, UpgradeTypeOK, Databases, CommandType, BackupStates, AtMostOne
<1>2. NeverHalf'
  BY DEF UpgradeInv, NeverHalf, UpgradeTyped, UpgradeTypeOK, Databases
<1>3. BackupsOK'
  BY DEF UpgradeInv, BackupsOK, Untouched, NeverHalf, UpgradeTyped, UpgradeTypeOK, Databases,
     BackupStates, CommandType
<1>4. CutoverOK'
  BY DEF UpgradeInv, CutoverOK, Untouched, NeverHalf, Verified, Passes, UpgradeTyped,
     UpgradeTypeOK, Databases, BackupStates, CommandType
<1>5. TransactionOK'
  BY DEF UpgradeInv, TransactionOK, CutoverOK, Untouched, UpgradeTyped, UpgradeTypeOK, Databases,
     CommandType
<1> QED BY <1>1, <1>2, <1>3, <1>4, <1>5 DEF UpgradeInv

LEMMA NewWorksUpgrade == ASSUME UpgradeInv, NewWorks PROVE UpgradeInv'
<1>1. db \in Databases /\ server \in {"stopped", "old", "new"}
  BY DEF UpgradeInv, UpgradeTyped, UpgradeTypeOK
<1>2. tx = {}
  BY DEF NewWorks
<1>3. db' \in Databases
  BY <1>1, UpgradeAssumption DEF NewWorks, Written, Databases
<1>4. /\ db'.applied = db.applied /\ db'.marker = db.marker /\ db'.mine = db.mine
      /\ db.applied = {} \/ db'.held = db.held
      /\ server' \in {"stopped", "old", "new"} /\ UNCHANGED <<backups, reviewed, cli, tx, damages>>
  BY <1>1 DEF NewWorks, Written, Databases
<1> QED BY <1>2, <1>3, <1>4, ServerWrites

LEMMA ResumeUpgradedUpgrade == ASSUME UpgradeInv, ResumeUpgraded PROVE UpgradeInv'
<1>1. db \in Databases /\ server \in {"stopped", "old", "new"}
  BY DEF UpgradeInv, UpgradeTyped, UpgradeTypeOK
<1>2. tx = {}
  BY DEF ResumeUpgraded
<1>3. db' \in Databases
  BY <1>1, UpgradeAssumption DEF ResumeUpgraded, Databases
<1>4. /\ db'.applied = db.applied /\ db'.marker = db.marker /\ db'.mine = db.mine
      /\ db.applied = {} \/ db'.held = db.held
      /\ server' \in {"stopped", "old", "new"} /\ UNCHANGED <<backups, reviewed, cli, tx, damages>>
  BY <1>1 DEF ResumeUpgraded, Databases
<1> QED BY <1>2, <1>3, <1>4, ServerWrites

LEMMA ServerStopsUpgrade == ASSUME UpgradeInv, ServerStops PROVE UpgradeInv'
<1> USE DEF ServerStops
<1>1. UpgradeTyped'
  BY DEF UpgradeInv, UpgradeTyped, UpgradeTypeOK, Databases, CommandType, BackupStates, AtMostOne
<1>2. NeverHalf'
  BY DEF UpgradeInv, NeverHalf, UpgradeTyped, UpgradeTypeOK, Databases
<1>3. BackupsOK'
  BY DEF UpgradeInv, BackupsOK, Untouched, NeverHalf, UpgradeTyped, UpgradeTypeOK, Databases,
     BackupStates, CommandType
<1>4. CutoverOK'
  BY DEF UpgradeInv, CutoverOK, Untouched, NeverHalf, Verified, Passes, UpgradeTyped,
     UpgradeTypeOK, Databases, BackupStates, CommandType
<1>5. TransactionOK'
  BY DEF UpgradeInv, TransactionOK, CutoverOK, Untouched, UpgradeTyped, UpgradeTypeOK, Databases,
     CommandType
<1> QED BY <1>1, <1>2, <1>3, <1>4, <1>5 DEF UpgradeInv

LEMMA InspectCommandUpgrade == ASSUME UpgradeInv, InspectCommand PROVE UpgradeInv'
<1> USE DEF InspectCommand, LegacySchema, NoCommand
<1>1. UpgradeTyped'
  BY DEF UpgradeInv, UpgradeTyped, UpgradeTypeOK, Databases, CommandType, BackupStates, AtMostOne
<1>2. NeverHalf'
  BY DEF UpgradeInv, NeverHalf, UpgradeTyped, UpgradeTypeOK, Databases
<1>3. BackupsOK'
  BY DEF UpgradeInv, BackupsOK, Untouched, NeverHalf, UpgradeTyped, UpgradeTypeOK, Databases,
     BackupStates, CommandType
<1>4. CutoverOK'
  BY DEF UpgradeInv, CutoverOK, Untouched, NeverHalf, Verified, Passes, UpgradeTyped,
     UpgradeTypeOK, Databases, BackupStates, CommandType
<1>5. TransactionOK'
  BY DEF UpgradeInv, TransactionOK, CutoverOK, Untouched, UpgradeTyped, UpgradeTypeOK, Databases,
     CommandType
<1> QED BY <1>1, <1>2, <1>3, <1>4, <1>5 DEF UpgradeInv

LEMMA BackupBeginsUpgrade == ASSUME UpgradeInv, NEW d \in Dirs, BackupBegins(d) PROVE UpgradeInv'
<1> USE DEF BackupBegins, LegacySchema, NoCommand
<1>1. UpgradeTyped'
  <2>1. /\ db \in Databases /\ reviewed \subseteq Databases /\ AtMostOne(reviewed)
        /\ backups \in [Dirs -> [state : BackupStates, copy : SUBSET Databases]]
        /\ \A e \in Dirs : AtMostOne(backups[e].copy)
        /\ server \in {"stopped", "old", "new"} /\ cli \in CommandType
        /\ tx \subseteq Databases /\ AtMostOne(tx) /\ damages \in 0 .. MaxDamage
    BY DEF UpgradeInv, UpgradeTyped, UpgradeTypeOK
  <2>2. backups' \in [Dirs -> [state : BackupStates, copy : SUBSET Databases]]
    BY <2>1 DEF BackupBegins, NoCommand, BackupStates
  <2>3. \A e \in Dirs : AtMostOne(backups'[e].copy)
    BY <2>1 DEF BackupBegins, NoCommand, AtMostOne
  <2>4. cli' \in CommandType
    BY <2>1 DEF BackupBegins, NoCommand, CommandType
  <2>5. UNCHANGED <<db, reviewed, server, tx>> /\ damages' \in 0 .. MaxDamage
    BY <2>1, UpgradeAssumption DEF BackupBegins, NoCommand
  <2> QED BY <2>1, <2>2, <2>3, <2>4, <2>5, TypedAgain
<1>2. NeverHalf'
  BY DEF UpgradeInv, NeverHalf, UpgradeTyped, UpgradeTypeOK, Databases
<1>3. BackupsOK'
  BY DEF UpgradeInv, BackupsOK, Untouched, NeverHalf, UpgradeTyped, UpgradeTypeOK, Databases,
     BackupStates, CommandType
<1>4. CutoverOK'
  BY DEF UpgradeInv, CutoverOK, Untouched, NeverHalf, Verified, Passes, UpgradeTyped,
     UpgradeTypeOK, Databases, BackupStates, CommandType
<1>5. TransactionOK'
  BY DEF UpgradeInv, TransactionOK, CutoverOK, Untouched, UpgradeTyped, UpgradeTypeOK, Databases,
     CommandType
<1> QED BY <1>1, <1>2, <1>3, <1>4, <1>5 DEF UpgradeInv

LEMMA BackupCopiesUpgrade == ASSUME UpgradeInv, BackupCopies PROVE UpgradeInv'
<1> USE DEF BackupCopies, NoCommand
<1>1. UpgradeTyped'
  <2>1. /\ db \in Databases /\ reviewed \subseteq Databases /\ AtMostOne(reviewed)
        /\ backups \in [Dirs -> [state : BackupStates, copy : SUBSET Databases]]
        /\ \A e \in Dirs : AtMostOne(backups[e].copy)
        /\ server \in {"stopped", "old", "new"} /\ cli \in CommandType
        /\ tx \subseteq Databases /\ AtMostOne(tx) /\ damages \in 0 .. MaxDamage
    BY DEF UpgradeInv, UpgradeTyped, UpgradeTypeOK
  <2>2. backups' \in [Dirs -> [state : BackupStates, copy : SUBSET Databases]]
    BY <2>1 DEF BackupCopies, NoCommand, BackupStates
  <2>3. \A e \in Dirs : AtMostOne(backups'[e].copy)
    BY <2>1 DEF BackupCopies, NoCommand, AtMostOne
  <2>4. cli' \in CommandType
    BY <2>1 DEF BackupCopies, NoCommand, CommandType
  <2>5. UNCHANGED <<db, reviewed, server, tx>> /\ damages' \in 0 .. MaxDamage
    BY <2>1, UpgradeAssumption DEF BackupCopies, NoCommand
  <2> QED BY <2>1, <2>2, <2>3, <2>4, <2>5, TypedAgain
<1>2. NeverHalf'
  BY DEF UpgradeInv, NeverHalf, UpgradeTyped, UpgradeTypeOK, Databases
<1>3. BackupsOK'
  BY DEF UpgradeInv, BackupsOK, Untouched, NeverHalf, UpgradeTyped, UpgradeTypeOK, Databases,
     BackupStates, CommandType
<1>4. CutoverOK'
  BY DEF UpgradeInv, CutoverOK, Untouched, NeverHalf, Verified, Passes, UpgradeTyped,
     UpgradeTypeOK, Databases, BackupStates, CommandType
<1>5. TransactionOK'
  BY DEF UpgradeInv, TransactionOK, CutoverOK, Untouched, UpgradeTyped, UpgradeTypeOK, Databases,
     CommandType
<1> QED BY <1>1, <1>2, <1>3, <1>4, <1>5 DEF UpgradeInv

LEMMA BackupEndsUpgrade == ASSUME UpgradeInv, BackupEnds PROVE UpgradeInv'
<1> USE DEF BackupEnds, NoCommand
<1>1. UpgradeTyped'
  <2>1. /\ db \in Databases /\ reviewed \subseteq Databases /\ AtMostOne(reviewed)
        /\ backups \in [Dirs -> [state : BackupStates, copy : SUBSET Databases]]
        /\ \A e \in Dirs : AtMostOne(backups[e].copy)
        /\ server \in {"stopped", "old", "new"} /\ cli \in CommandType
        /\ tx \subseteq Databases /\ AtMostOne(tx) /\ damages \in 0 .. MaxDamage
    BY DEF UpgradeInv, UpgradeTyped, UpgradeTypeOK
  <2>2. backups' \in [Dirs -> [state : BackupStates, copy : SUBSET Databases]]
    BY <2>1 DEF BackupEnds, NoCommand, BackupStates
  <2>3. \A e \in Dirs : AtMostOne(backups'[e].copy)
    BY <2>1 DEF BackupEnds, NoCommand, AtMostOne
  <2>4. cli' \in CommandType
    BY <2>1 DEF BackupEnds, NoCommand, CommandType
  <2>5. UNCHANGED <<db, reviewed, server, tx>> /\ damages' \in 0 .. MaxDamage
    BY <2>1, UpgradeAssumption DEF BackupEnds, NoCommand
  <2> QED BY <2>1, <2>2, <2>3, <2>4, <2>5, TypedAgain
<1>2. NeverHalf'
  BY DEF UpgradeInv, NeverHalf, UpgradeTyped, UpgradeTypeOK, Databases
<1>3. BackupsOK'
  BY DEF UpgradeInv, BackupsOK, Untouched, NeverHalf, UpgradeTyped, UpgradeTypeOK, Databases,
     BackupStates, CommandType
<1>4. CutoverOK'
  BY DEF UpgradeInv, CutoverOK, Untouched, NeverHalf, Verified, Passes, UpgradeTyped,
     UpgradeTypeOK, Databases, BackupStates, CommandType
<1>5. TransactionOK'
  BY DEF UpgradeInv, TransactionOK, CutoverOK, Untouched, UpgradeTyped, UpgradeTypeOK, Databases,
     CommandType
<1> QED BY <1>1, <1>2, <1>3, <1>4, <1>5 DEF UpgradeInv

LEMMA BackupDamagedUpgrade == ASSUME UpgradeInv, NEW d \in Dirs, BackupDamaged(d) PROVE UpgradeInv'
<1> USE DEF BackupDamaged, NoCommand
<1>1. UpgradeTyped'
  <2>1. /\ db \in Databases /\ reviewed \subseteq Databases /\ AtMostOne(reviewed)
        /\ backups \in [Dirs -> [state : BackupStates, copy : SUBSET Databases]]
        /\ \A e \in Dirs : AtMostOne(backups[e].copy)
        /\ server \in {"stopped", "old", "new"} /\ cli \in CommandType
        /\ tx \subseteq Databases /\ AtMostOne(tx) /\ damages \in 0 .. MaxDamage
    BY DEF UpgradeInv, UpgradeTyped, UpgradeTypeOK
  <2>2. backups' \in [Dirs -> [state : BackupStates, copy : SUBSET Databases]]
    BY <2>1 DEF BackupDamaged, NoCommand, BackupStates
  <2>3. \A e \in Dirs : AtMostOne(backups'[e].copy)
    BY <2>1 DEF BackupDamaged, NoCommand, AtMostOne
  <2>4. cli' \in CommandType
    BY <2>1 DEF BackupDamaged, NoCommand, CommandType
  <2>5. UNCHANGED <<db, reviewed, server, tx>> /\ damages' \in 0 .. MaxDamage
    BY <2>1, UpgradeAssumption DEF BackupDamaged, NoCommand
  <2> QED BY <2>1, <2>2, <2>3, <2>4, <2>5, TypedAgain
<1>2. NeverHalf'
  BY DEF UpgradeInv, NeverHalf, UpgradeTyped, UpgradeTypeOK, Databases
<1>3. BackupsOK'
  BY DEF UpgradeInv, BackupsOK, Untouched, NeverHalf, UpgradeTyped, UpgradeTypeOK, Databases,
     BackupStates, CommandType
<1>4. CutoverOK'
  BY DEF UpgradeInv, CutoverOK, Untouched, NeverHalf, Verified, Passes, UpgradeTyped,
     UpgradeTypeOK, Databases, BackupStates, CommandType
<1>5. TransactionOK'
  BY DEF UpgradeInv, TransactionOK, CutoverOK, Untouched, UpgradeTyped, UpgradeTypeOK, Databases,
     CommandType
<1> QED BY <1>1, <1>2, <1>3, <1>4, <1>5 DEF UpgradeInv

LEMMA BackupRestoredUpgrade ==
  ASSUME UpgradeInv, NEW d \in Dirs, BackupRestored(d)
  PROVE  UpgradeInv'
<1> USE DEF BackupRestored, NoCommand
<1>1. UpgradeTyped'
  BY DEF UpgradeInv, UpgradeTyped, UpgradeTypeOK, Databases, CommandType, BackupStates, AtMostOne
<1>2. NeverHalf'
  <2>1. PICK copy \in backups[d].copy : db' = copy
    OBVIOUS
  <2>2. Untouched(copy)
    BY DEF UpgradeInv, BackupsOK
  <2> QED BY <2>1, <2>2 DEF NeverHalf, Untouched
<1>3. BackupsOK'
  BY DEF UpgradeInv, BackupsOK, Untouched, NeverHalf, UpgradeTyped, UpgradeTypeOK, Databases,
     BackupStates, CommandType
<1>4. CutoverOK'
  BY DEF UpgradeInv, CutoverOK, Untouched, NeverHalf, Verified, Passes, UpgradeTyped,
     UpgradeTypeOK, Databases, BackupStates, CommandType
<1>5. TransactionOK'
  BY DEF UpgradeInv, TransactionOK, CutoverOK, Untouched, UpgradeTyped, UpgradeTypeOK, Databases,
     CommandType
<1> QED BY <1>1, <1>2, <1>3, <1>4, <1>5 DEF UpgradeInv

LEMMA CutoverBeginsUpgrade == ASSUME UpgradeInv, NEW d \in Dirs, CutoverBegins(d) PROVE UpgradeInv'
<1> USE DEF CutoverBegins, NoCommand, LegacySchema, BackupMatches
<1>1. UpgradeTyped'
  BY DEF UpgradeInv, UpgradeTyped, UpgradeTypeOK, Databases, CommandType, BackupStates, AtMostOne
<1>2. NeverHalf'
  BY DEF UpgradeInv, NeverHalf, UpgradeTyped, UpgradeTypeOK, Databases
<1>3. BackupsOK'
  BY DEF UpgradeInv, BackupsOK, Untouched, NeverHalf, UpgradeTyped, UpgradeTypeOK, Databases,
     BackupStates, CommandType
<1>4. CutoverOK'
  BY DEF UpgradeInv, CutoverOK, Untouched, NeverHalf, Verified, Passes, UpgradeTyped,
     UpgradeTypeOK, Databases, BackupStates, CommandType
<1>5. TransactionOK'
  BY DEF UpgradeInv, TransactionOK, CutoverOK, Untouched, UpgradeTyped, UpgradeTypeOK, Databases,
     CommandType
<1> QED BY <1>1, <1>2, <1>3, <1>4, <1>5 DEF UpgradeInv

LEMMA TransactionBeginsUpgrade == ASSUME UpgradeInv, TransactionBegins PROVE UpgradeInv'
<1> USE DEF TransactionBegins, ProjectMigrations
<1>1. UpgradeTyped'
  BY DEF UpgradeInv, UpgradeTyped, UpgradeTypeOK, Databases, CommandType, BackupStates, AtMostOne
<1>2. NeverHalf'
  BY DEF UpgradeInv, NeverHalf, UpgradeTyped, UpgradeTypeOK, Databases
<1>3. BackupsOK'
  BY DEF UpgradeInv, BackupsOK, Untouched, NeverHalf, UpgradeTyped, UpgradeTypeOK, Databases,
     BackupStates, CommandType
<1>4. CutoverOK'
  BY DEF UpgradeInv, CutoverOK, Untouched, NeverHalf, Verified, Passes, UpgradeTyped,
     UpgradeTypeOK, Databases, BackupStates, CommandType
<1>5. TransactionOK'
  BY DEF UpgradeInv, TransactionOK, CutoverOK, Untouched, UpgradeTyped, UpgradeTypeOK, Databases,
     CommandType
<1> QED BY <1>1, <1>2, <1>3, <1>4, <1>5 DEF UpgradeInv

\* The migrations, each after the first part of the list that the transaction has done.
LEMMA MigrationSteps ==
  ASSUME NEW now \in Databases, NEW n \in Migrated(now), NEW m \in 9 .. 17,
         now.applied = 9 .. m, now.applied # ProjectMigrations
  PROVE  /\ n \in Databases /\ m + 1 \in 9 .. 17 /\ n.applied = 9 .. m + 1
         /\ n.marker = now.marker /\ n.held \subseteq now.held
         /\ m + 1 = 10 => "index" \notin n.held
         /\ m + 1 = 11 => "runs" \notin n.held
         /\ m + 1 = 12 => n.held \cap {"configuration", "state"} = {}
         /\ m + 1 = 13 => "secrets" \notin n.held
<1>1. Cardinality(9 .. m) = m - 8
  BY FS_Interval
<1>2. NextMigration(now) = m + 1
  BY <1>1 DEF NextMigration
<1>3. m + 1 \in 10 .. 17
  BY DEF ProjectMigrations
<1>4. PICK o \in Apply(m + 1, now) : n = [o EXCEPT !.applied = @ \cup {m + 1}]
  BY <1>2 DEF Migrated
<1>5. /\ o \in Databases /\ o.applied = now.applied /\ o.marker = now.marker
      /\ o.held \subseteq now.held
      /\ m + 1 = 10 => "index" \notin o.held
      /\ m + 1 = 11 => "runs" \notin o.held
      /\ m + 1 = 12 => o.held \cap {"configuration", "state"} = {}
      /\ m + 1 = 13 => "secrets" \notin o.held
  <2>1. ASSUME NEW groups \in SUBSET Groups, o \in Owns(now, groups)
        PROVE  /\ o \in Databases /\ o.applied = now.applied /\ o.marker = now.marker
               /\ o.held = now.held \ groups
    BY <2>1 DEF Owns, Databases
  <2>2. /\ {"index"} \in SUBSET Groups /\ {"runs"} \in SUBSET Groups
        /\ {"configuration", "state"} \in SUBSET Groups /\ {"secrets"} \in SUBSET Groups
    BY DEF Groups
  <2>3. CASE m + 1 = 10
    BY <1>4, <2>1, <2>2, <2>3 DEF Apply, OwnsIndex
  <2>4. CASE m + 1 = 11
    BY <1>4, <2>1, <2>2, <2>4 DEF Apply, OwnsRuns
  <2>5. CASE m + 1 = 12
    BY <1>4, <2>1, <2>2, <2>5 DEF Apply, OwnsConfiguration
  <2>6. CASE m + 1 = 13
    BY <1>4, <2>1, <2>2, <2>6 DEF Apply, OwnsSecrets
  <2>7. CASE m + 1 \in 14 .. 17
    BY <1>4, <2>7 DEF Apply, QueueContext, ImageState, RunImage, ReportIdentity
  <2> QED BY <1>3, <2>3, <2>4, <2>5, <2>6, <2>7
<1>6. n \in Databases /\ n.applied = 9 .. m + 1 /\ n.marker = o.marker /\ n.held = o.held
  <2>1. (9 .. m) \cup {m + 1} = 9 .. m + 1 /\ 9 .. m + 1 \subseteq ProjectMigrations
    BY <1>3 DEF ProjectMigrations
  <2>2. n = [o EXCEPT !.applied = 9 .. m + 1]
    BY <1>4, <1>5, <2>1
  <2> QED BY <1>5, <2>1, <2>2 DEF Databases
<1> QED BY <1>3, <1>5, <1>6

LEMMA MigratesToOne ==
  ASSUME NEW now, NEW m \in 9 .. 17, now.applied = 9 .. m, now.applied # ProjectMigrations
  PROVE  AtMostOne(Migrated(now))
<1>1. Cardinality(9 .. m) = m - 8
  BY FS_Interval
<1>2. NextMigration(now) = m + 1 /\ m + 1 \in 10 .. 17
  BY <1>1 DEF NextMigration, ProjectMigrations
<1>3. AtMostOne(Apply(m + 1, now))
  <2>1. \A groups : AtMostOne(Owns(now, groups))
    BY DEF Owns, AtMostOne
  <2>2. CASE m + 1 = 10
    BY <2>1, <2>2 DEF Apply, OwnsIndex
  <2>3. CASE m + 1 = 11
    BY <2>1, <2>3 DEF Apply, OwnsRuns
  <2>4. CASE m + 1 = 12
    BY <2>1, <2>4 DEF Apply, OwnsConfiguration
  <2>5. CASE m + 1 = 13
    BY <2>1, <2>5 DEF Apply, OwnsSecrets
  <2>6. CASE m + 1 \in 14 .. 17
    BY <2>6 DEF Apply, QueueContext, ImageState, RunImage, ReportIdentity, AtMostOne
  <2> QED BY <1>2, <2>2, <2>3, <2>4, <2>5, <2>6
<1>4. \A a \in Apply(NextMigration(now), now), b \in Apply(NextMigration(now), now) : a = b
  BY <1>2, <1>3 DEF AtMostOne
<1> QED BY <1>4 DEF Migrated, AtMostOne

LEMMA MigratesUpgrade == ASSUME UpgradeInv, Migrates PROVE UpgradeInv'
<1>1. PICK now \in tx : now.applied # ProjectMigrations /\ tx' = Migrated(now) /\ tx' # {}
  BY DEF Migrates
<1>2. cli.at = "commit" /\ UNCHANGED <<db, backups, reviewed, server, cli, damages>>
  BY DEF Migrates
<1>3. now \in Databases /\ now.marker = "none" /\ UpgradeTyped
  BY DEF UpgradeInv, UpgradeTyped, UpgradeTypeOK, TransactionOK
<1>4. PICK m \in 9 .. 17 : /\ now.applied = 9 .. m
                           /\ m >= 10 => "index" \notin now.held
                           /\ m >= 11 => "runs" \notin now.held
                           /\ m >= 12 => now.held \cap {"configuration", "state"} = {}
                           /\ m >= 13 => "secrets" \notin now.held
  BY DEF UpgradeInv, TransactionOK
<1>5. \A n \in tx' : /\ n \in Databases /\ m + 1 \in 9 .. 17 /\ n.applied = 9 .. m + 1
                     /\ n.marker = now.marker /\ n.held \subseteq now.held
                     /\ m + 1 = 10 => "index" \notin n.held
                     /\ m + 1 = 11 => "runs" \notin n.held
                     /\ m + 1 = 12 => n.held \cap {"configuration", "state"} = {}
                     /\ m + 1 = 13 => "secrets" \notin n.held
  BY <1>1, <1>3, <1>4, MigrationSteps
<1>6. AtMostOne(tx')
  BY <1>1, <1>3, <1>4, MigratesToOne
<1>7. UpgradeTyped'
  BY <1>2, <1>3, <1>5, <1>6 DEF UpgradeTyped, UpgradeTypeOK, AtMostOne
<1>8. NeverHalf' /\ BackupsOK' /\ CutoverOK'
  BY <1>1, <1>2 DEF UpgradeInv, NeverHalf, BackupsOK, Untouched, CutoverOK, Verified, Passes
<1>9. TransactionOK'
  <2>1. ASSUME NEW n \in tx'
        PROVE  \E k \in 9 .. 17 : /\ n.applied = 9 .. k
                                  /\ k >= 10 => "index" \notin n.held
                                  /\ k >= 11 => "runs" \notin n.held
                                  /\ k >= 12 => n.held \cap {"configuration", "state"} = {}
                                  /\ k >= 13 => "secrets" \notin n.held
    <3>1. m + 1 \in 9 .. 17 /\ n.applied = 9 .. m + 1
      BY <1>5
    <3>2. /\ m + 1 >= 10 => "index" \notin n.held
          /\ m + 1 >= 11 => "runs" \notin n.held
          /\ m + 1 >= 12 => n.held \cap {"configuration", "state"} = {}
          /\ m + 1 >= 13 => "secrets" \notin n.held
      BY <1>4, <1>5
    <3> QED BY <3>1, <3>2
  <2> QED BY <1>3, <1>5, <2>1 DEF TransactionOK
<1> QED BY <1>7, <1>8, <1>9 DEF UpgradeInv

LEMMA CommitsUpgrade == ASSUME UpgradeInv, Commits PROVE UpgradeInv'
<1> USE DEF Commits, NoCommand, ProjectMigrations
<1>1. UpgradeTyped'
  BY DEF UpgradeInv, UpgradeTyped, UpgradeTypeOK, Databases, CommandType, BackupStates, AtMostOne
<1>2. NeverHalf'
  <2>1. PICK now \in tx : now.applied = ProjectMigrations /\ db' = [now EXCEPT !.marker = cli.kind]
    OBVIOUS
  <2>2. now \in Databases /\ cli.kind \in {"project", "empty"}
    BY DEF UpgradeInv, UpgradeTyped, UpgradeTypeOK, CutoverOK
  <2>3. db'.applied = ProjectMigrations /\ db'.marker = cli.kind /\ db'.held = now.held
    BY <2>1, <2>2 DEF Databases
  <2>4. PICK m \in 9 .. 17 : /\ now.applied = 9 .. m
                             /\ m >= 10 => "index" \notin now.held
                             /\ m >= 11 => "runs" \notin now.held
                             /\ m >= 12 => now.held \cap {"configuration", "state"} = {}
                             /\ m >= 13 => "secrets" \notin now.held
    BY DEF UpgradeInv, TransactionOK
  <2>5. m = 17
    <3>1. 17 \in ProjectMigrations
      BY DEF ProjectMigrations
    <3>2. 17 \in 9 .. m
      BY <2>1, <2>4, <3>1
    <3> QED BY <3>2
  <2>6. now.held = {}
    BY <2>2, <2>4, <2>5 DEF Databases, Groups
  <2>7. 9 \in ProjectMigrations
    BY DEF ProjectMigrations
  <2> QED BY <2>2, <2>3, <2>6, <2>7 DEF NeverHalf
<1>3. BackupsOK'
  BY DEF UpgradeInv, BackupsOK, Untouched, NeverHalf, UpgradeTyped, UpgradeTypeOK, Databases,
     BackupStates, CommandType
<1>4. CutoverOK'
  BY DEF UpgradeInv, CutoverOK, Untouched, NeverHalf, Verified, Passes, UpgradeTyped,
     UpgradeTypeOK, Databases, BackupStates, CommandType
<1>5. TransactionOK'
  BY DEF UpgradeInv, TransactionOK, CutoverOK, Untouched, UpgradeTyped, UpgradeTypeOK, Databases,
     CommandType
<1> QED BY <1>1, <1>2, <1>3, <1>4, <1>5 DEF UpgradeInv

LEMMA UpgradeCommandFailsUpgrade == ASSUME UpgradeInv, UpgradeCommandFails PROVE UpgradeInv'
<1> USE DEF UpgradeCommandFails, NoCommand
<1>1. UpgradeTyped'
  BY DEF UpgradeInv, UpgradeTyped, UpgradeTypeOK, Databases, CommandType, BackupStates, AtMostOne
<1>2. NeverHalf'
  BY DEF UpgradeInv, NeverHalf, UpgradeTyped, UpgradeTypeOK, Databases
<1>3. BackupsOK'
  BY DEF UpgradeInv, BackupsOK, Untouched, NeverHalf, UpgradeTyped, UpgradeTypeOK, Databases,
     BackupStates, CommandType
<1>4. CutoverOK'
  BY DEF UpgradeInv, CutoverOK, Untouched, NeverHalf, Verified, Passes, UpgradeTyped,
     UpgradeTypeOK, Databases, BackupStates, CommandType
<1>5. TransactionOK'
  BY DEF UpgradeInv, TransactionOK, CutoverOK, Untouched, UpgradeTyped, UpgradeTypeOK, Databases,
     CommandType
<1> QED BY <1>1, <1>2, <1>3, <1>4, <1>5 DEF UpgradeInv

LEMMA IndexUpgradeBeginsUpgrade ==
  ASSUME UpgradeInv, NEW d \in Dirs, IndexUpgradeBegins(d)
  PROVE  UpgradeInv'
<1> USE DEF IndexUpgradeBegins, NoCommand
<1>1. UpgradeTyped'
  <2>1. /\ db \in Databases /\ reviewed \subseteq Databases /\ AtMostOne(reviewed)
        /\ backups \in [Dirs -> [state : BackupStates, copy : SUBSET Databases]]
        /\ \A e \in Dirs : AtMostOne(backups[e].copy)
        /\ server \in {"stopped", "old", "new"} /\ cli \in CommandType
        /\ tx \subseteq Databases /\ AtMostOne(tx) /\ damages \in 0 .. MaxDamage
    BY DEF UpgradeInv, UpgradeTyped, UpgradeTypeOK
  <2>2. backups' \in [Dirs -> [state : BackupStates, copy : SUBSET Databases]]
    BY <2>1 DEF IndexUpgradeBegins, NoCommand, BackupStates
  <2>3. \A e \in Dirs : AtMostOne(backups'[e].copy)
    BY <2>1 DEF IndexUpgradeBegins, NoCommand, AtMostOne
  <2>4. cli' \in CommandType
    BY <2>1 DEF IndexUpgradeBegins, NoCommand, CommandType
  <2>5. UNCHANGED <<db, reviewed, server, tx>> /\ damages' \in 0 .. MaxDamage
    BY <2>1, UpgradeAssumption DEF IndexUpgradeBegins, NoCommand
  <2> QED BY <2>1, <2>2, <2>3, <2>4, <2>5, TypedAgain
<1>2. NeverHalf'
  BY DEF UpgradeInv, NeverHalf, UpgradeTyped, UpgradeTypeOK, Databases
<1>3. BackupsOK'
  BY DEF UpgradeInv, BackupsOK, Untouched, NeverHalf, UpgradeTyped, UpgradeTypeOK, Databases,
     BackupStates, CommandType
<1>4. CutoverOK'
  BY DEF UpgradeInv, CutoverOK, Untouched, NeverHalf, Verified, Passes, UpgradeTyped,
     UpgradeTypeOK, Databases, BackupStates, CommandType
<1>5. TransactionOK'
  BY DEF UpgradeInv, TransactionOK, CutoverOK, Untouched, UpgradeTyped, UpgradeTypeOK, Databases,
     CommandType
<1> QED BY <1>1, <1>2, <1>3, <1>4, <1>5 DEF UpgradeInv

LEMMA IndexUpgradeCommitsUpgrade == ASSUME UpgradeInv, IndexUpgradeCommits PROVE UpgradeInv'
<1> USE DEF IndexUpgradeCommits, NoCommand, ReportIdentity, ProjectMigrations, IndexIdentity
<1>1. UpgradeTyped'
  BY DEF UpgradeInv, UpgradeTyped, UpgradeTypeOK, Databases, CommandType, BackupStates, AtMostOne
<1>2. NeverHalf'
  BY DEF UpgradeInv, NeverHalf, UpgradeTyped, UpgradeTypeOK, Databases
<1>3. BackupsOK'
  BY DEF UpgradeInv, BackupsOK, Untouched, NeverHalf, UpgradeTyped, UpgradeTypeOK, Databases,
     BackupStates, CommandType
<1>4. CutoverOK'
  BY DEF UpgradeInv, CutoverOK, Untouched, NeverHalf, Verified, Passes, UpgradeTyped,
     UpgradeTypeOK, Databases, BackupStates, CommandType
<1>5. TransactionOK'
  BY DEF UpgradeInv, TransactionOK, CutoverOK, Untouched, UpgradeTyped, UpgradeTypeOK, Databases,
     CommandType
<1> QED BY <1>1, <1>2, <1>3, <1>4, <1>5 DEF UpgradeInv

LEMMA UpgradeStep == UpgradeInv /\ [UpgradeNext]_upgradeVars => UpgradeInv'
<1> SUFFICES ASSUME UpgradeInv, [UpgradeNext]_upgradeVars PROVE UpgradeInv'
  OBVIOUS
<1>1. CASE UNCHANGED upgradeVars
  BY <1>1 DEF upgradeVars, UpgradeInv, UpgradeTyped, UpgradeTypeOK, AtMostOne, NeverHalf, BackupsOK,
              Untouched, CutoverOK, Verified, Passes, TransactionOK
<1>2. CASE \/ LegacyMigrates \/ OldStarts \/ OldWrites \/ NewStarts \/ NewWorks
           \/ ResumeUpgraded \/ ServerStops \/ InspectCommand
  BY <1>2, LegacyMigratesUpgrade, OldStartsUpgrade, OldWritesUpgrade, NewStartsUpgrade,
     NewWorksUpgrade, ResumeUpgradedUpgrade, ServerStopsUpgrade, InspectCommandUpgrade
<1>3. CASE \/ BackupCopies \/ BackupEnds \/ TransactionBegins \/ Migrates \/ Commits
           \/ UpgradeCommandFails \/ IndexUpgradeCommits
  BY <1>3, BackupCopiesUpgrade, BackupEndsUpgrade, TransactionBeginsUpgrade, MigratesUpgrade,
     CommitsUpgrade, UpgradeCommandFailsUpgrade, IndexUpgradeCommitsUpgrade
<1>4. CASE \E d \in Dirs : \/ BackupBegins(d) \/ BackupDamaged(d) \/ BackupRestored(d)
                          \/ CutoverBegins(d) \/ IndexUpgradeBegins(d)
  BY <1>4, BackupBeginsUpgrade, BackupDamagedUpgrade, BackupRestoredUpgrade,
     CutoverBeginsUpgrade, IndexUpgradeBeginsUpgrade
<1> QED BY <1>1, <1>2, <1>3, <1>4 DEF UpgradeNext

LEMMA UpgradeInvHolds == UpgradeSpec => []UpgradeInv
<1>1. UpgradeInit => UpgradeInv
  BY UpgradeStart
<1>2. UpgradeInv /\ [UpgradeNext]_upgradeVars => UpgradeInv'
  BY UpgradeStep
<1> QED BY <1>1, <1>2, PTL DEF UpgradeSpec

\* Of the steps that change the database, the commit alone marks it as upgraded.
LEMMA OnlyCommitsMark ==
  ASSUME UpgradeInv, UpgradeNext, db.marker = "none", db'.marker # "none"
  PROVE  Commits
<1>1. db \in Databases
  BY DEF UpgradeInv, UpgradeTyped, UpgradeTypeOK
<1>2. ~(\/ LegacyMigrates \/ OldStarts \/ OldWrites \/ NewWorks \/ ResumeUpgraded)
  BY <1>1 DEF LegacyMigrates, OldStarts, OldWrites, NewWorks, ResumeUpgraded, Written, Databases
<1>3. ~(\/ NewStarts \/ ServerStops \/ InspectCommand \/ BackupCopies \/ BackupEnds
        \/ TransactionBegins \/ Migrates \/ UpgradeCommandFails)
  BY DEF NewStarts, ServerStops, InspectCommand, BackupCopies, BackupEnds, TransactionBegins,
         Migrates, UpgradeCommandFails
<1>4. ~IndexUpgradeCommits
  BY DEF IndexUpgradeCommits, UpgradeInv, CutoverOK
<1>5. \A d \in Dirs : ~(\/ BackupBegins(d) \/ BackupDamaged(d) \/ CutoverBegins(d)
                        \/ IndexUpgradeBegins(d))
  BY DEF BackupBegins, BackupDamaged, CutoverBegins, IndexUpgradeBegins
<1>6. \A d \in Dirs : ~BackupRestored(d)
  BY DEF BackupRestored, UpgradeInv, BackupsOK, Untouched
<1> QED BY <1>2, <1>3, <1>4, <1>5, <1>6 DEF UpgradeNext

\* An upgrade is there as a whole or not at all, whatever command fails or is killed, and it is of
\* the database of a backup that was complete when it was verified and that the operator reviewed,
\* though the old server may write until the transaction.  It says nothing of a backup damaged after
\* that, nor of a database that a restored backup takes back to what it was
\* (projects/legacy-cutover.ts, legacy-backup.ts).
THEOREM UpgradesAreWhole == UpgradeSpec => UpgradesWhole
<1>1. UpgradeInv => NeverHalf
  BY DEF UpgradeInv
<1>2. UpgradeInv /\ [UpgradeNext]_upgradeVars =>
        [db.marker = "none" /\ db'.marker /= "none" =>
           /\ \E d \in Dirs : Verified(d, db)
           /\ ~db.running /\ ("runs" \in db.held => reviewed = {db})]_upgradeVars
  <2> SUFFICES ASSUME UpgradeInv, UpgradeNext, db.marker = "none", db'.marker # "none"
               PROVE  /\ \E d \in Dirs : Verified(d, db)
                      /\ ~db.running /\ ("runs" \in db.held => reviewed = {db})
    OBVIOUS
  <2>1. cli.at = "commit"
    BY OnlyCommitsMark DEF Commits
  <2>2. PICK now \in Databases : /\ cli.seen = {now} /\ Verified(cli.dir, now)
                                 /\ Passes(cli.kind, now)
    BY <2>1 DEF UpgradeInv, CutoverOK
  <2>3. now = db /\ cli.dir \in Dirs /\ cli.kind \in {"project", "empty"}
    BY <2>1, <2>2 DEF UpgradeInv, CutoverOK
  <2> QED BY <2>2, <2>3 DEF Passes
<1> QED BY <1>1, <1>2, UpgradeInvHolds, PTL DEF UpgradeSpec, UpgradesWhole, CutoverIsBackedUp

-----------------------------------------------------------------------------
(***************************************************************************)
(* WebConsole: a page keeps its project.  A read that was not superseded   *)
(* and a request to be confirmed on the test page are the page's project's.*)
(***************************************************************************)
\* A read that was not superseded is for the page's project, and so is the confirmation on the
\* test page.
ReadsOK  == \A l \in loads : l.current => l.project = page.project
DialogOK == page.kind = "test" /\ dialog /= NoProject => dialog = page.project

ConsoleInv == ConsoleTypeOK /\ ReadsOK /\ DialogOK /\ RequestStaysWithPage

LoadType  == [project : Projects, current : BOOLEAN]
WriteType == [kind : WriteKinds, project : Anyone, from : Anyone, named : Anyone, live : BOOLEAN]

LEMMA PageTypes ==
  /\ ListPage \in Pages /\ LoginPage \in Pages /\ ListPage.project = NoProject
  /\ LoginPage.project = NoProject /\ LoginPage.kind = "login" /\ ListPage.kind = "list"
  /\ \A q \in Anyone : /\ PageOf("onboarding", q) \in Pages
                       /\ PageOf("onboarding", q).project = q
                       /\ PageOf("onboarding", q).kind = "onboarding"
  /\ \A q \in Pages : q.project \in Anyone
  /\ NoProject \in Anyone /\ Projects \subseteq Anyone
  BY DEF ListPage, LoginPage, PageOf, Pages, Anyone

LEMMA ShownPage == ConsoleInv => page \in Pages /\ page.project \in Anyone
<1>1. ConsoleInv => page \in Pages
  BY ConsoleAssumption DEF ConsoleInv, ConsoleTypeOK, page
<1> QED BY <1>1, PageTypes

LEMMA LoadTypes ==
  /\ \A q \in Anyone : Reading(q) \subseteq LoadType
  /\ \A q : \A l \in Reading(q) : l.project = q
  /\ \A q \in Projects : Load(q, TRUE) \in LoadType /\ Load(q, TRUE).project = q
  /\ loads \subseteq LoadType => Superseded \subseteq LoadType
  /\ \A l \in Superseded : ~l.current
<1>1. \A q \in Projects : Load(q, TRUE) \in LoadType /\ Load(q, FALSE) \in LoadType
  BY DEF LoadType, Load
<1>2. \A q : /\ Load(q, TRUE).project = q /\ ~Load(q, FALSE).current
  BY DEF Load
<1>3. \A q : \A l \in Reading(q) : l.project = q
  BY <1>2 DEF Reading
<1>4. \A q \in Anyone : Reading(q) \subseteq LoadType
  BY <1>1 DEF Reading, Anyone
<1>5. ASSUME loads \subseteq LoadType, NEW m \in Superseded PROVE m \in LoadType
  <2>1. PICK l \in loads : m = Load(l.project, FALSE)
    BY DEF Superseded
  <2>2. l.project \in Projects
    BY <1>5 DEF LoadType
  <2> QED BY <1>1, <2>1, <2>2
<1>6. \A l \in Superseded : ~l.current
  BY <1>2 DEF Superseded
<1> QED BY <1>1, <1>2, <1>3, <1>4, <1>5, <1>6

LEMMA Aborted ==
  ASSUME NEW W \in SUBSET WriteType, \A w \in W : w.kind = "request" => w.from = w.project
  PROVE  /\ {[w EXCEPT !.live = FALSE] : w \in W} \subseteq WriteType
         /\ \A v \in {[w EXCEPT !.live = FALSE] : w \in W} :
              v.kind = "request" => v.from = v.project
<1>1. \A w \in W : LET v == [w EXCEPT !.live = FALSE]
                   IN  v \in WriteType /\ (v.kind = "request" => v.from = v.project)
  BY DEF WriteType
<1> QED BY <1>1

\* Another page is shown.
LEMMA PageMoves ==
  ASSUME ConsoleInv, NEW p \in Pages, NEW h \in Seq(Pages), Len(h) \in 1 .. MaxHistory,
         h[Len(h)] = p, consoleHistory' = h, Shows(p) \/ Mounts(p),
         returnTo' \in Pages, signedIn' \in BOOLEAN
  PROVE  ConsoleInv'
<1>1. page' = p /\ page \in Pages /\ p.project \in Anyone
  BY ShownPage, PageTypes DEF page
<1>2. /\ shown \in Anyone /\ draft \in Anyone /\ dialog \in Anyone /\ loads \subseteq LoadType
      /\ writes \subseteq WriteType /\ \A w \in writes : w.kind = "request" => w.from = w.project
  BY DEF ConsoleInv, ConsoleTypeOK, LoadType, WriteType, RequestStaysWithPage
<1>3. CASE Mounts(p)
  <2>1. shown' \in Anyone /\ draft' \in Anyone /\ dialog' = NoProject /\ dialog' \in Anyone
    BY <1>3, PageTypes DEF Mounts
  <2>2. loads' \subseteq LoadType /\ ReadsOK'
    BY <1>1, <1>3, LoadTypes DEF Mounts, ReadsOK
  <2>3. writes' \subseteq WriteType /\ RequestStaysWithPage'
    BY <1>2, <1>3, Aborted DEF Mounts, RequestStaysWithPage
  <2> QED BY <2>1, <2>2, <2>3 DEF ConsoleInv, ConsoleTypeOK, DialogOK, LoadType, WriteType
<1>4. CASE p.kind = page.kind /\ Rekeys(p)
  <2>1. shown' \in Anyone /\ draft' \in Anyone /\ dialog' \in Anyone /\ writes' = writes
    BY <1>2, <1>4, PageTypes DEF Rekeys
  <2>2. loads' \subseteq LoadType /\ ReadsOK'
    <3>1. CASE p.project = page.project
      BY <1>1, <1>2, <1>4, <3>1 DEF Rekeys, ReadsOK, ConsoleInv
    <3>2. CASE p.project /= page.project
      BY <1>1, <1>2, <1>4, <3>2, LoadTypes DEF Rekeys, ReadsOK
    <3> QED BY <3>1, <3>2
  <2>3. DialogOK'
    BY <1>1, <1>4 DEF Rekeys, DialogOK, ConsoleInv
  <2> QED BY <1>2, <2>1, <2>2, <2>3
          DEF ConsoleInv, ConsoleTypeOK, LoadType, WriteType, RequestStaysWithPage
<1> QED BY <1>3, <1>4 DEF Shows

LEMMA LastReplaced ==
  ASSUME NEW h \in Seq(Pages), Len(h) \in 1 .. MaxHistory, NEW p \in Pages
  PROVE  /\ Replaced(h, p) \in Seq(Pages) /\ Len(Replaced(h, p)) = Len(h)
         /\ Replaced(h, p)[Len(h)] = p
  BY DEF Replaced

LEMMA HistoryType ==
  ConsoleInv => consoleHistory \in Seq(Pages) /\ Len(consoleHistory) \in 1 .. MaxHistory
                /\ returnTo \in Pages /\ signedIn \in BOOLEAN
  BY DEF ConsoleInv, ConsoleTypeOK

LEMMA MovesStep == ASSUME ConsoleInv, Moves PROVE ConsoleInv'
<1> USE HistoryType
<1>1. ASSUME NEW p \in Pages, Follow(p) PROVE ConsoleInv'
  <2>1. /\ Append(consoleHistory, p) \in Seq(Pages)
        /\ Len(Append(consoleHistory, p)) \in 1 .. MaxHistory
        /\ Append(consoleHistory, p)[Len(Append(consoleHistory, p))] = p
    BY <1>1, ConsoleAssumption DEF Follow
  <2> QED BY <1>1, <2>1, PageMoves DEF Follow
<1>2. ASSUME NEW n \in 1 .. MaxHistory, GoBack(n) PROVE ConsoleInv'
  <2> DEFINE entries == SubSeq(consoleHistory, 1, n)
             target  == IF signedIn THEN entries[n] ELSE LoginPage
  <2>1. entries \in Seq(Pages) /\ Len(entries) = n /\ entries[n] \in Pages
    BY <1>2, ConsoleAssumption DEF GoBack
  <2>2. target \in Pages
    BY <2>1, PageTypes
  <2>3. /\ Shows(target) /\ consoleHistory' = Replaced(entries, target)
        /\ returnTo' \in Pages /\ signedIn' \in BOOLEAN
    BY <1>2, <2>1 DEF GoBack
  <2> HIDE DEF entries, target
  <2>4. /\ Replaced(entries, target) \in Seq(Pages) /\ Len(Replaced(entries, target)) = n
        /\ Replaced(entries, target)[n] = target
    BY <2>1, <2>2, LastReplaced
  <2> QED BY <2>2, <2>3, <2>4, PageMoves
<1>3. ASSUME NEW p \in Pages, Mounts(p), consoleHistory' = Replaced(consoleHistory, p),
             returnTo' \in Pages, signedIn' \in BOOLEAN
      PROVE  ConsoleInv'
  <2>1. /\ Replaced(consoleHistory, p) \in Seq(Pages)
        /\ Len(Replaced(consoleHistory, p)) = Len(consoleHistory)
        /\ Replaced(consoleHistory, p)[Len(consoleHistory)] = p
    BY LastReplaced
  <2> QED BY <1>3, <2>1, PageMoves
<1>4. CASE SessionEnds \/ LogOut
  BY <1>3, <1>4, PageTypes, ShownPage DEF SessionEnds, LogOut
<1>5. CASE LogIn
  <2>1. Destination \in Pages
    BY PageTypes DEF Destination
  <2> QED BY <1>3, <1>5, <2>1, PageTypes DEF LogIn
<1>6. CASE LogInHalf
  BY <1>6 DEF LogInHalf, ConsoleInv, ConsoleTypeOK, ReadsOK, DialogOK, RequestStaysWithPage, page
<1> QED BY <1>1, <1>2, <1>4, <1>5, <1>6 DEF Moves

\* The page stays.
LEMMA PageStays ==
  ASSUME ConsoleInv, consoleHistory' = consoleHistory, signedIn' \in BOOLEAN, returnTo' \in Pages,
         shown' \in Anyone, draft' \in Anyone, dialog' \in Anyone,
         loads' \subseteq LoadType, \A l \in loads' : l.current => l.project = page.project,
         DialogOK', writes' \subseteq WriteType,
         \A w \in writes' : w.kind = "request" => w.from = w.project
  PROVE  ConsoleInv'
  BY DEF ConsoleInv, ConsoleTypeOK, LoadType, WriteType, ReadsOK, RequestStaysWithPage, page

LEMMA Known ==
  ASSUME ConsoleInv
  PROVE  /\ shown \in Anyone /\ draft \in Anyone /\ dialog \in Anyone /\ loads \subseteq LoadType
         /\ writes \subseteq WriteType /\ \A w \in writes : w.kind = "request" => w.from = w.project
         /\ \A l \in loads : l.current => l.project = page.project
         /\ DialogOK /\ NoProject \in Anyone
         /\ signedIn \in BOOLEAN /\ returnTo \in Pages /\ page.project \in Anyone
  BY ShownPage, PageTypes
     DEF ConsoleInv, ConsoleTypeOK, LoadType, WriteType, RequestStaysWithPage, ReadsOK

LEMMA Reloads ==
  ASSUME ConsoleInv
  PROVE  Reloading \subseteq LoadType /\ \A l \in Reloading : l.current => l.project = page.project
  BY Known, LoadTypes DEF Reloading

LEMMA ReadsInv == ASSUME ConsoleInv, PageReads PROVE ConsoleInv'
<1> USE Known
<1>1. ASSUME NEW l \in loads, LoadReplies(l) \/ LoadFails(l) PROVE ConsoleInv'
  <2>1. l.project \in Anyone
    BY DEF LoadType, Anyone
  <2>2. shown' \in Anyone /\ loads' \subseteq loads /\ DialogOK'
    BY <1>1, <2>1 DEF LoadReplies, LoadFails, DialogOK, page
  <2> QED BY <1>1, <2>2, PageStays DEF LoadReplies, LoadFails
<1>2. CASE Reload
  <2>1. DialogOK'
    BY <1>2 DEF Reload, DialogOK, page
  <2> QED BY <1>2, <2>1, Reloads, PageStays DEF Reload
<1> QED BY <1>1, <1>2 DEF PageReads

LEMMA SendsInv ==
  ASSUME ConsoleInv, NEW kind \in WriteKinds, NEW from \in Anyone, Sends(kind, from),
         kind = "request" => from = page.project
  PROVE  writes' \subseteq WriteType /\ \A w \in writes' : w.kind = "request" => w.from = w.project
<1> DEFINE sent == [kind |-> kind, project |-> page.project, from |-> from, named |-> Named,
                    live |-> TRUE]
<1>1. sent \in WriteType /\ (sent.kind = "request" => sent.from = sent.project)
  BY Known DEF WriteType, Named
<1>2. writes' = writes \cup {sent}
  BY DEF Sends
<1> HIDE DEF sent
<1> QED BY <1>1, <1>2, Known

LEMMA WritesInv == ASSUME ConsoleInv, Writes PROVE ConsoleInv'
<1> USE Known
<1>1. CASE EditConfiguration \/ OpenDialog \/ CloseDialog
  <2>1. dialog' \in Anyone /\ draft' \in Anyone /\ consoleHistory' = consoleHistory
    BY <1>1 DEF EditConfiguration, OpenDialog, CloseDialog
  <2>2. DialogOK'
    BY <1>1 DEF EditConfiguration, OpenDialog, CloseDialog, DialogOK, page
  <2> QED BY <1>1, <2>1, <2>2, PageStays DEF EditConfiguration, OpenDialog, CloseDialog
<1>2. CASE Save
  <2>1. Sends("configuration", IF draft /= NoProject THEN draft ELSE shown)
    BY <1>2 DEF Save
  <2>2. writes' \subseteq WriteType /\ \A w \in writes' : w.kind = "request" => w.from = w.project
    BY <2>1, SendsInv DEF WriteKinds
  <2>3. DialogOK'
    BY <1>2 DEF Save, DialogOK, page
  <2> QED BY <1>2, <2>2, <2>3, PageStays DEF Save
<1>3. CASE Confirm
  <2>1. /\ Sends(IF page.kind = "test" THEN "request" ELSE "confirmed", dialog)
        /\ page.kind = "test" => dialog = page.project
    BY <1>3 DEF Confirm, DialogOK
  <2>2. writes' \subseteq WriteType /\ \A w \in writes' : w.kind = "request" => w.from = w.project
    BY <2>1, SendsInv DEF WriteKinds
  <2>3. DialogOK' /\ dialog' \in Anyone
    BY <1>3 DEF Confirm, DialogOK, page
  <2> QED BY <1>3, <2>2, <2>3, PageStays DEF Confirm
<1>4. CASE CreateProject
  <2>1. Sends("create", NoProject)
    BY <1>4 DEF CreateProject
  <2>2. writes' \subseteq WriteType /\ \A w \in writes' : w.kind = "request" => w.from = w.project
    BY <2>1, SendsInv DEF WriteKinds
  <2>3. DialogOK'
    BY <1>4 DEF CreateProject, DialogOK, page
  <2> QED BY <1>4, <2>2, <2>3, PageStays DEF CreateProject
<1>5. ASSUME NEW w \in writes, WriteSucceeds(w) \/ WriteFails(w) PROVE ConsoleInv'
  <2>1. writes' \subseteq writes /\ consoleHistory' = consoleHistory /\ shown' = shown
        /\ signedIn' = signedIn /\ returnTo' = returnTo
    BY <1>5 DEF WriteSucceeds, WriteFails, instanceVars
  <2>2. draft' \in Anyone /\ dialog' \in {dialog, NoProject} /\ loads' \in {loads, Reloading}
    BY <1>5 DEF WriteSucceeds, WriteFails, Continues, instanceVars
  <2>3. DialogOK'
    BY <2>1, <2>2 DEF DialogOK, page
  <2> QED BY <2>1, <2>2, <2>3, Reloads, PageStays
<1>6. ASSUME NEW w \in writes, NEW p \in Projects, ProjectCreated(w, p) PROVE ConsoleInv'
  <2> DEFINE created == PageOf("onboarding", p)
  <2>1. created \in Pages /\ created.project = p /\ created.kind = "onboarding"
    BY PageTypes
  <2> HIDE DEF created
  <2>2. /\ Replaced(consoleHistory, created) \in Seq(Pages)
        /\ Len(Replaced(consoleHistory, created)) = Len(consoleHistory)
        /\ Replaced(consoleHistory, created)[Len(consoleHistory)] = created
    BY <2>1, HistoryType, LastReplaced
  <2>3. CASE signedIn
    <3>1. /\ consoleHistory' = Replaced(consoleHistory, created) /\ returnTo' = returnTo
          /\ signedIn' = signedIn
      BY <1>6, <2>3 DEF ProjectCreated, created
    <3>2. page' = created
      BY <2>2, <3>1 DEF page
    <3>3. /\ loads' = Superseded \cup {Load(p, TRUE)} \/ loads' = {Load(p, TRUE)}
          /\ shown' \in Anyone /\ draft' \in Anyone /\ dialog' \in Anyone
          /\ \/ writes' = writes \ {w}
             \/ writes' = {[v EXCEPT !.live = FALSE] : v \in writes \ {w}}
      BY <1>6, <2>3 DEF ProjectCreated
    <3>4. loads' \subseteq LoadType /\ ReadsOK'
      BY <2>1, <3>2, <3>3, LoadTypes DEF ReadsOK
    <3>5. /\ writes' \subseteq WriteType /\ RequestStaysWithPage'
      <4>1. /\ writes \ {w} \in SUBSET WriteType
            /\ \A v \in writes \ {w} : v.kind = "request" => v.from = v.project
        OBVIOUS
      <4>2. /\ {[v EXCEPT !.live = FALSE] : v \in writes \ {w}} \subseteq WriteType
            /\ \A u \in {[v EXCEPT !.live = FALSE] : v \in writes \ {w}} :
                 u.kind = "request" => u.from = u.project
        BY <4>1, Aborted
      <4> QED BY <3>3, <4>1, <4>2 DEF RequestStaysWithPage
    <3>6. DialogOK'
      BY <2>1, <3>2 DEF DialogOK
    <3> QED BY <2>2, <3>1, <3>3, <3>4, <3>5, <3>6, HistoryType
            DEF ConsoleInv, ConsoleTypeOK, LoadType, WriteType
  <2>4. CASE ~signedIn
    <3>1. /\ consoleHistory' = consoleHistory /\ shown' = shown /\ loads' = loads /\ draft' = draft
          /\ dialog' = dialog /\ returnTo' = created /\ signedIn' = signedIn
          /\ writes' = writes \ {w}
      BY <1>6, <2>4 DEF ProjectCreated, created, instanceVars
    <3>2. DialogOK'
      BY <3>1 DEF DialogOK, page
    <3> QED BY <2>1, <3>1, <3>2, PageStays
  <2> QED BY <2>3, <2>4
<1> QED BY <1>1, <1>2, <1>3, <1>4, <1>5, <1>6 DEF Writes

LEMMA ConsoleStart == ConsoleInit => ConsoleInv
<1> SUFFICES ASSUME ConsoleInit PROVE ConsoleInv
  OBVIOUS
<1>1. PICK p \in Pages : consoleHistory = <<p>> /\ loads = Reading(p.project)
  BY DEF ConsoleInit
<1>2. page = p /\ Len(consoleHistory) = 1 /\ consoleHistory \in Seq(Pages)
  BY <1>1 DEF page
<1>3. loads \subseteq LoadType /\ ReadsOK
  BY <1>1, <1>2, LoadTypes, PageTypes DEF ReadsOK
<1>4. DialogOK /\ RequestStaysWithPage
  BY DEF ConsoleInit, DialogOK, RequestStaysWithPage
<1> QED BY <1>2, <1>3, <1>4, PageTypes, ConsoleAssumption
        DEF ConsoleInit, ConsoleInv, ConsoleTypeOK, LoadType, WriteType

LEMMA ConsoleStep == ConsoleInv /\ [ConsoleNext]_consoleVars => ConsoleInv'
<1> SUFFICES ASSUME ConsoleInv, [ConsoleNext]_consoleVars PROVE ConsoleInv'
  OBVIOUS
<1>1. CASE UNCHANGED consoleVars
  BY <1>1 DEF consoleVars, ConsoleInv, ConsoleTypeOK, ReadsOK, DialogOK, RequestStaysWithPage,
     page
<1> QED BY <1>1, MovesStep, ReadsInv, WritesInv DEF ConsoleNext

LEMMA ShownStays ==
  ASSUME ConsoleInv, [ConsoleNext]_consoleVars, shown = page.project,
         consoleHistory' = consoleHistory
  PROVE  shown' = shown
<1> USE HistoryType
<1>1. CASE UNCHANGED consoleVars
  BY <1>1 DEF consoleVars
<1>2. CASE Moves
  <2>1. ASSUME NEW p \in Pages, Follow(p) PROVE FALSE
    BY <2>1 DEF Follow
  <2>2. ASSUME NEW n \in 1 .. MaxHistory, GoBack(n) PROVE FALSE
    <3>1. /\ SubSeq(consoleHistory, 1, n) \in Seq(Pages)
          /\ Len(SubSeq(consoleHistory, 1, n)) = n /\ n < Len(consoleHistory)
      BY <2>2, ConsoleAssumption DEF GoBack
    <3>2. PICK q : consoleHistory' = Replaced(SubSeq(consoleHistory, 1, n), q)
      BY <2>2 DEF GoBack
    <3>3. Len(consoleHistory') = n
      BY <3>1, <3>2 DEF Replaced
    <3> QED BY <3>1, <3>3
  <2>3. ASSUME NEW p \in Pages, consoleHistory' = Replaced(consoleHistory, p) PROVE page = p
    BY <2>3, LastReplaced DEF page
  <2>4. CASE SessionEnds \/ LogOut
    BY <2>3, <2>4, PageTypes DEF SessionEnds, LogOut
  <2>5. CASE LogIn
    <3>1. Destination \in Pages /\ Destination.kind /= "login"
      BY PageTypes, Known DEF Destination
    <3> QED BY <2>3, <2>5, <3>1 DEF LogIn
  <2>6. CASE LogInHalf
    BY <2>6 DEF LogInHalf
  <2> QED BY <1>2, <2>1, <2>2, <2>4, <2>5, <2>6 DEF Moves
<1>3. CASE PageReads
  <2>1. ASSUME NEW l \in loads, LoadReplies(l) PROVE shown' = shown
    BY <2>1, Known DEF LoadReplies
  <2> QED BY <1>3, <2>1 DEF PageReads, LoadFails, Reload
<1>4. CASE Writes
  <2>1. ASSUME NEW w \in writes, NEW p \in Projects, ProjectCreated(w, p) PROVE shown' = shown
    <3>1. PageOf("onboarding", p) \in Pages /\ PageOf("onboarding", p).kind = "onboarding"
      BY PageTypes DEF Anyone
    <3>2. CASE signedIn /\ page.kind /= "onboarding"
      <4>1. consoleHistory' = Replaced(consoleHistory, PageOf("onboarding", p))
        BY <2>1, <3>2 DEF ProjectCreated
      <4>2. page = PageOf("onboarding", p)
        BY <3>1, <4>1, LastReplaced DEF page
      <4> QED BY <3>1, <3>2, <4>2
    <3>3. CASE ~(signedIn /\ page.kind /= "onboarding")
      BY <2>1, <3>3 DEF ProjectCreated, instanceVars
    <3> QED BY <3>2, <3>3
  <2>2. ASSUME NEW w \in writes, WriteSucceeds(w) \/ WriteFails(w) PROVE shown' = shown
    BY <2>2 DEF WriteSucceeds, WriteFails, instanceVars
  <2> QED BY <1>4, <2>1, <2>2
          DEF Writes, EditConfiguration, Save, OpenDialog, CloseDialog, Confirm, CreateProject
<1> QED BY <1>1, <1>2, <1>3, <1>4 DEF ConsoleNext

\* A test request goes to the project on whose page it was asked for, and a late answer does not
\* change what a page displays that displays its own project.
THEOREM PageKeepsProjectCorrect == ConsoleSpec => PageKeepsProject
<1>1. ConsoleSpec => []ConsoleInv
  BY ConsoleStart, ConsoleStep, PTL DEF ConsoleSpec
<1>2. ConsoleInv /\ [ConsoleNext]_consoleVars =>
        [shown = page.project /\ consoleHistory' = consoleHistory => shown' = shown]_consoleVars
  BY ShownStays
<1>3. ConsoleInv => RequestStaysWithPage
  BY DEF ConsoleInv
<1> QED BY <1>1, <1>2, <1>3, PTL DEF ConsoleSpec, PageKeepsProject, LateReplyIgnored

-----------------------------------------------------------------------------
(***************************************************************************)
(* Installation.                                                           *)
(***************************************************************************)
\* A behaviour of the components around a Run is one of each of them: what is proved of a
\* component holds in their composition, whose instance a run checks.
THEOREM InstallationIsItsComponents ==
  InstallationSpec => /\ PollerInit /\ [][PollerNext]_pollerVars
                      /\ ImagesSpec /\ ReadinessSpec /\ MergeSpec /\ IndexSpec
                      /\ LegacyInit /\ [][LegacyNext]_legacyVars
                      /\ UpgradeSpec /\ ConsoleSpec
<1> USE DEF InstallationNext, installationVars, PollerPart, ImagesPart, ReadinessPart, MergePart,
        IndexPart, LegacyPart, UpgradePart, ConsolePart
<1>1. InstallationInit => /\ PollerInit /\ ImagesInit /\ ReadinessInit /\ MergeInit
                          /\ IndexInit /\ LegacyInit /\ UpgradeInit /\ ConsoleInit
  BY DEF InstallationInit
<1>2. [InstallationNext]_installationVars => [PollerNext]_pollerVars
  OBVIOUS
<1>3. [InstallationNext]_installationVars => [ImagesNext]_imageVars
  OBVIOUS
<1>4. [InstallationNext]_installationVars => [ReadinessNext]_readinessVars
  OBVIOUS
<1>5. [InstallationNext]_installationVars => [MergeNext]_mergeVars
  OBVIOUS
<1>6. [InstallationNext]_installationVars => [IndexNext]_indexVars
  OBVIOUS
<1>7. [InstallationNext]_installationVars => [LegacyNext]_legacyVars
  OBVIOUS
<1>8. [InstallationNext]_installationVars => [UpgradeNext]_upgradeVars
  OBVIOUS
<1>9. [InstallationNext]_installationVars => [ConsoleNext]_consoleVars
  OBVIOUS
<1> QED BY <1>1, <1>2, <1>3, <1>4, <1>5, <1>6, <1>7, <1>8, <1>9, PTL
        DEF InstallationSpec, ImagesSpec, ReadinessSpec, MergeSpec, IndexSpec, UpgradeSpec,
            ConsoleSpec

\* No poll misses a commit, a Run has one image, the index is that of one commit, v0.6 drives its
\* request, a project is activated as it was checked, a merge is published with both sides in it, an
\* upgrade is whole and a page keeps its project, in every installation.
THEOREM InstallationIsCorrect ==
  InstallationSpec => /\ [](PollsMissNothing /\ OneImagePerRun /\ IndexIsFaithful /\ LegacyDriven)
                      /\ ActivationIsChecked /\ MergesPublished /\ UpgradesWhole
                      /\ PageKeepsProject
<1>1. PollerInit /\ [][PollerNext]_pollerVars => []PollsMissNothing
  BY PollerInvHolds, PollerInvMeans, PTL
<1>2. LegacyInit /\ [][LegacyNext]_legacyVars => []LegacyDriven
  BY LegacyDrivenCorrect, PTL DEF LegacySpec
<1> QED BY <1>1, <1>2, InstallationIsItsComponents, OneImagePerRunCorrect, IndexIsFaithfulCorrect,
           ActivationIsCheckedCorrect, MergesPublishedCorrect, UpgradesAreWhole,
           PageKeepsProjectCorrect, PTL

\* Every component keeps the types and the bounds of its state, in every installation.
THEOREM InstallationTypesCorrect == InstallationSpec => []InstallationTypeOK
<1>1. PollerInit /\ [][PollerNext]_pollerVars => []GitPollerTypeOK
  BY PollerInvHolds, PollerInvMeans, PTL
<1>2. ReadinessSpec => []ReadinessTypeOK
  <2>1. ReadinessInv /\ WithinBounds /\ [ReadinessNext]_readinessVars =>
          ReadinessInv' /\ WithinBounds'
    BY ReadinessStep, WithinBoundsStep
  <2> QED BY <2>1, ReadinessStart, WithinBoundsStart, ReadinessTypes, PTL DEF ReadinessSpec
<1>3. IndexSpec => []IndexTypeOK
  <2>1. IndexInv /\ TablesOK /\ [IndexNext]_indexVars => IndexInv' /\ TablesOK'
    BY IndexStep, TablesOKStep
  <2> QED BY <2>1, IndexStart, TablesOKStart, IndexTypes, PTL DEF IndexSpec
<1>4. LegacyInit /\ [][LegacyNext]_legacyVars => []LegacyTypeOK
  <2>1. LegacyInv /\ ScansOK /\ LegacySets /\ [LegacyNext]_legacyVars =>
          LegacyInv' /\ ScansOK' /\ LegacySets'
    BY LegacyStep, ScansStep, LegacySetsStep
  <2> QED BY <2>1, LegacyStart, ScansStart, LegacySetsStart, LegacyTypes, PTL
<1>5. UpgradeInv => UpgradeTypeOK
  BY DEF UpgradeInv, UpgradeTyped
<1>6. ConsoleSpec => []ConsoleTypeOK
  <2>1. ConsoleInv => ConsoleTypeOK
    BY DEF ConsoleInv
  <2> QED BY <2>1, ConsoleStart, ConsoleStep, PTL DEF ConsoleSpec
<1>7. GitPollerTypeOK /\ ImagesTypeOK /\ ReadinessTypeOK /\ MergeTypeOK /\ IndexTypeOK
      /\ LegacyTypeOK /\ UpgradeTypeOK /\ ConsoleTypeOK => InstallationTypeOK
  BY DEF InstallationTypeOK
<1> QED BY <1>1, <1>2, <1>3, <1>4, <1>5, <1>6, <1>7, InstallationIsItsComponents,
           ImagesTypesHold, MergeTypesHold, UpgradeInvHolds, PTL
===============================================================================
