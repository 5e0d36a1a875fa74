-------------------------- MODULE ProjectReadiness --------------------------
(***************************************************************************)
(* Readiness of a project and the administrator's changes that race with   *)
(* it: src/server/projects/readiness.ts, readiness-adapters.ts,            *)
(* configuration.ts, guarded-secrets.ts, deployment-configuration.ts,      *)
(* admin-routes.ts and the deployment routes of app.ts.                    *)
(*                                                                         *)
(* A value an administrator writes is a number: 0 is absent, and every     *)
(* write of a Secret, an image or a project configuration is a new number, *)
(* as their nonce, digest and config_revision are.  The deployment         *)
(* configuration has no revision: writing an old value back restores it.   *)
(* A check reads its inputs at five moments with awaits in between; `of'   *)
(* remembers which inputs each result is about.                            *)
(***************************************************************************)
EXTENDS Naturals, FiniteSets

CONSTANTS Calls,       \* the administrator's concurrent requests
          SecretKeys,  \* the Secrets of the project the administrator writes
          MaxCheck,    \* bound on the checks started
          MaxChange    \* bound on the administrator's writes

\* The bounds are numbers.
ASSUME ReadinessAssumption == MaxCheck \in Nat /\ MaxChange \in Nat

VARIABLES
  exists,           \* the project was created
  readinessStatus,  \* projects.status
  cutover,          \* the offline upgrade made this project and it was never activated
  config,           \* project_config and config_revision
  secret,           \* the project's Secrets
  deployment,       \* app_config harness: what Runs execute with, where evidence goes
  depSecret,        \* the deployment's Secrets
  readinessImage,   \* project_execution_images of the current commit and Dockerfile
  work,             \* status of the project's request in test_request_queue
  evidence,         \* a stored Run refers to evidence
  readinessRow,     \* project_connectivity_check_results
  call,             \* the requests in flight
  checks,           \* how many checks started
  changes           \* how many writes were made

readinessVars == <<exists, readinessStatus, cutover, config, secret, deployment, depSecret,
                   readinessImage, work, evidence, readinessRow, call, checks, changes>>
inputVars == <<config, secret, deployment, depSecret, readinessImage>>
restVars  == <<exists, cutover, work, evidence>>

Ids         == {"repository", "credentials", "deployment", "environment", "image"}
ReadinessStatuses    == {"ok", "not_configured", "failed", "needs_recheck"}
TaskSecrets == {"testUsername", "testPassword", "testDataCleanupToken"}
Pending     == {"queued", "running", "waiting_archive"}
NoRow       == [status |-> "none", of |-> <<>>, check |-> 0]
NoCall      == [at |-> "idle", resume |-> FALSE, check |-> 0, before |-> <<>>,
                config |-> [revision |-> 0, baseUrl |-> FALSE, cleanupUrl |-> FALSE],
                result |-> [i \in Ids |-> NoRow]]

ReadinessTypeOK ==
  /\ exists \in BOOLEAN /\ readinessStatus \in {"active", "paused"} /\ cutover \in BOOLEAN
  /\ config.revision \in 0 .. MaxChange + 2 /\ config.baseUrl \in BOOLEAN
  /\ config.cleanupUrl \in BOOLEAN
  /\ secret \in [TaskSecrets \union {"gitToken"} -> 0 .. MaxChange + 1]
  /\ deployment \in [execution : 1 .. 2, oss : 1 .. 2] /\ depSecret \in 0 .. MaxChange + 1
  /\ readinessImage \in 0 .. MaxChange + 1 /\ work \in Pending \union {"none"}
  /\ evidence \in BOOLEAN
  /\ \A i \in Ids : readinessRow[i].status \in ReadinessStatuses \union {"none"}
  /\ \A c \in Calls : call[c].at \in {"idle", "create", "repository", "provider", "storage",
                                      "environment", "commit", "inspect", "resume"}
  /\ checks \in 0 .. MaxCheck /\ changes \in 0 .. MaxChange

(* A project made by the offline upgrade, complete and paused, or none yet. *)
ReadinessInit ==
  /\ exists \in BOOLEAN /\ readinessStatus = "paused" /\ cutover = exists
  /\ config = [revision |-> 1, baseUrl |-> exists, cleanupUrl |-> exists]
  /\ secret = [k \in TaskSecrets \union {"gitToken"} |-> IF exists THEN 1 ELSE 0]
  /\ deployment = [execution |-> 1, oss |-> 1] /\ depSecret = 1
  /\ readinessImage = (IF exists THEN 1 ELSE 0) /\ evidence = FALSE
  /\ work \in (IF exists THEN {"none", "running"} ELSE {"none"})
  /\ readinessRow = [i \in Ids |-> NoRow] /\ call = [c \in Calls |-> NoCall]
  /\ checks = 0 /\ changes = 0

(* The number the next written value gets. *)
Fresh == changes + 2

(***************************************************************************)
(* The inputs of each result, the configuration being the one the check    *)
(* read when it began, and the fingerprint resume compares.                *)
(***************************************************************************)
Inputs(id, revision) ==
  CASE id = "repository"  -> <<secret["gitToken"]>>
    [] id = "credentials" -> <<revision, [k \in TaskSecrets |-> secret[k]]>>
    [] id = "deployment"  -> <<deployment, depSecret>>
    [] id = "environment" -> <<revision>>
    [] OTHER              -> <<revision, secret["gitToken"], readinessImage>>

Fingerprint == <<config, readinessStatus, deployment, secret, depSecret, readinessImage>>

Invalidated(ids) == [i \in Ids |-> IF i \in ids THEN NoRow ELSE readinessRow[i]]

(* Only an ok is about something. *)
Result(call0, id, outcome) ==
  [status |-> outcome, check |-> call0.check,
   of |-> IF outcome = "ok" THEN Inputs(id, call0.config.revision) ELSE <<>>]

Outcome(result, outcome) ==
  IF outcome = "ok" THEN result ELSE [result EXCEPT !.status = outcome, !.of = <<>>]

(***************************************************************************)
(* Changes by the administrator: each is one handler without an await.     *)
(***************************************************************************)
Write(ids) == /\ exists /\ changes < MaxChange /\ changes' = changes + 1
              /\ readinessRow' = Invalidated(ids)
              /\ UNCHANGED <<restVars, readinessStatus, call, checks>>

TaskMeaningKept(new) == new = [config EXCEPT !.revision = new.revision] \/ work \notin Pending

PutConfiguration ==
  /\ Write(Ids)
  /\ \E baseUrl \in {TRUE, config.baseUrl}, cleanupUrl \in {TRUE, config.cleanupUrl} :
       config' = [revision |-> config.revision + 1, baseUrl |-> baseUrl,
                  cleanupUrl |-> cleanupUrl]
  /\ TaskMeaningKept(config')
  /\ UNCHANGED <<secret, deployment, depSecret, readinessImage>>

SecretFree(key) == key \in TaskSecrets => work \notin Pending

PutSecret(key) ==
  /\ Write(Ids) /\ SecretFree(key)
  /\ \E value \in {0, Fresh} : secret' = [secret EXCEPT ![key] = value]
  /\ UNCHANGED <<config, deployment, depSecret, readinessImage>>

DeploymentFree(new) == /\ new # deployment => work # "running"
                       /\ new.oss # deployment.oss => ~evidence

PutDeployment ==
  /\ Write({"deployment"})
  /\ deployment' \in {[deployment EXCEPT !.execution = 3 - @], [deployment EXCEPT !.oss = 3 - @]}
  /\ DeploymentFree(deployment')
  /\ UNCHANGED <<config, secret, depSecret, readinessImage>>

PutDeploymentSecret(key) ==
  /\ Write({"deployment"})
  /\ key = "providerApiKey" => work # "running"
  /\ depSecret' \in {0, Fresh}
  /\ UNCHANGED <<config, secret, deployment, readinessImage>>

(* The image row changes while prepare runs; the results are only deleted   *)
(* when it has ended.  A preparation by a Run deletes none.                 *)
ImageChanges ==
  /\ exists /\ changes < MaxChange /\ changes' = changes + 1
  /\ readinessImage' \in {0, Fresh}
  /\ UNCHANGED <<restVars, readinessStatus, config, secret, deployment, depSecret, readinessRow,
                 call, checks>>

PrepareImageEnds ==
  /\ exists /\ readinessRow["image"] # NoRow /\ readinessRow' = Invalidated({"image"})
  /\ UNCHANGED <<inputVars, restVars, readinessStatus, call, checks, changes>>

Pause == /\ exists /\ readinessStatus = "active" /\ readinessStatus' = "paused"
         /\ changes < MaxChange /\ changes' = changes + 1
         /\ UNCHANGED <<inputVars, restVars, readinessRow, call, checks>>

(* What the queue does with the project's request. *)
WorkMoves ==
  /\ exists /\ changes < MaxChange /\ changes' = changes + 1
  /\ \/ work = "none" /\ ~evidence /\ work' = "queued"
     \/ work = "queued" /\ readinessStatus = "active" /\ work' = "running"
     \/ work = "running" /\ work' \in {"queued", "waiting_archive", "none"}
     \/ work = "waiting_archive" /\ work' = "none"
  /\ evidence' = (evidence \/ work = "waiting_archive")
  /\ UNCHANGED <<inputVars, exists, cutover, readinessStatus, readinessRow, call, checks>>

(***************************************************************************)
(* POST /api/projects: GitHub is asked, then everything is one transaction *)
(* that the uniqueness of the repository may refuse.                       *)
(***************************************************************************)
BeginCreate(c) ==
  /\ ~exists /\ call[c] = NoCall /\ call' = [call EXCEPT ![c].at = "create"]
  /\ UNCHANGED <<inputVars, restVars, readinessStatus, readinessRow, checks, changes>>

CreateAnswered(c) ==
  /\ call[c].at = "create" /\ call' = [call EXCEPT ![c] = NoCall]
  /\ \/ /\ ~exists /\ exists' = TRUE /\ config' = [config EXCEPT !.revision = 2]
        /\ \E token \in 0 .. 1 : secret' = [secret EXCEPT !["gitToken"] = token]
     \/ UNCHANGED <<exists, config, secret>>
  /\ UNCHANGED <<readinessStatus, cutover, work, evidence, deployment, depSecret, readinessImage,
                 readinessRow, checks, changes>>

(***************************************************************************)
(* check, alone or inside resume.                                          *)
(***************************************************************************)
At(c, place) == exists /\ call[c].at = place

Waits == UNCHANGED <<inputVars, restVars, readinessStatus, readinessRow, checks, changes>>

(* After the repository: the credentials are compared at this moment, the   *)
(* first with the configuration read at the beginning.                      *)
WithCredentials(call0, repository) ==
  LET paired == /\ (secret["testUsername"] > 0) = (secret["testPassword"] > 0)
                /\ call0.config.cleanupUrl = (secret["testDataCleanupToken"] > 0)
  IN [call0 EXCEPT !.at = "provider",
        !.result["repository"] = repository,
        !.result["credentials"] = Result(call0, "credentials",
                                         IF paired THEN "ok" ELSE "not_configured")]

BeginCheck(c, resume) ==
  LET begun == [NoCall EXCEPT !.at = "repository", !.resume = resume, !.check = checks + 1,
                  !.config = config, !.before = IF resume THEN Fingerprint ELSE <<>>]
      repository(outcome) == Result(begun, "repository", outcome)
  IN /\ exists /\ call[c] = NoCall /\ checks < MaxCheck /\ checks' = checks + 1
     /\ call' \in IF secret["gitToken"] = 0
                  THEN {[call EXCEPT ![c] = WithCredentials(begun, repository("not_configured"))]}
                  ELSE {[call EXCEPT ![c] = WithCredentials(begun, repository("failed"))],
                        [call EXCEPT ![c] = [begun EXCEPT
                                            !.result["repository"] = repository("ok")]]}
     /\ UNCHANGED <<inputVars, restVars, readinessStatus, readinessRow, changes>>

(* The identity GitHub gives, compared with the project's. *)
RepositoryAnswered(c) ==
  /\ At(c, "repository")
  /\ \E outcome \in {"ok", "failed"} :
       call' = [call EXCEPT ![c] = WithCredentials(@, Outcome(@.result["repository"], outcome))]
  /\ Waits

(* The provider is asked with the configuration of this moment, the browser *)
(* and the object storage with that of the answer.                          *)
ProviderAnswered(c) ==
  /\ At(c, "provider")
  /\ call' = [call EXCEPT ![c].at = "storage",
                ![c].result["deployment"] =
                   Result(call[c], "deployment", IF depSecret = 0 THEN "not_configured" ELSE "ok")]
  /\ Waits

StorageAnswered(c) ==
  /\ At(c, "storage")
  /\ \E outcome \in {"ok", "failed"} :
       call' = [call EXCEPT ![c].at = "environment",
                  ![c].result["deployment"] = IF @.status = "ok" THEN Outcome(@, outcome) ELSE @]
  /\ Waits

(* Mutant: results that are not ok leave the row of the check before. *)
PersistedOk(result) ==
  [i \in Ids |-> IF result[i].status = "ok" THEN result[i] ELSE readinessRow[i]]

(* persistProjectReadiness: the old rows are deleted. *)
Persisted(result) == [i \in Ids |-> result[i]]

(* The end of check. *)
Concluded(c, result) ==
  /\ readinessRow' = Persisted(result)
  /\ call' = [call EXCEPT ![c] = IF @.resume /\ \A i \in Ids : result[i].status = "ok"
                                 THEN [@ EXCEPT !.at = "resume", !.result = result]
                                 ELSE NoCall]
  /\ UNCHANGED <<inputVars, restVars, readinessStatus, checks, changes>>

EnvironmentAnswered(c) ==
  /\ At(c, "environment")
  /\ \E outcome \in {"ok", "failed"} :
     LET environment == Result(call[c], "environment",
                               IF call[c].config.baseUrl THEN outcome ELSE "not_configured")
         result == [call[c].result EXCEPT !["environment"] = environment,
                      !["image"] = Result(call[c], "image", "needs_recheck")]
     IN IF result["repository"].status = "ok" /\ secret["gitToken"] > 0
        THEN /\ call' = [call EXCEPT ![c].at = "commit", ![c].result = result] /\ Waits
        ELSE Concluded(c, result)

(* The commit is resolved and the image row read, before Docker is asked. *)
CommitResolved(c) ==
  /\ At(c, "commit")
  /\ \/ /\ readinessImage > 0
        /\ call' = [call EXCEPT ![c].at = "inspect", ![c].result["image"] =
                               Result(call[c], "image", "ok")]
        /\ Waits
     \/ /\ \E outcome \in {"not_configured", "failed"} :
             /\ outcome = "not_configured" => readinessImage = 0
             /\ Concluded(c, [call[c].result EXCEPT !["image"] = Result(call[c], "image", outcome)])

Inspected(c) ==
  /\ At(c, "inspect")
  /\ \E outcome \in {"ok", "failed"} :
       Concluded(c, [call[c].result EXCEPT !["image"] = Outcome(@, outcome)])

(* The end of resume: one transaction. *)
Activates == readinessStatus' = "active" /\ cutover' = FALSE

Rechecked(c) == [i \in Ids |-> Outcome(call[c].result[i], "needs_recheck")]

(* Mutant: the Secrets are left out of the fingerprint. *)
ResumeWithoutSecrets(c) ==
  /\ At(c, "resume") /\ call' = [call EXCEPT ![c] = NoCall]
  /\ IF call[c].before[1] = config /\ call[c].before[2] = readinessStatus
        /\ call[c].before[6] = readinessImage
     THEN Activates /\ UNCHANGED readinessRow
     ELSE readinessRow' = Rechecked(c) /\ UNCHANGED <<readinessStatus, cutover>>
  /\ UNCHANGED <<inputVars, exists, work, evidence, checks, changes>>

Resume(c) ==
  /\ At(c, "resume") /\ call' = [call EXCEPT ![c] = NoCall]
  /\ IF call[c].before = Fingerprint
     THEN Activates /\ UNCHANGED readinessRow
     ELSE readinessRow' = Rechecked(c) /\ UNCHANGED <<readinessStatus, cutover>>
  /\ UNCHANGED <<inputVars, exists, work, evidence, checks, changes>>

CheckStep(c) ==
  \/ \E resume \in BOOLEAN : BeginCheck(c, resume)
  \/ RepositoryAnswered(c) \/ ProviderAnswered(c) \/ StorageAnswered(c)
  \/ EnvironmentAnswered(c) \/ CommitResolved(c) \/ Inspected(c) \/ Resume(c)
  \/ BeginCreate(c) \/ CreateAnswered(c)

AdminStep ==
  \/ PutConfiguration \/ PutDeployment \/ ImageChanges \/ PrepareImageEnds \/ Pause
  \/ \E key \in SecretKeys : PutSecret(key)
  \/ \E key \in {"providerApiKey", "oss"} : PutDeploymentSecret(key)

ReadinessNext == (\E c \in Calls : CheckStep(c)) \/ AdminStep \/ WorkMoves

ReadinessSpec == ReadinessInit /\ [][ReadinessNext]_readinessVars

(* What of the inputs of a result is present is what the result is about.  *)
(* What is absent has no number.                                           *)
StillAbout(id, of) ==
  CASE id = "credentials" -> /\ of[1] = config.revision
                             /\ \A k \in TaskSecrets : secret[k] \in {0, of[2][k]}
    [] id = "deployment"  -> depSecret \in {0, of[2]}
    [] id = "image"       -> /\ of[1] = config.revision /\ of[2] = secret["gitToken"]
                             /\ readinessImage \in {0, of[3]}
    [] OTHER              -> of = Inputs(id, config.revision)

(***************************************************************************)
(* A project becomes active only by a resume all of whose results are ok   *)
(* and are about the configuration, Secrets and image it becomes active    *)
(* with, however the five checks and the administrator's writes interleave *)
(* (resume, readinessInputFingerprint).  A Secret or an image that was     *)
(* absent when resume began, was there for the check and is absent again   *)
(* goes unseen; so does a value of the deployment's configuration, which   *)
(* has no revision, that was written during the check and written back.    *)
(***************************************************************************)
ActivatedAsChecked ==
  [][readinessStatus = "paused" /\ readinessStatus' = "active" =>
       \E c \in Calls : /\ call[c].at = "resume" /\ call'[c] = NoCall
                        /\ \A i \in Ids : /\ call[c].result[i].status = "ok"
                                          /\ StillAbout(i, call[c].result[i].of)]_readinessVars

(***************************************************************************)
(* readiness.ts:162 tells the administrator that configuration or          *)
(* credentials changed during the check: so a project that becomes active  *)
(* has the Secrets its check was about.                                    *)
(***************************************************************************)
ActivatedWithChecked ==
  [][readinessStatus = "paused" /\ readinessStatus' = "active" =>
       \E c \in Calls : /\ call[c].at = "resume" /\ call'[c] = NoCall
                        /\ call[c].result["credentials"].of =
                             Inputs("credentials", config.revision)]_readinessVars

(***************************************************************************)
(* The stored results come from one check: rows of two overlapping checks  *)
(* never make up a readiness that no check found                           *)
(* (persistProjectReadiness).                                              *)
(***************************************************************************)
RowsOfOneCheck ==
  \A i, j \in Ids :
    readinessRow[i] # NoRow /\ readinessRow[j] # NoRow =>
      readinessRow[i].check = readinessRow[j].check

(***************************************************************************)
(* What docs/changes/luowang-v07-ui-redesign/plan.md:174 says: a change of *)
(* the project's configuration, Secrets, image or of the deployment makes  *)
(* the affected results void; so a stored ok is about the present inputs.  *)
(* A check in flight stores its results after the change deleted them.     *)
(***************************************************************************)
ShownOkIsCurrent ==
  \A i \in {"repository", "credentials", "environment"} :
     readinessRow[i].status = "ok" => readinessRow[i].of = Inputs(i, config.revision)

(* projects/readiness.ts: a project becomes active with the inputs that    *)
(* were checked, as far as they are present, and its stored results come   *)
(* from one check.                                                         *)
ActivationIsChecked == ActivatedAsChecked /\ []RowsOfOneCheck
=============================================================================
