------------------------------ MODULE Evidence ------------------------------
(***************************************************************************)
(* The evidence of a Run from its capture to its reading: runs/evidence.ts *)
(* and storage/oss.ts, as runs/browser-observation.ts captures, the        *)
(* Harness uploads (finishRunner), the Reviewer reads and a scenario       *)
(* review deletes (finishScenarioReviewRunner).                            *)
(*                                                                         *)
(* One file of each kind: a page snapshot and a screenshot the browser     *)
(* writes, and a record of a command the Harness writes.  A content is the *)
(* number of a version and whether values typed into fields are out of it; *)
(* a file may change at any time, and so may an object of the storage.  A  *)
(* PUT may fail, be done with its answer lost, or be done later.           *)
(***************************************************************************)
EXTENDS Naturals, FiniteSets

CONSTANTS MaxVersion,  \* bound on the versions written to files and objects
          MaxLoss      \* bound on the requests without an answer

\* Versions and requests are counted.
ASSUME EvidenceAssumption == MaxVersion \in Nat /\ MaxLoss \in Nat

VARIABLES
  versions,    \* versions written so far
  parsed,      \* snapshot versions whose field values the Harness has registered
  folder,      \* the files of the evidence directory
  removed,     \* files of the browser that were removed behind the Harness
  kept,        \* the content the Harness vouches for (snapshotHashes, screenshots, commandEvidence)
  distrusted,  \* failedSnapshots
  object,      \* the objects of the storage
  late,        \* PUTs given up by the caller and not done yet
  reference,   \* the content of each evidence reference
  seen,        \* what the Reviewer last read of each file, with what was vouched for
  op,          \* the capture or upload in progress
  todo,        \* the files uploadAll still has to take
  phase,       \* the Runner, uploadAll, the Reviewer, the deletion
  blocked,     \* whether the Run has a blocking reason
  losses

evidenceVars == <<versions, parsed, folder, removed, kept, distrusted, object, late, reference,
                  seen, op, todo, phase, blocked, losses>>
storeVars == <<object, late, losses>>
localVars == <<versions, parsed, folder, removed, kept, distrusted>>

Files    == {"page", "image", "command"}
Browser  == {"page", "image"}
NoFile     == [v |-> 0, clean |-> TRUE]   \* no file, or one that was discarded
NoOp     == [at |-> "none", file |-> "none", body |-> NoFile, attempt |-> 0, upload |-> FALSE]
Attempts == 3                           \* MAX_UPLOAD_ATTEMPTS
Contents == [v : 0 .. MaxVersion, clean : BOOLEAN]

\* Type invariant: files, objects and references hold contents, the operation is a known step.
EvidenceTypeOK ==
  /\ versions \in 0 .. MaxVersion /\ parsed \subseteq 1 .. MaxVersion
  /\ {folder, kept, object, reference} \subseteq [Files -> Contents]
  /\ distrusted \subseteq {"page"} /\ removed \subseteq Browser /\ todo \subseteq Files
  /\ late \subseteq [file : Files, body : Contents]
  /\ seen \in [Files -> [body : Contents, of : Contents]]
  /\ op.at \in {"none", "capture", "read", "put"} /\ op.attempt \in 0 .. Attempts
  /\ phase \in {"runner", "upload", "review", "delete", "end"}
  /\ blocked \in BOOLEAN /\ losses \in 0 .. MaxLoss

EvidenceInit ==
  /\ versions = 0 /\ parsed = {} /\ distrusted = {} /\ removed = {} /\ late = {} /\ todo = {}
  /\ folder = [f \in Files |-> NoFile] /\ kept = folder /\ object = folder /\ reference = folder
  /\ seen = [f \in Files |-> [body |-> NoFile, of |-> NoFile]]
  /\ op = NoOp /\ phase = "runner" /\ blocked = FALSE /\ losses = 0

---------------------------------------------------------------------------
\* The browser, the disk and the storage.

NextVersion == versions < MaxVersion /\ versions' = versions + 1

\* A file is written, by the browser or by anything else that reaches the directory.
FileWritten(f) ==
  /\ NextVersion /\ folder' = [folder EXCEPT ![f] = [v |-> versions', clean |-> f /= "page"]]
  /\ UNCHANGED <<parsed, removed, kept, distrusted, storeVars, reference, seen, op, todo, phase,
                 blocked>>

\* A file is removed the same way.
FileRemoved(f) ==
  /\ folder[f] /= NoFile /\ NextVersion /\ folder' = [folder EXCEPT ![f] = NoFile]
  /\ removed' = removed \cup ({f} \cap Browser)
  /\ UNCHANGED <<parsed, kept, distrusted, storeVars, reference, seen, op, todo, phase, blocked>>

\* An object is replaced behind the Harness.
ObjectWritten(f) ==
  /\ object[f] /= NoFile /\ NextVersion
  /\ object' = [object EXCEPT ![f] = [v |-> versions', clean |-> TRUE]]
  /\ UNCHANGED <<parsed, folder, removed, kept, distrusted, late, reference, seen, op, todo, phase,
                 blocked, losses>>

\* A PUT that was given up arrives.
LatePut ==
  \E p \in late :
    /\ late' = late \ {p} /\ object' = [object EXCEPT ![p.file] = p.body]
    /\ UNCHANGED <<localVars, reference, seen, op, todo, phase, blocked, losses>>

---------------------------------------------------------------------------
\* Capture.

\* A command's record is written once, redacted, with its hash.
CaptureCommand ==
  /\ phase = "runner" /\ op = NoOp /\ kept["command"] = NoFile /\ folder["command"] = NoFile
  /\ NextVersion
  /\ folder' = [folder EXCEPT !["command"] = [v |-> versions', clean |-> TRUE]]
  /\ kept' = [kept EXCEPT !["command"] = folder'["command"]]
  /\ UNCHANGED <<parsed, removed, distrusted, storeVars, reference, seen, op, todo, phase, blocked>>

\* A screenshot must still be what its receipt names, and be new.
CaptureScreenshot(shown) ==
  /\ phase = "runner" /\ op = NoOp
  /\ IF folder["image"].v = shown /\ kept["image"] = NoFile /\ reference["image"] = NoFile
       THEN kept' = [kept EXCEPT !["image"] = folder["image"]] /\ UNCHANGED blocked
       ELSE blocked' = TRUE /\ UNCHANGED kept
  /\ UNCHANGED <<versions, parsed, folder, removed, distrusted, storeVars, reference, seen, op,
                 todo, phase>>

\* A snapshot is distrusted until it is captured ...
CaptureBegins(upload) ==
  /\ distrusted' = distrusted \cup {"page"}
  /\ op' = [at |-> "capture", file |-> "page", body |-> folder["page"], attempt |-> 0,
            upload |-> upload]

CaptureSnapshot ==
  /\ phase = "runner" /\ op = NoOp /\ CaptureBegins(FALSE)
  /\ UNCHANGED <<versions, parsed, folder, removed, kept, storeVars, reference, seen, todo, phase,
                 blocked>>

\* An operation of uploadAll is over: a failure is a blocking reason, the file is not retried.
Done(failed) ==
  /\ op' = NoOp /\ todo' = todo \ {op.file} /\ blocked' = (blocked \/ failed)

\* ... read, its field values registered and removed, and replaced; a known one must be the same.
CaptureSucceeds ==
  /\ op.at = "capture" /\ op.body.v /= 0
  /\ \/ kept["page"] = op.body /\ UNCHANGED <<parsed, folder, kept>>
     \/ /\ kept["page"] = NoFile /\ parsed' = parsed \cup {op.body.v}
        /\ folder' = [folder EXCEPT !["page"] = [op.body EXCEPT !.clean = TRUE]]
        /\ kept' = [kept EXCEPT !["page"] = folder'["page"]]
  /\ distrusted' = distrusted \ {"page"}
  /\ op' = IF op.upload THEN [op EXCEPT !.at = "read"] ELSE NoOp
  /\ UNCHANGED <<versions, removed, storeVars, reference, seen, todo, phase, blocked>>

\* One that changed or cannot be read is discarded, or removed, or left where neither is possible.
CaptureFails ==
  /\ op.at = "capture"
  /\ kept' = [kept EXCEPT !["page"] = NoFile]
  /\ \/ folder' = [folder EXCEPT !["page"] = NoFile] \/ UNCHANGED folder
  /\ Done(TRUE)
  /\ UNCHANGED <<versions, parsed, removed, distrusted, storeVars, reference, seen, phase>>

---------------------------------------------------------------------------
\* Upload.

\* upload: a reference that exists is returned; a snapshot never captured is captured first.
UploadBegins(f) ==
  /\ op = NoOp /\ reference[f] = NoFile
  /\ \/ phase = "runner" /\ f /= "page"
     \/ phase = "upload" /\ f \in todo
  /\ IF f = "page" /\ f \in distrusted
       THEN blocked' = TRUE /\ todo' = todo \ {f} /\ UNCHANGED <<distrusted, op>>
       ELSE /\ UNCHANGED <<todo, blocked>>
            /\ IF f = "page" /\ kept[f] = NoFile
                 THEN CaptureBegins(TRUE)
                 ELSE op' = [NoOp EXCEPT !.at = "read", !.file = f] /\ UNCHANGED distrusted
  /\ UNCHANGED <<versions, parsed, folder, removed, kept, storeVars, reference, seen, phase>>

\* A file of uploadAll that has a reference already.
UploadKnown(f) ==
  /\ phase = "upload" /\ op = NoOp /\ f \in todo /\ reference[f] /= NoFile /\ todo' = todo \ {f}
  /\ UNCHANGED <<localVars, storeVars, reference, seen, op, phase, blocked>>

Redacted(body) == [body EXCEPT !.clean = @ \/ body.v \in parsed]

\* Mutant: the file is sent as it is, without a look at what was captured.
UploadReadsUnchecked ==
  /\ op.at = "read" /\ folder[op.file].v /= 0
  /\ op' = [op EXCEPT !.at = "put", !.body = Redacted(folder[op.file])]
  /\ UNCHANGED <<localVars, storeVars, reference, seen, todo, phase, blocked>>

\* The bytes to send are read once and must be those vouched for; a snapshot is redacted again.
UploadReads ==
  /\ op.at = "read"
  /\ LET f == op.file  body == Redacted(folder[f]) IN
     IF \/ folder[f].v = 0 \/ (kept[f] /= NoFile /\ folder[f] /= kept[f])
        \/ (f = "command" /\ kept[f] = NoFile)
       THEN Done(phase = "upload") /\ UNCHANGED <<folder, kept>>
       ELSE /\ op' = [op EXCEPT !.at = "put", !.body = body]
            /\ IF f = "page"
                 THEN folder' = [folder EXCEPT ![f] = body] /\ kept' = [kept EXCEPT ![f] = body]
                 ELSE UNCHANGED <<folder, kept>>
            /\ UNCHANGED <<todo, blocked>>
  /\ UNCHANGED <<versions, parsed, removed, distrusted, storeVars, reference, seen, phase>>

\* The PUT is answered: the reference names the bytes that were sent.
UploadSucceeds ==
  /\ op.at = "put"
  /\ object' = [object EXCEPT ![op.file] = op.body]
  /\ reference' = [reference EXCEPT ![op.file] = op.body] /\ Done(FALSE)
  /\ UNCHANGED <<localVars, late, seen, phase, losses>>

\* Mutant: a failed upload is forgotten.
UploadFailsSilently ==
  /\ op.at = "put" /\ losses < MaxLoss /\ losses' = losses + 1 /\ Done(FALSE)
  /\ UNCHANGED <<localVars, object, late, reference, seen, phase>>

\* The PUT is not answered: done, late or lost; a transient failure is tried again.
UploadFails ==
  /\ op.at = "put" /\ losses < MaxLoss /\ losses' = losses + 1
  /\ \/ object' = [object EXCEPT ![op.file] = op.body] /\ UNCHANGED late
     \/ late' = late \cup {[file |-> op.file, body |-> op.body]} /\ UNCHANGED object
     \/ UNCHANGED <<object, late>>
  /\ \/ /\ op.attempt + 1 < Attempts /\ op' = [op EXCEPT !.attempt = @ + 1]
        /\ UNCHANGED <<todo, blocked>>
     \/ Done(phase = "upload")
  /\ UNCHANGED <<localVars, reference, seen, phase>>

\* Mutant: only the files of the directory are listed.
UploadsWhatIsThere ==
  /\ phase = "runner" /\ op = NoOp /\ phase' = "upload"
  /\ todo' = {f \in Files : folder[f] /= NoFile}
  /\ UNCHANGED <<localVars, storeVars, reference, seen, op, blocked>>

\* finishRunner: everything listed is uploaded: the files there are, and the records and the
\* references even where their file is gone.
UploadAllBegins ==
  /\ phase = "runner" /\ op = NoOp /\ phase' = "upload"
  /\ todo' = {f \in Files : folder[f] /= NoFile \/ reference[f] /= NoFile \/ f \in distrusted}
             \cup {f \in {"command"} : kept[f] /= NoFile}
  /\ UNCHANGED <<localVars, storeVars, reference, seen, op, blocked>>

\* Then a Reviewer reads, or a scenario review deletes.
UploadAllEnds ==
  /\ phase = "upload" /\ op = NoOp /\ todo = {} /\ phase' \in {"review", "delete"}
  /\ UNCHANGED <<localVars, storeVars, reference, seen, op, todo, blocked>>

---------------------------------------------------------------------------
\* Review and deletion.

Reads(f, body, of) ==
  /\ phase = "review" /\ (reference[f] /= NoFile \/ (f = "command" /\ kept[f] /= NoFile))
  /\ seen' = [seen EXCEPT ![f] = [body |-> body, of |-> of]]
  /\ UNCHANGED <<localVars, storeVars, reference, op, todo, phase, blocked>>

\* What a read returns, and the content it is compared with: a record may be read locally.
Returned(f) == IF reference[f] /= NoFile THEN object[f] ELSE folder[f]
Vouched(f)  == IF reference[f] /= NoFile THEN reference[f] ELSE kept[f]

\* Mutant: what is returned is believed.
ReviewerBelieves(f) == Returned(f) /= NoFile /\ Reads(f, Returned(f), Vouched(f))

\* A read is of bytes with the hash they must have ...
ReviewerReads(f) == Returned(f) = Vouched(f) /\ Reads(f, Returned(f), Vouched(f))

\* ... or it fails, after its attempts, and the failure counts.
ReviewerReadFails ==
  /\ phase = "review" /\ blocked' = TRUE
  /\ UNCHANGED <<localVars, storeVars, reference, seen, op, todo, phase>>

\* cleanupUploaded: an object deleted with its reference, or a failure that keeps the reference.
DeletesObject(f) ==
  /\ phase = "delete" /\ reference[f] /= NoFile /\ f \notin todo
  /\ \/ /\ object' = [object EXCEPT ![f] = NoFile] /\ reference' = [reference EXCEPT ![f] = NoFile]
        /\ UNCHANGED <<todo, blocked, losses>>
     \/ /\ losses < MaxLoss /\ losses' = losses + 1
        /\ object' \in {object, [object EXCEPT ![f] = NoFile]}
        /\ todo' = todo \cup {f} /\ blocked' = TRUE /\ UNCHANGED reference
  /\ UNCHANGED <<localVars, late, seen, op, phase>>

DeletionEnds ==
  /\ phase = "delete" /\ phase' = "end" /\ todo' = {}
  /\ \A f \in Files : reference[f] = NoFile \/ f \in todo
  /\ UNCHANGED <<localVars, storeVars, reference, seen, op, blocked>>

---------------------------------------------------------------------------
EvidenceNext ==
  \/ LatePut \/ CaptureCommand \/ CaptureSnapshot \/ CaptureSucceeds \/ CaptureFails
  \/ UploadReads \/ UploadSucceeds \/ UploadFails \/ UploadAllBegins \/ UploadAllEnds
  \/ ReviewerReadFails \/ DeletionEnds
  \/ \E shown \in 1 .. versions : CaptureScreenshot(shown)
  \/ \E f \in Files : \/ FileWritten(f) \/ FileRemoved(f) \/ ObjectWritten(f) \/ UploadBegins(f)
                      \/ UploadKnown(f) \/ ReviewerReads(f) \/ DeletesObject(f)

EvidenceSpec == EvidenceInit /\ [][EvidenceNext]_evidenceVars

---------------------------------------------------------------------------
\* No snapshot reaches the storage with values typed into fields, whatever the browser wrote to
\* its file while it was captured, redacted or uploaded, and whenever a PUT arrives.
StoredIsRedacted == \A f \in Files : object[f].clean /\ reference[f].clean

\* What the Reviewer was given is what the reference of the file names, and a record of a
\* command is what the Harness captured.
ReadIsAsUploaded ==
  /\ \A f \in Files : seen[f].body = seen[f].of
  /\ seen["command"].body \in {NoFile, kept["command"]}

\* Once all is uploaded, what the Harness vouches for has a reference or the Run is blocked; a
\* record of a command cannot drop out even by losing its file.
NothingDropsOut ==
  phase = "review" =>
    \A f \in Files : kept[f] = NoFile \/ reference[f] /= NoFile \/ f \in removed \/ blocked

\* runs/evidence.ts: what is stored is redacted, what the Reviewer read is what is stored, and
\* nothing the Harness vouches for drops out.
EvidenceKept == StoredIsRedacted /\ ReadIsAsUploaded /\ NothingDropsOut
=============================================================================
