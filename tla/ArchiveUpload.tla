----------------------------- MODULE ArchiveUpload -----------------------------
(***************************************************************************)
(* How archives reach the bucket and translations the database:            *)
(* handleReceiveArchive of internal/api/upload.go with its background      *)
(* copy to S3, the client that waits for it (model/client.go), and         *)
(* handleStartTranslation of internal/api/translation.go.                  *)
(*                                                                         *)
(* An archive stands for its key in the bucket, and for the identifier of  *)
(* its row in the Upload table, which is the key without its extension.    *)
(***************************************************************************)
EXTENDS Naturals

CONSTANTS Archives,
          InBucket,     \* archives that were put there by other means
          UploadType,   \* UploadType[a]: the type named when a is uploaded
          Valid,        \* archives that pass the Mattermost validator
          Requests,     \* requests to start a translation
          ArchiveOf,    \* ArchiveOf[r]: the archive that r names
          RequestType,  \* RequestType[r]: the type that r names
          NamesUpload,  \* requests with an UploadID, made by `awat --upload`
          Validates,    \* requests that ask for validation
          MaxFaults     \* bound on errors of calls and process deaths

BackupTypes == {"slack", "mattermost"}

ASSUME ConstantsAssumption ==
    /\ InBucket \subseteq Archives /\ Valid \subseteq Archives
    /\ UploadType \in [Archives -> BackupTypes]
    /\ NamesUpload \subseteq Requests /\ Validates \subseteq Requests
    /\ ArchiveOf \in [Requests -> Archives]
    /\ \A r \in NamesUpload : ArchiveOf[r] \notin InBucket
    /\ MaxFaults \in Nat

VARIABLES
  uploads,    \* uploads[a]: a's row: "none", "pending", "complete", "failed"
  bucket,     \* archives in the bucket
  handler,    \* handler[a]: where the upload of a is
  request,    \* request[r]: where the client and the handler of r are
  accepted,   \* requests whose translation is stored
  validated,  \* archives that a validator has found to be Mattermost exports
  faults      \* errors and deaths so far

vars == <<uploads, bucket, handler, request, accepted, validated, faults>>

Init ==
    /\ uploads = [a \in Archives |-> "none"]
    /\ bucket = InBucket
    /\ handler = [a \in Archives |-> "new"]
    /\ request = [r \in Requests |-> "new"]
    /\ accepted = {}
    /\ validated = {}
    /\ faults = 0

Fault == faults < MaxFaults /\ faults' = faults + 1

NoFault == UNCHANGED faults

Advance(a, label) == handler' = [handler EXCEPT ![a] = label]

Step(r, label) == request' = [request EXCEPT ![r] = label]

InsertedIfNew(a) ==   \* mutant: the row has no state that a client knows
    uploads' = [uploads EXCEPT ![a] = IF @ = "none" THEN "new" ELSE "pending"]

Inserted(a) == uploads' = [uploads EXCEPT ![a] = "pending"]

--------------------------------------------------------------------------------
(* handleReceiveArchive() and the goroutine it starts *)

\* The body is copied and, if it is said to be a Mattermost export, validated.
handleReceiveArchive(a) ==
    /\ handler[a] = "new" /\ a \notin InBucket
    /\ \/ /\ UploadType[a] = "slack" \/ a \in Valid
          /\ Advance(a, "received") /\ NoFault
          /\ validated' = IF UploadType[a] = "slack" THEN validated
                          ELSE validated \cup {a}
       \/ /\ UploadType[a] = "mattermost" /\ a \notin Valid
          /\ Advance(a, "refused") /\ NoFault /\ UNCHANGED validated
       \/ Advance(a, "refused") /\ Fault /\ UNCHANGED validated
    /\ UNCHANGED <<uploads, bucket, request, accepted>>

\* The client is answered with the key as soon as the row is stored.
CreateUpload(a) ==
    /\ handler[a] = "received"
    /\ \/ Inserted(a) /\ Advance(a, "putting") /\ NoFault
       \/ /\ Inserted(a) \/ UNCHANGED uploads
          /\ Advance(a, "refused") /\ Fault
    /\ UNCHANGED <<bucket, request, accepted, validated>>

UploadUnchecked(a) ==   \* mutant: the error of the upload is not looked at
    /\ handler[a] = "putting"
    /\ \/ bucket' = bucket \cup {a} /\ NoFault
       \/ UNCHANGED bucket /\ Fault
    /\ Advance(a, "put")
    /\ UNCHANGED <<uploads, request, accepted, validated>>

UploadArchiveToS3(a) ==
    /\ handler[a] = "putting"
    /\ \/ bucket' = bucket \cup {a} /\ Advance(a, "put") /\ NoFault
       \/ UNCHANGED bucket /\ Advance(a, "putFailed") /\ Fault
    /\ UNCHANGED <<uploads, request, accepted, validated>>

CompleteOnSuccess(a) ==   \* mutant: a failure is not recorded
    /\ handler[a] = "put"
    /\ uploads' = [uploads EXCEPT ![a] = "complete"]
    /\ Advance(a, "done")
    /\ UNCHANGED <<bucket, request, accepted, validated, faults>>

\* An error of this update is only logged: the row may stay pending.
CompleteUpload(a) ==
    LET ended == [uploads EXCEPT ![a] =
                     IF handler[a] = "put" THEN "complete" ELSE "failed"]
    IN /\ handler[a] \in {"put", "putFailed"}
       /\ \/ uploads' = ended /\ Advance(a, "done") /\ NoFault
          \/ /\ uploads' = ended \/ UNCHANGED uploads
             /\ Advance(a, "unrecorded") /\ Fault
       /\ UNCHANGED <<bucket, request, accepted, validated>>

\* The server dies, or is stopped without waiting for the goroutine.
Crash(a) ==
    /\ handler[a] \in {"received", "putting", "put", "putFailed"}
    /\ Fault
    /\ Advance(a, IF handler[a] = "received" THEN "refused" ELSE "dead")
    /\ UNCHANGED <<uploads, bucket, request, accepted, validated>>

--------------------------------------------------------------------------------
(* The client, and handleStartTranslation() *)

WaitForEver(r) ==   \* mutant: the loop has no end
    /\ request[r] = "new" /\ r \in NamesUpload
    /\ \/ uploads[ArchiveOf[r]] = "complete" /\ Step(r, "sent")
       \/ uploads[ArchiveOf[r]] = "failed" /\ Step(r, "gaveUp")
       \/ handler[ArchiveOf[r]] = "refused" /\ Step(r, "gaveUp")
    /\ UNCHANGED <<uploads, bucket, handler, accepted, validated, faults>>

\* It gives up when the upload was refused or has failed, after three hours,
\* and as soon as the status cannot be read.
WaitForUploadToComplete(r) ==
    /\ request[r] = "new" /\ r \in NamesUpload
    /\ \/ uploads[ArchiveOf[r]] = "complete" /\ Step(r, "sent") /\ NoFault
       \/ /\ uploads[ArchiveOf[r]] \in {"pending", "failed"}
          /\ Step(r, "gaveUp") /\ NoFault
       \/ handler[ArchiveOf[r]] = "refused" /\ Step(r, "gaveUp") /\ NoFault
       \/ handler[ArchiveOf[r]] # "new" /\ Step(r, "gaveUp") /\ Fault
    /\ UNCHANGED <<uploads, bucket, handler, accepted, validated>>

Send(r) ==
    /\ request[r] = "new" /\ r \notin NamesUpload
    /\ Step(r, "sent")
    /\ UNCHANGED <<uploads, bucket, handler, accepted, validated, faults>>

NothingToCheck(a) == TRUE   \* mutant: the bucket is not looked at

Exists(a) == a \in bucket

CheckBucketFileExists(r) ==
    /\ request[r] = "sent"
    /\ \/ Exists(ArchiveOf[r]) /\ Step(r, "found") /\ NoFault
       \/ ~Exists(ArchiveOf[r]) /\ Step(r, "refused") /\ NoFault
       \/ Step(r, "refused") /\ Fault
    /\ UNCHANGED <<uploads, bucket, handler, accepted, validated>>

SkipsMattermost(r) ==   \* mutant: the wrong type is exempt
    r \notin Validates \/ RequestType[r] = "mattermost"

SkipsValidation(r) == r \notin Validates \/ RequestType[r] = "slack"

\* Whoever has stored an upload row for the archive before, and for whatever
\* type, has the archive count as validated.  If nobody has, it is downloaded and
\* validated; valid is the verdict.
handleTranslationUpload(r, valid) ==
    LET a == ArchiveOf[r]
        pass == RequestType[r] = "mattermost" /\ valid /\ ~SkipsValidation(r)
    IN /\ request[r] = "found"
       /\ \/ /\ uploads[a] # "none"
             /\ Step(r, "ensured") /\ NoFault /\ UNCHANGED validated
          \/ /\ uploads[a] = "none" /\ r \in NamesUpload
             /\ Step(r, "refused") /\ NoFault /\ UNCHANGED validated
          \/ /\ uploads[a] = "none" /\ r \notin NamesUpload
             /\ Step(r, IF pass \/ SkipsValidation(r) THEN "creating"
                        ELSE "refused")
             /\ validated' = IF pass THEN validated \cup {a} ELSE validated
             /\ NoFault
          \/ Step(r, "refused") /\ Fault /\ UNCHANGED validated
       /\ UNCHANGED <<uploads, bucket, handler, accepted>>

\* The insert fails if another request has stored the row meanwhile.  Nobody
\* marks this row as complete.
EnsureUpload(r) ==
    LET a == ArchiveOf[r]
    IN /\ request[r] = "creating"
       /\ \/ /\ uploads[a] = "none"
             /\ Inserted(a) /\ Step(r, "ensured") /\ NoFault
          \/ /\ uploads[a] # "none" /\ NoFault
             /\ Step(r, "refused") /\ UNCHANGED uploads
          \/ /\ uploads[a] = "none" /\ Fault
             /\ Step(r, "refused")
             /\ Inserted(a) \/ UNCHANGED uploads
       /\ UNCHANGED <<bucket, handler, accepted, validated>>

CreateTranslation(r) ==
    /\ request[r] = "ensured"
    /\ \/ accepted' = accepted \cup {r} /\ Step(r, "accepted") /\ NoFault
       \/ /\ accepted' = accepted \cup {r} \/ UNCHANGED accepted
          /\ Step(r, "refused") /\ Fault
    /\ UNCHANGED <<uploads, bucket, handler, validated>>

--------------------------------------------------------------------------------

Upload(a) == \/ handleReceiveArchive(a) \/ CreateUpload(a)
             \/ UploadArchiveToS3(a) \/ CompleteUpload(a)

TranslateIf(r, valid) ==
    \/ WaitForUploadToComplete(r) \/ Send(r)
    \/ CheckBucketFileExists(r) \/ handleTranslationUpload(r, valid)
    \/ EnsureUpload(r) \/ CreateTranslation(r)

Translate(r) == TranslateIf(r, ArchiveOf[r] \in Valid)

Next == \/ \E a \in Archives : Upload(a) \/ Crash(a)
        \/ \E r \in Requests : Translate(r)

Spec == Init /\ [][Next]_vars

\* A goroutine and a handler run on, and a client keeps polling.
FairSpec == /\ Spec
            /\ \A a \in Archives : WF_vars(Upload(a))
            /\ \A r \in Requests : WF_vars(Translate(r))

--------------------------------------------------------------------------------
(* Properties *)

TypeOK ==
    /\ uploads \in [Archives -> {"none", "pending", "complete", "failed"}]
    /\ bucket \subseteq Archives
    /\ handler \in [Archives -> {"new", "received", "refused", "putting", "put",
                                 "putFailed", "done", "unrecorded",
                                 "dead"}]
    /\ request \in [Requests -> {"new", "sent", "found", "creating", "ensured",
                                 "accepted", "refused", "gaveUp"}]
    /\ accepted \subseteq Requests
    /\ validated \subseteq Archives
    /\ faults \in 0..MaxFaults

\* An upload that a client sees as complete, without an error, is in the bucket.
CompleteMeansStored ==
    \A a \in Archives : uploads[a] = "complete" => a \in bucket

\* A stored translation has an archive to translate, and an upload row that
\* keeps later requests for this archive from storing another one.
AcceptedIsStored ==
    \A r \in accepted :
        ArchiveOf[r] \in bucket /\ uploads[ArchiveOf[r]] # "none"

\* The supervisor does not validate Mattermost archives "since we validate
\* those on the API calls": one that is accepted has been validated.
MattermostIsValidated ==
    \A r \in accepted :
        RequestType[r] = "mattermost" => ArchiveOf[r] \in validated

\* Every client is answered: the wait for an upload that never completes ends.
RequestsEnd ==
    \A r \in Requests :
        <>(request[r] \in {"accepted", "refused", "gaveUp"})

\* An upload that was answered with its key gets its verdict, complete or
\* failed, unless the server goes down or the verdict cannot be stored.
UploadsEnd ==
    \A a \in Archives :
        handler[a] = "putting"
            ~> \/ uploads[a] \in {"complete", "failed"}
               \/ handler[a] \in {"dead", "unrecorded"}
================================================================================
