-------------------------- MODULE ArchiveUploadProofs --------------------------
(***************************************************************************)
(* What a stored translation can rely on, for any archives and requests    *)
(* and any number of faults.                                               *)
(***************************************************************************)
EXTENDS ArchiveUpload, TLAPS

USE ConstantsAssumption
USE DEF BackupTypes, Fault, NoFault, Advance, Step, Inserted

--------------------------------------------------------------------------------
(* Types *)

LEMMA UploadTyped ==
  ASSUME TypeOK, NEW a \in Archives, Upload(a) \/ Crash(a)
  PROVE  TypeOK'
<1> USE DEF TypeOK
<1>1. CASE handleReceiveArchive(a)
  BY <1>1 DEF handleReceiveArchive
<1>2. CASE CreateUpload(a)
  BY <1>2 DEF CreateUpload
<1>3. CASE UploadArchiveToS3(a)
  BY <1>3 DEF UploadArchiveToS3
<1>4. CASE CompleteUpload(a)
  BY <1>4 DEF CompleteUpload
<1>5. CASE Crash(a)
  BY <1>5 DEF Crash
<1> QED BY <1>1, <1>2, <1>3, <1>4, <1>5 DEF Upload

LEMMA TranslateTyped ==
  ASSUME TypeOK, NEW r \in Requests, Translate(r)
  PROVE  TypeOK'
<1> USE DEF TypeOK
<1>1. CASE WaitForUploadToComplete(r)
  BY <1>1 DEF WaitForUploadToComplete
<1>2. CASE Send(r)
  BY <1>2 DEF Send
<1>3. CASE CheckBucketFileExists(r)
  BY <1>3 DEF CheckBucketFileExists
<1>4. CASE handleTranslationUpload(r, ArchiveOf[r] \in Valid)
  BY <1>4 DEF handleTranslationUpload
<1>5. CASE EnsureUpload(r)
  BY <1>5 DEF EnsureUpload
<1>6. CASE CreateTranslation(r)
  BY <1>6 DEF CreateTranslation
<1> QED BY <1>1, <1>2, <1>3, <1>4, <1>5, <1>6 DEF Translate, TranslateIf

LEMMA TypeStep == TypeOK /\ [Next]_vars => TypeOK'
<1>1. TypeOK /\ UNCHANGED vars => TypeOK'
  BY DEF TypeOK, vars
<1> QED BY <1>1, UploadTyped, TranslateTyped DEF Next

\* Every row, archive and request is in one of the states that the handlers
\* and the client know.
THEOREM UploadTypeCorrect == Spec => []TypeOK
<1>1. Init => TypeOK
  BY DEF Init, TypeOK
<1> QED BY <1>1, TypeStep, PTL DEF Spec

--------------------------------------------------------------------------------
(* The bucket *)

\* Nothing is taken out of the bucket, and a row stays a row.
LEMMA BucketGrows ==
  ASSUME TypeOK, [Next]_vars
  PROVE  /\ bucket \subseteq bucket'
         /\ \A a \in Archives : uploads[a] # "none" => uploads'[a] # "none"
<1>1. ASSUME NEW a \in Archives, Upload(a) \/ Crash(a)
      PROVE  /\ bucket \subseteq bucket'
             /\ \A b \in Archives : uploads[b] # "none" => uploads'[b] # "none"
  BY <1>1 DEF Upload, Crash, handleReceiveArchive, CreateUpload, UploadArchiveToS3,
     CompleteUpload, TypeOK
<1>2. ASSUME NEW r \in Requests, Translate(r)
      PROVE  /\ bucket \subseteq bucket'
             /\ \A b \in Archives : uploads[b] # "none" => uploads'[b] # "none"
  BY <1>2 DEF Translate, TranslateIf, WaitForUploadToComplete, Send,
     CheckBucketFileExists, handleTranslationUpload, EnsureUpload,
     CreateTranslation, TypeOK
<1>3. CASE UNCHANGED vars
  BY <1>3 DEF vars
<1> QED BY <1>1, <1>2, <1>3 DEF Next

\* The verdict on an upload is decided before it is recorded.
StoredInv ==
    /\ CompleteMeansStored
    /\ \A a \in Archives : handler[a] = "put" => a \in bucket

LEMMA StoredStep ==
  ASSUME TypeOK, StoredInv, [Next]_vars
  PROVE  StoredInv'
<1> USE DEF StoredInv, CompleteMeansStored
<1>1. ASSUME NEW a \in Archives, Upload(a) \/ Crash(a)
      PROVE  StoredInv'
  <2>1. CASE handleReceiveArchive(a) \/ CreateUpload(a) \/ Crash(a)
    BY <2>1 DEF handleReceiveArchive, CreateUpload, Crash, TypeOK
  <2>2. CASE UploadArchiveToS3(a)
    BY <2>2 DEF UploadArchiveToS3, TypeOK
  <2>3. CASE CompleteUpload(a)
    BY <2>3 DEF CompleteUpload, TypeOK
  <2> QED BY <1>1, <2>1, <2>2, <2>3 DEF Upload
<1>2. ASSUME NEW r \in Requests, Translate(r)
      PROVE  StoredInv'
  <2>1. /\ UNCHANGED <<bucket, handler>>
        /\ \A a \in Archives : uploads'[a] = "complete" => uploads[a] = "complete"
    BY <1>2 DEF Translate, TranslateIf, WaitForUploadToComplete, Send,
       CheckBucketFileExists, handleTranslationUpload, EnsureUpload,
       CreateTranslation, TypeOK
  <2> QED BY <2>1
<1>3. CASE UNCHANGED vars
  BY <1>3 DEF vars
<1> QED BY <1>1, <1>2, <1>3 DEF Next

\* An upload is shown as complete only when its archive is in the bucket: the
\* error of the copy is not lost between the goroutine and the row.
THEOREM CompleteIsStored == Spec => []CompleteMeansStored
<1>1. Init => StoredInv
  BY DEF Init, StoredInv, CompleteMeansStored
<1>2. TypeOK /\ StoredInv /\ [Next]_vars => StoredInv'
  BY StoredStep
<1>3. StoredInv => CompleteMeansStored
  BY DEF StoredInv
<1> QED BY <1>1, <1>2, <1>3, UploadTypeCorrect, PTL DEF Spec

\* What the handler of a request has found out stays true until it is done.
FoundInv ==
    /\ AcceptedIsStored
    /\ \A r \in Requests :
         /\ request[r] \in {"found", "creating", "ensured"} => ArchiveOf[r] \in bucket
         /\ request[r] = "ensured" => uploads[ArchiveOf[r]] # "none"

LEMMA FoundStep ==
  ASSUME TypeOK, FoundInv, [Next]_vars
  PROVE  FoundInv'
<1>1. /\ bucket \subseteq bucket'
      /\ \A a \in Archives : uploads[a] # "none" => uploads'[a] # "none"
  BY BucketGrows
<1>2. CASE UNCHANGED <<request, accepted>>
  BY <1>1, <1>2 DEF FoundInv, AcceptedIsStored, TypeOK
<1>3. ASSUME NEW r \in Requests, Translate(r)
      PROVE  FoundInv'
  <2>1. \A q \in Requests \ {r} : request'[q] = request[q]
    BY <1>3 DEF Translate, TranslateIf, WaitForUploadToComplete, Send,
       CheckBucketFileExists, handleTranslationUpload, EnsureUpload,
       CreateTranslation, TypeOK
  <2>2. /\ request'[r] \in {"found", "creating", "ensured"} => ArchiveOf[r] \in bucket
        /\ request'[r] = "ensured" => uploads'[ArchiveOf[r]] # "none"
    BY <1>3 DEF Translate, TranslateIf, WaitForUploadToComplete, Send,
       CheckBucketFileExists, handleTranslationUpload, EnsureUpload,
       CreateTranslation, TypeOK, FoundInv, Exists
  <2>3. accepted' \subseteq accepted \cup {q \in {r} : request[q] = "ensured"}
    BY <1>3 DEF Translate, TranslateIf, WaitForUploadToComplete, Send,
       CheckBucketFileExists, handleTranslationUpload, EnsureUpload,
       CreateTranslation
  <2> QED BY <1>1, <2>1, <2>2, <2>3 DEF FoundInv, AcceptedIsStored, TypeOK
<1>4. ASSUME NEW a \in Archives, Upload(a) \/ Crash(a)
      PROVE  UNCHANGED <<request, accepted>>
  BY <1>4 DEF Upload, Crash, handleReceiveArchive, CreateUpload, UploadArchiveToS3,
     CompleteUpload
<1> QED BY <1>2, <1>3, <1>4 DEF Next, vars

\* Whatever requests race for an archive, a stored translation has one in the
\* bucket, with its row.
THEOREM AcceptedStored == Spec => []AcceptedIsStored
<1>1. Init => FoundInv
  BY DEF Init, FoundInv, AcceptedIsStored
<1>2. TypeOK /\ FoundInv /\ [Next]_vars => FoundInv'
  BY FoundStep
<1>3. FoundInv => AcceptedIsStored
  BY DEF FoundInv
<1> QED BY <1>1, <1>2, <1>3, UploadTypeCorrect, PTL DEF Spec

--------------------------------------------------------------------------------
(* Validation *)

\* Whoever names an archive takes it for the same kind of export, and whoever
\* takes it for Mattermost's asks for its validation.
OneTypeEach ==
    /\ \A q, r \in Requests :
         ArchiveOf[q] = ArchiveOf[r] => RequestType[q] = RequestType[r]
    /\ \A r \in Requests :
         ArchiveOf[r] \in InBucket \/ RequestType[r] = UploadType[ArchiveOf[r]]

AllValidate ==
    \A r \in Requests : RequestType[r] = "mattermost" => r \in Validates

\* With one type each, a row is as good as a validation.
ValidInv ==
    /\ \A a \in Archives :
         UploadType[a] = "mattermost" /\ handler[a] \in {"received", "putting",
             "put", "putFailed"} => a \in validated
    /\ \A a \in Archives : handler[a] # "new" => a \notin InBucket
    /\ \A r \in Requests : RequestType[r] = "mattermost" =>
         /\ uploads[ArchiveOf[r]] # "none" => ArchiveOf[r] \in validated
         /\ request[r] \in {"creating", "ensured"} => ArchiveOf[r] \in validated
    /\ MattermostIsValidated

LEMMA ValidatedGrows ==
  ASSUME [Next]_vars
  PROVE  validated \subseteq validated'
BY DEF Next, vars, Upload, Crash, handleReceiveArchive, CreateUpload,
   UploadArchiveToS3, CompleteUpload, Translate, TranslateIf, WaitForUploadToComplete,
   Send, CheckBucketFileExists, handleTranslationUpload, EnsureUpload, CreateTranslation

LEMMA ValidStep ==
  ASSUME OneTypeEach, AllValidate, TypeOK, ValidInv, [Next]_vars
  PROVE  ValidInv'
<1> DEFINE Row(a) == uploads[a] # "none"
           Mattermost(r) == RequestType[r] = "mattermost"
<1>1. validated \subseteq validated'
  BY ValidatedGrows
<1>2. ASSUME NEW a \in Archives, Upload(a) \/ Crash(a)
      PROVE  ValidInv'
  <2>1. /\ UNCHANGED <<request, accepted>>
        /\ \A b \in Archives \ {a} :
             handler'[b] = handler[b] /\ uploads'[b] = uploads[b]
    BY <1>2 DEF Upload, Crash, handleReceiveArchive, CreateUpload, UploadArchiveToS3,
       CompleteUpload, TypeOK
  <2>2. /\ UploadType[a] = "mattermost" /\ handler'[a] \in {"received", "putting",
              "put", "putFailed"} => a \in validated'
        /\ a \notin InBucket
    <3>1. CASE handleReceiveArchive(a)
      BY <3>1 DEF handleReceiveArchive, TypeOK
    <3>2. CASE CreateUpload(a) \/ UploadArchiveToS3(a) \/ CompleteUpload(a) \/ Crash(a)
      BY <1>1, <3>2 DEF CreateUpload, UploadArchiveToS3, CompleteUpload, Crash, TypeOK,
         ValidInv
    <3> QED BY <1>2, <3>1, <3>2 DEF Upload
  <2>3. ASSUME NEW r \in Requests, Mattermost(r), ArchiveOf[r] = a, Row(a)'
        PROVE  a \in validated'
    <3>1. CASE Row(a)
      BY <1>1, <2>3, <3>1 DEF ValidInv
    <3>2. CASE CreateUpload(a) \/ CompleteUpload(a)
      <4>1. /\ handler[a] \in {"received", "put", "putFailed"}
            /\ UploadType[a] = "mattermost"
        BY <2>2, <2>3, <3>2 DEF CreateUpload, CompleteUpload, OneTypeEach
      <4> QED BY <1>1, <4>1 DEF ValidInv
    <3>3. CASE handleReceiveArchive(a) \/ UploadArchiveToS3(a) \/ Crash(a)
      BY <2>3, <3>1, <3>3 DEF handleReceiveArchive, UploadArchiveToS3, Crash
    <3> QED BY <1>2, <3>2, <3>3 DEF Upload
  <2> QED BY <1>1, <2>1, <2>2, <2>3 DEF ValidInv, MattermostIsValidated
<1>3. ASSUME NEW r \in Requests, Translate(r)
      PROVE  ValidInv'
  <2>1. /\ UNCHANGED handler
        /\ \A q \in Requests \ {r} : request'[q] = request[q]
    BY <1>3 DEF Translate, TranslateIf, WaitForUploadToComplete, Send,
       CheckBucketFileExists, handleTranslationUpload, EnsureUpload,
       CreateTranslation, TypeOK
  <2>2. Mattermost(r) /\ request'[r] \in {"creating", "ensured"} =>
           ArchiveOf[r] \in validated'
    BY <1>1, <1>3 DEF Translate, TranslateIf, WaitForUploadToComplete, Send,
       CheckBucketFileExists, handleTranslationUpload, EnsureUpload,
       CreateTranslation, SkipsValidation, AllValidate, ValidInv, TypeOK
  <2>3. ASSUME NEW q \in Requests, Mattermost(q), Row(ArchiveOf[q])'
        PROVE  ArchiveOf[q] \in validated'
    <3>1. CASE Row(ArchiveOf[q])
      BY <1>1, <2>3, <3>1 DEF ValidInv
    <3>2. CASE ~Row(ArchiveOf[q])
      <4>1. request[r] = "creating" /\ ArchiveOf[q] = ArchiveOf[r]
        BY <1>3, <2>3, <3>2 DEF Translate, TranslateIf, WaitForUploadToComplete, Send,
           CheckBucketFileExists, handleTranslationUpload, EnsureUpload,
           CreateTranslation, TypeOK
      <4> QED BY <1>1, <2>3, <4>1 DEF ValidInv, OneTypeEach
    <3> QED BY <3>1, <3>2
  <2>4. MattermostIsValidated'
    <3>1. accepted' \subseteq accepted \cup {q \in {r} : request[q] = "ensured"}
      BY <1>3 DEF Translate, TranslateIf, WaitForUploadToComplete, Send,
         CheckBucketFileExists, handleTranslationUpload, EnsureUpload,
         CreateTranslation
    <3> QED BY <1>1, <3>1 DEF ValidInv, MattermostIsValidated
  <2> QED BY <1>1, <2>1, <2>2, <2>3, <2>4 DEF ValidInv
<1>4. CASE UNCHANGED vars
  BY <1>4 DEF vars, ValidInv, MattermostIsValidated
<1> QED BY <1>2, <1>3, <1>4 DEF Next

\* As long as nobody takes an archive for another kind of export, and all ask
\* for validation, as `awat translation start` does by default, the supervisor
\* may rely on the API for it.
THEOREM ValidatedByAPI ==
  ASSUME OneTypeEach, AllValidate
  PROVE  Spec => []MattermostIsValidated
<1>1. Init => ValidInv
  BY DEF Init, ValidInv, MattermostIsValidated
<1>2. TypeOK /\ ValidInv /\ [Next]_vars => ValidInv'
  BY ValidStep
<1>3. ValidInv => MattermostIsValidated
  BY DEF ValidInv
<1> QED BY <1>1, <1>2, <1>3, UploadTypeCorrect, PTL DEF Spec
================================================================================
