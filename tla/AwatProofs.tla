------------------------------- MODULE AwatProofs ------------------------------
(***************************************************************************)
(* What the parts of the AWAT guarantee they still guarantee together, and *)
(* what none of them can say alone: the archive that an import names is    *)
(* ready from the moment the import is stored until it has run.            *)
(*                                                                         *)
(* A step of one part is, for the others, no step at all or one of their   *)
(* environment: the API and the translator put objects in the bucket, and  *)
(* the translator stores imports (Elsewhere); the import supervisor takes  *)
(* objects out.  So the step lemmas of ImportSafetyProofs carry over as    *)
(* they are.  Theorems about an instance cannot be cited; what is needed   *)
(* of the API and of the translator is shown here for its steps in the     *)
(* pipeline.                                                               *)
(***************************************************************************)
EXTENDS Awat, ImportSafetyProofs

USE ConstantsAssumption
USE DEF table, session, installation, provisioner, upload, translation,
        Goto, PGoto, Fault, NoFault, UpdateImport, SiteOf, Mine, Site

--------------------------------------------------------------------------------
(* The import half *)

\* A step of another part.  It stores one import at most.
Elsewhere ==
    /\ UNCHANGED <<imports, session, installation, provisioner>>
    /\ \/ created' = created
       \/ \E i \in Imports \ created : created' = created \cup {i}
    /\ bucket \subseteq bucket' /\ bucket' \subseteq Archives
    /\ faults' = faults \/ Fault

LEMMA ElsewhereTyped ==
  ASSUME TypeOK, Elsewhere
  PROVE  TypeOK'
<1>1. TableTyped'
  BY TypeParts DEF Elsewhere, TableTyped
<1>2. SessionTyped' /\ SiteTyped' /\ WorkTyped' /\ CountTyped'
  BY TypeParts, PartsKept DEF Elsewhere
<1> QED BY <1>1, <1>2 DEF TypeOK, TableTyped, SessionTyped, SiteTyped, WorkTyped,
           CountTyped

LEMMA ElsewhereCause ==
  ASSUME TypeOK, CauseInv, Elsewhere
  PROVE  CauseInv'
<1>1. \A i \in Imports : SiteRan(i)' = SiteRan(i) /\ Justified(i)' = Justified(i)
  BY DEF Elsewhere, SiteRan, Justified, Ran
<1>2. RowsJustified'
  BY <1>1 DEF Elsewhere, CauseInv, RowsJustified
<1>3. RunsShown' /\ \A s \in Supervisors : Decided(s)'
  BY <1>1 DEF Elsewhere, CauseInv, RunsShown, Decided, Ran
<1> QED BY <1>2, <1>3 DEF CauseInv

LEMMA ElsewhereFresh ==
  ASSUME FreshInv, Elsewhere
  PROVE  FreshInv'
BY DEF Elsewhere, FreshInv, RowFresh, CopyFresh, DecisionFresh, WorkFresh, InHand, Ran

LEMMA ElsewhereSpent ==
  ASSUME SpentInv, Elsewhere
  PROVE  SpentInv'
BY DEF Elsewhere, SpentInv, RunSpent, WorkSpent, Ran

LEMMA ElsewhereReverted ==
  ASSUME RevertInv, Elsewhere
  PROVE  RevertInv'
BY DEF Elsewhere, RevertInv, RowReverted, CopyReverted, WorkReverted, PatchCurrent,
   PatchFor, InHand, RevertedFor

LEMMA ElsewherePhase ==
  ASSUME PhaseInv, Elsewhere
  PROVE  PhaseInv'
<1>1. ASSUME NEW i \in Imports
      PROVE  ImportPhase(i)'
  <2>1. /\ Now(i)' = Now(i) /\ ImportPhase(i)
        /\ \A s \in Supervisors : Listed(s, i)' => Listed(s, i)
    BY DEF Elsewhere, Now, Listed, PhaseInv
  <2> QED BY <2>1, PhaseStays DEF Elsewhere
<1> QED BY <1>1 DEF Elsewhere, PhaseInv, SitePhase

LEMMA ElsewhereClaim ==
  ASSUME TypeOK, ClaimInv, Elsewhere
  PROVE  ClaimInv'
<1>1. faults' = 0 => faults = 0
  BY DEF Elsewhere, TypeOK, CountTyped
<1> QED BY <1>1 DEF Elsewhere, ClaimInv, ClaimMine, ClaimHeld, ShowsClaim

LEMMA ElsewhereAPI ==
  ASSUME TypeOK, APIInv, Elsewhere
  PROVE  APIInv'
<1>1. faults' = 0 => faults = 0
  BY DEF Elsewhere, TypeOK, CountTyped
<1> QED BY <1>1 DEF Elsewhere, APIInv, APIRelocked

\* What another part may show of an import is its request.
LEMMA ElsewhereShown ==
  ASSUME FreshInv, Elsewhere
  PROVE  [Lifecycle!Next]_(Lifecycle!vars)
<1>1. CASE created' = created
  BY <1>1, NothingShown DEF Elsewhere
<1>2. ASSUME NEW i \in Imports \ created, created' = created \cup {i}
      PROVE  Lifecycle!Next
  <2>1. imports[i].State = Requested
    BY DEF FreshInv, RowFresh
  <2>2. Shown[i] = "none" /\ Shown' = [Shown EXCEPT ![i] = Requested]
    BY <1>2, <2>1 DEF Shown, Elsewhere
  <2>3. UNCHANGED {j \in Imports : Ran(j)}
    BY DEF Ran, Elsewhere
  <2>4. Lifecycle!Request(i)
    BY <2>2, <2>3 DEF Lifecycle!Request, Lifecycle!Become, Lifecycle!Requested, Requested
  <2> QED BY <2>4 DEF Lifecycle!Next
<1> QED BY <1>1, <1>2 DEF Elsewhere

LEMMA ImportStepIsNext == ImportStep => Next
BY DEF ImportStep, Next

--------------------------------------------------------------------------------
(* The API *)

UP == INSTANCE ArchiveUploadProofs WITH Requests <- Translations

Api == \/ \E a \in Archives : UploadArchive(a)
       \/ \E t \in Translations : StartTranslation(t)

\* For the other parts, a step of the API puts an upload in the bucket or counts
\* a fault at most; nothing that it has stored is taken back.
ApiLeaves ==
    /\ Elsewhere /\ UNCHANGED translation /\ created' = created
    /\ validated \subseteq validated'
    /\ accepted \subseteq accepted' /\ accepted' \subseteq Translations

LEMMA UploadStep ==
  ASSUME U!TypeOK, NEW a \in Archives, U!Upload(a) \/ U!Crash(a)
  PROVE  /\ U!TypeOK' /\ UNCHANGED <<request, accepted>>
         /\ faults' = faults \/ Fault
         /\ bucket \subseteq bucket' /\ validated \subseteq validated'
         /\ \A b \in Archives : uploads[b] # "none" => uploads'[b] # "none"
<1> USE PartsAssumption
<1> USE DEF U!Fault, U!NoFault, U!Advance, U!Inserted, U!BackupTypes
<1>1. U!TypeOK'
  <2> USE DEF U!TypeOK
  <2>1. CASE U!handleReceiveArchive(a)
    BY <2>1 DEF U!handleReceiveArchive
  <2>2. CASE U!CreateUpload(a)
    BY <2>2 DEF U!CreateUpload
  <2>3. CASE U!UploadArchiveToS3(a)
    BY <2>3 DEF U!UploadArchiveToS3
  <2>4. CASE U!CompleteUpload(a)
    BY <2>4 DEF U!CompleteUpload
  <2>5. CASE U!Crash(a)
    BY <2>5 DEF U!Crash
  <2> QED BY <2>1, <2>2, <2>3, <2>4, <2>5 DEF U!Upload
<1>2. UNCHANGED <<request, accepted>> /\ (faults' = faults \/ Fault)
  BY DEF U!Upload, U!Crash, U!handleReceiveArchive, U!CreateUpload,
     U!UploadArchiveToS3, U!CompleteUpload
<1>3. /\ bucket \subseteq bucket' /\ validated \subseteq validated'
      /\ \A b \in Archives : uploads[b] # "none" => uploads'[b] # "none"
  BY DEF U!Upload, U!Crash, U!handleReceiveArchive, U!CreateUpload,
     U!UploadArchiveToS3, U!CompleteUpload, U!TypeOK
<1> QED BY <1>1, <1>2, <1>3

LEMMA RequestStep ==
  ASSUME U!TypeOK, NEW r \in Translations, NEW valid \in BOOLEAN,
         U!TranslateIf(r, valid)
  PROVE  /\ U!TypeOK' /\ UNCHANGED <<bucket, handler>>
         /\ faults' = faults \/ Fault
         /\ validated \subseteq validated' /\ accepted \subseteq accepted'
         /\ \A b \in Archives : uploads[b] # "none" => uploads'[b] # "none"
<1> USE PartsAssumption
<1> USE DEF U!Fault, U!NoFault, U!Step, U!Inserted
<1>1. U!TypeOK'
  <2> USE DEF U!TypeOK
  <2>1. CASE U!WaitForUploadToComplete(r)
    BY <2>1 DEF U!WaitForUploadToComplete
  <2>2. CASE U!Send(r)
    BY <2>2 DEF U!Send
  <2>3. CASE U!CheckBucketFileExists(r)
    BY <2>3 DEF U!CheckBucketFileExists
  <2>4. CASE U!handleTranslationUpload(r, valid)
    BY <2>4 DEF U!handleTranslationUpload
  <2>5. CASE U!EnsureUpload(r)
    BY <2>5 DEF U!EnsureUpload
  <2>6. CASE U!CreateTranslation(r)
    BY <2>6 DEF U!CreateTranslation
  <2> QED BY <2>1, <2>2, <2>3, <2>4, <2>5, <2>6 DEF U!TranslateIf
<1>2. /\ UNCHANGED <<bucket, handler>>
      /\ faults' = faults \/ Fault
      /\ validated \subseteq validated' /\ accepted \subseteq accepted'
  BY DEF U!TranslateIf, U!WaitForUploadToComplete, U!Send, U!CheckBucketFileExists,
     U!handleTranslationUpload, U!EnsureUpload, U!CreateTranslation
<1>3. \A b \in Archives : uploads[b] # "none" => uploads'[b] # "none"
  BY DEF U!TranslateIf, U!WaitForUploadToComplete, U!Send, U!CheckBucketFileExists,
     U!handleTranslationUpload, U!EnsureUpload, U!CreateTranslation, U!TypeOK
<1> QED BY <1>1, <1>2, <1>3

LEMMA ApiStep ==
  ASSUME TypeOK, U!TypeOK, Api
  PROVE  U!TypeOK' /\ ApiLeaves
<1>1. ASSUME NEW a \in Archives, UploadArchive(a)
      PROVE  U!TypeOK' /\ ApiLeaves
  BY <1>1, UploadStep DEF UploadArchive, Receive, ApiLeaves, Elsewhere, TypeOK, U!TypeOK
<1>2. ASSUME NEW t \in Translations, StartTranslation(t)
      PROVE  U!TypeOK' /\ ApiLeaves
  <2>1. \E valid \in BOOLEAN : U!TranslateIf(t, valid)
    BY <1>2 DEF StartTranslation, ValidatorSays
  <2> QED
    BY <1>2, <2>1, RequestStep DEF StartTranslation, Receive, ApiLeaves, Elsewhere, TypeOK,
       U!TypeOK
<1> QED BY <1>1, <1>2 DEF Api

\* What is found in the bucket stays there, or is expired.
Kept(a) == a \in bucket \/ Expired(a)

FoundInv ==
    \A r \in Translations :
        r \in accepted \/ request[r] \in {"found", "creating", "ensured"} =>
            Kept(ArchiveOf[r])

LEMMA FoundStep ==
  ASSUME U!TypeOK, FoundInv, Api
  PROVE  FoundInv'
<1> USE PartsAssumption DEF U!TypeOK
<1>1. ASSUME NEW a \in Archives, UploadArchive(a)
      PROVE  FoundInv'
  BY <1>1, UploadStep DEF UploadArchive, Receive, FoundInv, Kept, Expired, Ran
<1>2. ASSUME NEW r \in Translations, StartTranslation(r)
      PROVE  FoundInv'
  <2> USE DEF U!TranslateIf, U!WaitForUploadToComplete, U!Send, U!CheckBucketFileExists,
              U!handleTranslationUpload, U!EnsureUpload, U!CreateTranslation, U!Step
  <2>1. PICK valid \in BOOLEAN : U!TranslateIf(r, valid)
    BY <1>2 DEF StartTranslation, ValidatorSays
  <2>2. bucket' = bucket /\ \A a \in Archives : Kept(a)' = Kept(a)
    BY <1>2, <2>1 DEF StartTranslation, Receive, Kept, Expired, Ran
  <2>3. \A q \in Translations \ {r} : request'[q] = request[q]
    BY <2>1
  <2>4. /\ accepted' \subseteq accepted \cup {q \in {r} : request[q] = "ensured"}
        /\ request'[r] \in {"found", "creating", "ensured"} =>
             \/ ArchiveOf[r] \in bucket
             \/ request[r] \in {"found", "creating", "ensured"}
    BY <2>1 DEF U!Exists
  <2> QED BY <2>2, <2>3, <2>4 DEF FoundInv, Kept
<1> QED BY <1>1, <1>2 DEF Api

LEMMA ValidUpload ==
  ASSUME UP!OneTypeEach, U!TypeOK, UP!ValidInv, NEW a \in Archives,
         U!Upload(a) \/ U!Crash(a)
  PROVE  UP!ValidInv'
<1> USE PartsAssumption
<1> USE DEF U!Fault, U!NoFault, U!Advance, U!Inserted, U!BackupTypes, U!TypeOK
<1> DEFINE HasRow(b) == uploads[b] # "none"
           Mattermost(r) == RequestType[r] = "mattermost"
<1>1. validated \subseteq validated' /\ UNCHANGED <<request, accepted>>
  BY UploadStep
<1>2. \A b \in Archives \ {a} : handler'[b] = handler[b] /\ uploads'[b] = uploads[b]
  BY DEF U!Upload, U!Crash, U!handleReceiveArchive, U!CreateUpload,
     U!UploadArchiveToS3, U!CompleteUpload
<1>3. /\ UploadType[a] = "mattermost" /\ handler'[a] \in {"received", "putting",
            "put", "putFailed"} => a \in validated'
      /\ a \notin InBucket
  <2>1. CASE U!handleReceiveArchive(a)
    BY <2>1 DEF U!handleReceiveArchive
  <2>2. CASE U!CreateUpload(a) \/ U!UploadArchiveToS3(a) \/ U!CompleteUpload(a) \/ U!Crash(a)
    BY <1>1, <2>2 DEF U!CreateUpload, U!UploadArchiveToS3, U!CompleteUpload, U!Crash,
       UP!ValidInv
  <2> QED BY <2>1, <2>2 DEF U!Upload
<1>4. ASSUME NEW r \in Translations, Mattermost(r), ArchiveOf[r] = a, HasRow(a)'
      PROVE  a \in validated'
  <2>1. CASE HasRow(a)
    BY <1>1, <1>4, <2>1 DEF UP!ValidInv
  <2>2. CASE U!CreateUpload(a) \/ U!CompleteUpload(a)
    <3>1. /\ handler[a] \in {"received", "put", "putFailed"}
          /\ UploadType[a] = "mattermost"
      BY <1>3, <1>4, <2>2 DEF U!CreateUpload, U!CompleteUpload, UP!OneTypeEach
    <3> QED BY <1>1, <3>1 DEF UP!ValidInv
  <2>3. CASE U!handleReceiveArchive(a) \/ U!UploadArchiveToS3(a) \/ U!Crash(a)
    BY <1>4, <2>1, <2>3 DEF U!handleReceiveArchive, U!UploadArchiveToS3, U!Crash
  <2> QED BY <2>2, <2>3 DEF U!Upload
<1> QED BY <1>1, <1>2, <1>3, <1>4 DEF UP!ValidInv, UP!MattermostIsValidated

LEMMA ValidRequest ==
  ASSUME UP!OneTypeEach, UP!AllValidate, U!TypeOK, UP!ValidInv, NEW r \in Translations,
         NEW valid \in BOOLEAN, U!TranslateIf(r, valid)
  PROVE  UP!ValidInv'
<1> USE PartsAssumption
<1> USE DEF U!Fault, U!NoFault, U!Step, U!Inserted, U!TypeOK
<1> DEFINE HasRow(b) == uploads[b] # "none"
           Mattermost(q) == RequestType[q] = "mattermost"
<1>1. validated \subseteq validated' /\ UNCHANGED handler
  BY RequestStep
<1>2. \A q \in Translations \ {r} : request'[q] = request[q]
  BY DEF U!TranslateIf, U!WaitForUploadToComplete, U!Send, U!CheckBucketFileExists,
     U!handleTranslationUpload, U!EnsureUpload, U!CreateTranslation
<1>3. Mattermost(r) /\ request'[r] \in {"creating", "ensured"} =>
         ArchiveOf[r] \in validated'
  BY <1>1 DEF U!TranslateIf, U!WaitForUploadToComplete, U!Send, U!CheckBucketFileExists,
     U!handleTranslationUpload, U!EnsureUpload, U!CreateTranslation,
     U!SkipsValidation, UP!AllValidate, UP!ValidInv
<1>4. ASSUME NEW q \in Translations, Mattermost(q), HasRow(ArchiveOf[q])'
      PROVE  ArchiveOf[q] \in validated'
  <2>1. CASE HasRow(ArchiveOf[q])
    BY <1>1, <1>4, <2>1 DEF UP!ValidInv
  <2>2. CASE ~HasRow(ArchiveOf[q])
    <3>1. request[r] = "creating" /\ ArchiveOf[q] = ArchiveOf[r]
      BY <1>4, <2>2 DEF U!TranslateIf, U!WaitForUploadToComplete, U!Send,
         U!CheckBucketFileExists, U!handleTranslationUpload, U!EnsureUpload,
         U!CreateTranslation
    <3> QED BY <1>1, <1>4, <3>1 DEF UP!ValidInv, UP!OneTypeEach
  <2> QED BY <2>1, <2>2
<1>5. UP!MattermostIsValidated'
  <2>1. accepted' \subseteq accepted \cup {q \in {r} : request[q] = "ensured"}
    BY DEF U!TranslateIf, U!WaitForUploadToComplete, U!Send, U!CheckBucketFileExists,
       U!handleTranslationUpload, U!EnsureUpload, U!CreateTranslation
  <2> QED BY <1>1, <2>1 DEF UP!ValidInv, UP!MattermostIsValidated
<1> QED BY <1>1, <1>2, <1>3, <1>4, <1>5 DEF UP!ValidInv

LEMMA ValidStep ==
  ASSUME UP!OneTypeEach, UP!AllValidate, U!TypeOK, UP!ValidInv, Api
  PROVE  UP!ValidInv'
BY ValidUpload, ValidRequest DEF Api, UploadArchive, StartTranslation, ValidatorSays

--------------------------------------------------------------------------------
(* The translator: supervise() *)

RowsTyped ==
    /\ translations \in [Translations -> T!Row]
    /\ tpc \in [Translators -> T!Labels]
    /\ tcur \in [Translators -> Translations \cup {NoTranslation}]
    /\ tcopy \in [Translators -> T!Row]
    /\ \A w \in Translators : tpc[w] # "idle" => tcur[w] \in accepted

OneTranslator == \A r, w \in Translators : r = w

\* Where a translation is under way.
Working == {"translating", "completing", "validating", "importing"}

\* A translation is selected once: from the update of StartAt on, the row and
\* the copy that the unlock will write say so.
StartKnown(w) ==
    LET row == translations[tcur[w]]
    IN /\ tpc[w] \in {"selected", "locked"} => ~row.StartAt /\ ~tcopy[w].StartAt
       /\ tpc[w] \in Working => row.StartAt /\ tcopy[w].StartAt
       /\ tpc[w] = "unlocking" /\ row.StartAt => tcopy[w].StartAt

\* What a step of w keeps, or does to the translation in hand.
Advances(w) ==
    /\ \A t \in Translations : translations[t].StartAt => translations'[t].StartAt
    /\ tpc'[w] \in Working =>
         /\ tcur'[w] = tcur[w] /\ tpc[w] \in Working \cup {"locked"}
         /\ tpc[w] = "locked" => RequestType[tcur[w]] \in T!BackupTypes
    /\ tpc[w] = "importing" => tpc'[w] \in {"unlocking", "idle"}

LEMMA TranslationRows ==
  ASSUME NEW row \in T!Row, NEW w \in Translators
  PROVE  /\ T!LockedRow(row, w) \in T!Row
         /\ T!LockedRow(row, w).StartAt <=> row.StartAt
         /\ T!StartedRow(row) \in T!Row /\ T!StartedRow(row).StartAt
         /\ T!CompletedRow(row) \in T!Row
         /\ T!CompletedRow(row).StartAt <=> row.StartAt
         /\ T!UnlockedRow(row) \in T!Row
         /\ T!UnlockedRow(row).StartAt <=> row.StartAt
BY DEF T!Row, T!LockedRow, T!StartedRow, T!CompletedRow, T!UnlockedRow

LEMMA NewTranslationRow == T!NewRow \in T!Row /\ ~T!NewRow.StartAt
BY DEF T!NewRow, T!Row

USE DEF T!Goto, T!Fault, T!NoFault, T!UpdateTranslation

LEMMA TranslatorTyped ==
  ASSUME RowsTyped, accepted \subseteq Translations, NEW w \in Translators,
         T!Supervise(w) \/ T!Crash(w)
  PROVE  RowsTyped' /\ accepted' = accepted /\ (faults' = faults \/ Fault)
<1> USE DEF RowsTyped, T!Labels
<1>1. tpc[w] # "idle" => /\ tcur[w] \in Translations /\ tcur[w] \in accepted
                         /\ translations[tcur[w]] \in T!Row /\ tcopy[w] \in T!Row
  OBVIOUS
<1>2. CASE T!GetTranslationReadyToStart(w)
  BY <1>2 DEF T!GetTranslationReadyToStart, T!ReadyToStart, T!Ready
<1>3. CASE T!WinLock(w)
  <2>1. /\ T!LockedRow(translations[tcur[w]], w) \in T!Row
        /\ T!LockedRow(tcopy[w], w) \in T!Row
    BY <1>1, <1>3, TranslationRows DEF T!WinLock
  <2> QED BY <1>1, <1>3, <2>1 DEF T!WinLock
<1>4. CASE T!LoseLock(w)
  <2>1. T!LockedRow(translations[tcur[w]], w) \in T!Row
    BY <1>1, <1>4, TranslationRows DEF T!LoseLock
  <2> QED BY <1>1, <1>4, <2>1, NewTranslationRow DEF T!LoseLock, T!UpdateFails, T!Return,
             Fault
<1>5. CASE T!MarkStarted(w)
  BY <1>1, <1>5, TranslationRows DEF T!MarkStarted, T!UpdateFails, Fault
<1>6. CASE T!MarkComplete(w)
  BY <1>1, <1>6 DEF T!MarkComplete, T!UpdateFails, Fault
<1>7. CASE T!Translate(w)
  BY <1>1, <1>7, TranslationRows DEF T!Translate
<1>8. CASE T!NewTranslatorFails(w) \/ T!Validate(w) \/ T!CreateImport(w)
  BY <1>1, <1>8 DEF T!NewTranslatorFails, T!Validate, T!CreateImport, Fault
<1>9. CASE T!UnlockTranslation(w)
  BY <1>1, <1>9, TranslationRows, NewTranslationRow DEF T!UnlockTranslation, T!UpdateFails,
     T!Return, Fault
<1>10. CASE T!Crash(w)
  BY <1>1, <1>10, NewTranslationRow DEF T!Crash, T!Return, Fault
<1> QED
  BY <1>2, <1>3, <1>4, <1>5, <1>6, <1>7, <1>8, <1>9, <1>10 DEF T!Supervise

LEMMA TranslatorStep ==
  ASSUME RowsTyped, accepted \subseteq Translations, NEW w \in Translators,
         StartKnown(w), T!Supervise(w) \/ T!Crash(w)
  PROVE  StartKnown(w)' /\ Advances(w)
<1> DEFINE t == tcur[w]
           Rest == \A u \in Translations : translations[u].StartAt => translations'[u].StartAt
<1>1. /\ accepted' = accepted
      /\ tpc[w] # "idle" => t \in Translations /\ translations[t] \in T!Row
                            /\ tcopy[w] \in T!Row
  BY TranslatorTyped DEF RowsTyped
<1>2. ASSUME NEW row \in T!Row, T!UpdateTranslation(t, row) \/ UNCHANGED translations,
             t \in Translations, translations[t].StartAt => row.StartAt
      PROVE  Rest
  BY <1>2 DEF RowsTyped
<1>3. CASE T!GetTranslationReadyToStart(w)
  <2>1. PICK u \in T!ReadyToStart : /\ tcur' = [tcur EXCEPT ![w] = u]
                                    /\ tcopy' = [tcopy EXCEPT ![w] = translations[u]]
    BY <1>3 DEF T!GetTranslationReadyToStart
  <2>2. ~translations[u].StartAt
    BY DEF T!ReadyToStart, T!Ready
  <2>3. /\ tcur'[w] = u /\ tcopy'[w] = translations[u] /\ tpc'[w] = "selected"
        /\ tpc[w] = "idle" /\ UNCHANGED <<translations, faults>>
    BY <1>3, <2>1 DEF T!GetTranslationReadyToStart, RowsTyped
  <2> QED BY <1>1, <2>2, <2>3 DEF StartKnown, Advances, Working
<1>4. CASE T!WinLock(w)
  <2>1. /\ t \in Translations /\ tcopy[w] \in T!Row /\ translations[t] \in T!Row
        /\ tpc[w] = "selected" /\ tpc'[w] = "locked"
        /\ tcur' = tcur /\ faults' = faults
        /\ translations' = [translations EXCEPT ![t] = T!LockedRow(translations[t], w)]
        /\ tcopy' = [tcopy EXCEPT ![w] = T!LockedRow(tcopy[w], w)]
    BY <1>1, <1>4 DEF T!WinLock, RowsTyped
  <2>2. /\ T!LockedRow(translations[t], w) \in T!Row
        /\ T!LockedRow(translations[t], w).StartAt <=> translations[t].StartAt
        /\ T!LockedRow(tcopy[w], w).StartAt <=> tcopy[w].StartAt
    BY <2>1, TranslationRows
  <2>3. Rest
    BY <1>2, <2>1, <2>2
  <2>4. /\ translations'[t].StartAt <=> translations[t].StartAt
        /\ tcopy'[w].StartAt <=> tcopy[w].StartAt
    BY <2>1, <2>2 DEF RowsTyped
  <2> QED BY <1>1, <2>1, <2>3, <2>4 DEF StartKnown, Advances, Working
<1>5. CASE T!LoseLock(w) \/ T!Crash(w) \/ T!UnlockTranslation(w)
  <2>1. /\ t \in Translations /\ tcopy[w] \in T!Row /\ translations[t] \in T!Row
        /\ tpc'[w] = "idle" /\ (faults' = faults \/ T!Fault)
    BY <1>1, <1>5 DEF T!LoseLock, T!Crash, T!UnlockTranslation, T!UpdateFails, T!Return,
       RowsTyped
  <2>2. Rest
    <3>1. CASE T!LoseLock(w)
      BY <1>2, <2>1, <3>1, TranslationRows DEF T!LoseLock, T!UpdateFails
    <3>2. CASE T!Crash(w)
      BY <1>2, <2>1, <3>2 DEF T!Crash
    <3>3. CASE T!UnlockTranslation(w)
      <4>1. translations[t].StartAt => tcopy[w].StartAt
        BY <3>3 DEF T!UnlockTranslation, StartKnown
      <4> QED BY <1>2, <2>1, <3>3, <4>1, TranslationRows DEF T!UnlockTranslation, T!UpdateFails
    <3> QED BY <1>5, <3>1, <3>2, <3>3
  <2> QED BY <1>1, <2>1, <2>2 DEF StartKnown, Advances, Working, Fault
<1>6. CASE T!MarkStarted(w)
  <2>1. /\ t \in Translations /\ tcopy[w] \in T!Row /\ translations[t] \in T!Row
        /\ tpc[w] = "locked" /\ RequestType[t] \in T!BackupTypes
        /\ tcur' = tcur /\ (faults' = faults \/ T!Fault)
        /\ tcopy'[w] = T!StartedRow(tcopy[w])
    BY <1>1, <1>6 DEF T!MarkStarted, T!UpdateFails, RowsTyped
  <2>2. \/ T!UpdateTranslation(t, T!StartedRow(tcopy[w])) /\ tpc'[w] = "translating"
        \/ /\ T!UpdateTranslation(t, T!StartedRow(tcopy[w])) \/ UNCHANGED translations
           /\ tpc'[w] = "unlocking"
    BY <1>6 DEF T!MarkStarted, T!UpdateFails, RowsTyped
  <2>3. Rest
    BY <1>2, <2>1, <2>2, TranslationRows
  <2>4. tpc'[w] = "translating" => translations'[t].StartAt
    BY <2>1, <2>2, TranslationRows DEF RowsTyped
  <2> QED
    BY <1>1, <2>1, <2>2, <2>3, <2>4, TranslationRows DEF StartKnown, Advances, Working, Fault
<1>7. CASE T!MarkComplete(w)
  <2>1. /\ t \in Translations /\ tcopy[w] \in T!Row /\ translations[t] \in T!Row
        /\ tpc[w] = "completing" /\ tcopy[w].StartAt
        /\ tcur' = tcur /\ tcopy' = tcopy /\ (faults' = faults \/ T!Fault)
    BY <1>1, <1>7 DEF T!MarkComplete, T!UpdateFails, StartKnown, Working
  <2>2. \/ T!UpdateTranslation(t, tcopy[w]) /\ tpc'[w] = "validating"
        \/ /\ T!UpdateTranslation(t, tcopy[w]) \/ UNCHANGED translations
           /\ tpc'[w] = "unlocking"
    BY <1>7 DEF T!MarkComplete, T!UpdateFails, RowsTyped
  <2>3. Rest
    BY <1>2, <2>1, <2>2
  <2>4. tpc'[w] = "validating" => translations'[t].StartAt
    BY <2>1, <2>2 DEF RowsTyped
  <2> QED
    BY <1>1, <2>1, <2>2, <2>3, <2>4 DEF StartKnown, Advances, Working, Fault
<1>8. CASE T!NewTranslatorFails(w) \/ T!Translate(w) \/ T!Validate(w) \/ T!CreateImport(w)
  <2>1. /\ t \in Translations /\ tcopy[w] \in T!Row
        /\ UNCHANGED <<tcur, translations>> /\ (faults' = faults \/ T!Fault)
        /\ tpc[w] \in Working \cup {"locked"} /\ tpc'[w] \in Working \cup {"unlocking"}
        /\ tpc[w] = "locked" \/ tpc[w] = "importing" => tpc'[w] = "unlocking"
    BY <1>1, <1>8 DEF T!NewTranslatorFails, T!Translate, T!Validate, T!CreateImport,
       RowsTyped, Working
  <2>2. tcopy' = tcopy \/ tcopy' = [tcopy EXCEPT ![w] = T!CompletedRow(tcopy[w])]
    BY <1>8 DEF T!NewTranslatorFails, T!Translate, T!Validate, T!CreateImport
  <2>3. tcopy'[w].StartAt <=> tcopy[w].StartAt
    BY <2>1, <2>2, TranslationRows DEF RowsTyped
  <2> QED
    BY <1>1, <2>1, <2>3 DEF StartKnown, Advances, Working, Fault
<1> QED BY <1>3, <1>4, <1>5, <1>6, <1>7, <1>8 DEF T!Supervise

--------------------------------------------------------------------------------
(* The translator: the output *)

OutputTyped ==
    /\ stage \in [Translators -> T!Stages]
    /\ parts \in [Translators -> SUBSET T!Parts]
    /\ content \in [Translations -> SUBSET T!Parts]
    /\ failures \in [Translations -> SUBSET (T!Calls \cup {"database", "process"})]

FailuresGrow == \A t \in Translations : failures[t] \subseteq failures'[t]

USE DEF T!Stages, T!Calls, T!Required, T!Enter, T!Has

\* The stages of a Slack translation are no steps of supervise() but its
\* return from Translate().
LEMMA TranslatorSteps ==
  ASSUME NEW w \in Translators, T!SuperviseSlack(w)
  PROVE  \/ T!Supervise(w)
         \/ UNCHANGED T!vars /\ tpc[w] \in {"translating", "unlocking"}
<1>1. CASE T!Plain(w)
  BY <1>1 DEF T!Plain, T!Supervise
<1>2. CASE T!TranslateSlack(w)
  BY <1>2 DEF T!TranslateSlack, T!AtStage, T!MakeWorkdir, T!fetchSlackArchive,
     T!addFilesToSlackArchive, T!TransformSlack, T!createOutputZipfile,
     T!uploadTransformedZip, T!ReturnFromTranslate, T!Supervise
<1>3. CASE T!CompleteTranslation(w) \/ T!ValidateOutput(w) \/ T!UnlockAtEnd(w)
  BY <1>3 DEF T!CompleteTranslation, T!ValidateOutput, T!UnlockAtEnd, T!Supervise
<1>4. CASE T!Cleanup(w)
  BY <1>4 DEF T!Cleanup
<1> QED BY <1>1, <1>2, <1>3, <1>4 DEF T!SuperviseSlack

LEMMA FailureKept ==
  ASSUME OutputTyped, NEW w \in Translators, tcur[w] \in Translations,
         NEW call \in T!Calls \cup {"database", "process"},
         T!Record(w, call) \/ T!Failure(w, call) \/ T!Charge(w, call) \/ T!NoFailure
  PROVE  /\ failures' \in [Translations -> SUBSET (T!Calls \cup {"database", "process"})]
         /\ FailuresGrow
<1>1. CASE failures' = failures
  BY <1>1 DEF OutputTyped, FailuresGrow
<1>2. CASE T!Record(w, call)
  <2>1. failures' = [failures EXCEPT ![tcur[w]] = failures[tcur[w]] \cup {call}]
    BY <1>2 DEF T!Record
  <2> QED BY <2>1 DEF OutputTyped, FailuresGrow
<1> QED BY <1>1, <1>2 DEF T!Failure, T!Charge, T!NoFailure

\* The output in hand is in the bucket, or was; or it could not be opened for the
\* upload.
OutputStored(w) ==
    \/ "open" \in failures[tcur[w]]
    \/ Kept(tcur[w]) /\ content[tcur[w]] = parts[w]

\* What is known of the output of w at each stage of its translation.
OutputInOrder(w) ==
    /\ tpc[w] \in {"idle", "selected", "locked"} => stage[w] = "none"
    /\ tpc[w] # "idle" /\ T!Slack(w) =>
        /\ stage[w] = "mbif" => T!Required \subseteq parts[w]
        /\ stage[w] \in {"zip", "stored", "deferred"} =>
               parts[w] = {} \/ T!Required \subseteq parts[w]
        /\ stage[w] \in {"stored", "deferred"} => OutputStored(w)
        /\ tpc[w] = "completing" => stage[w] = "stored"
        /\ tpc[w] \in {"validating", "importing"} => stage[w] = "deferred"
        /\ tpc[w] = "importing" => T!Required \subseteq parts[w]

\* The stages of a translation that has no output in the bucket yet.
Unstored == {"none", "workdir", "input", "files", "mbif", "zip"}

\* Outputs are put in the bucket, once, and only for the translation under way.
OutputGrows(w) ==
    /\ FailuresGrow /\ bucket \subseteq bucket' /\ bucket' \subseteq Archives
    /\ \A t \in Translations : content'[t] # content[t] =>
         /\ t = tcur[w] /\ tpc[w] = "translating" /\ stage[w] \in Unstored
         /\ content'[t] = {} \/ T!Required \subseteq content'[t]
    /\ tpc'[w] = "translating" /\ stage'[w] \in Unstored =>
         /\ UNCHANGED <<tcur, content>>
         /\ tpc[w] = "translating" => stage[w] \in Unstored
         /\ tpc[w] \in {"locked", "translating"}

LEMMA StageStep ==
  ASSUME RowsTyped, OutputTyped, bucket \subseteq Archives,
         accepted \subseteq Translations, NEW w \in Translators,
         OutputInOrder(w), T!TranslateSlack(w), UNCHANGED outcomes
  PROVE  OutputTyped' /\ OutputInOrder(w)' /\ OutputGrows(w)
<1>1. /\ tpc[w] = "translating" /\ tcur[w] \in Translations /\ T!Slack(w)
      /\ tcur' = tcur
  BY DEF RowsTyped, T!TranslateSlack, T!AtStage, T!MakeWorkdir, T!fetchSlackArchive,
     T!addFilesToSlackArchive, T!TransformSlack, T!createOutputZipfile,
     T!uploadTransformedZip, T!ReturnFromTranslate, T!Translate, T!vars
<1>2. ASSUME NEW call \in T!Calls, T!Failure(w, call) \/ T!NoFailure
      PROVE  /\ failures' \in [Translations -> SUBSET (T!Calls \cup {"database", "process"})]
             /\ FailuresGrow
  BY <1>1, <1>2, FailureKept
<1>3. CASE \/ T!MakeWorkdir(w) \/ T!fetchSlackArchive(w) \/ T!addFilesToSlackArchive(w)
           \/ T!TransformSlack(w) \/ T!createOutputZipfile(w)
  <2>1. UNCHANGED <<tpc, bucket, content>> /\ stage[w] \in Unstored
    BY <1>3 DEF T!MakeWorkdir, T!fetchSlackArchive, T!addFilesToSlackArchive,
       T!TransformSlack, T!createOutputZipfile, T!AtStage, T!vars, Unstored
  <2>2. /\ failures' \in [Translations -> SUBSET (T!Calls \cup {"database", "process"})]
        /\ FailuresGrow
    <3>1. \E call \in T!Calls : T!Failure(w, call) \/ T!NoFailure
      BY <1>3 DEF T!MakeWorkdir, T!fetchSlackArchive, T!addFilesToSlackArchive,
         T!FetchAttachedFiles, T!TransformSlack, T!createOutputZipfile, T!Abort
    <3> QED BY <1>2, <3>1
  <2>3. OutputGrows(w)
    BY <1>1, <2>1, <2>2 DEF OutputGrows
  <2>4. stage'[w] \in {"workdir", "refused", "input", "files", "failed"} =>
           OutputInOrder(w)'
    BY <1>1, <2>1 DEF OutputInOrder
  <2>5. CASE T!MakeWorkdir(w) \/ T!fetchSlackArchive(w) \/ T!addFilesToSlackArchive(w)
    <3>1. stage'[w] \in {"workdir", "refused", "input", "files", "failed"}
      BY <2>5 DEF T!MakeWorkdir, T!fetchSlackArchive, T!addFilesToSlackArchive, T!Abort,
         OutputTyped
    <3>2. Export[tcur[w]] \in SUBSET T!Parts
      BY <1>1, PartsAssumption
    <3>3. OutputTyped'
      BY <2>1, <2>2, <2>5, <3>2 DEF T!MakeWorkdir, T!fetchSlackArchive,
         T!addFilesToSlackArchive, T!FetchAttachedFiles, T!Abort, OutputTyped
    <3> QED BY <2>3, <2>4, <3>1, <3>3
  <2>6. CASE T!TransformSlack(w)
    <3>1. OutputTyped'
      BY <2>1, <2>2, <2>6 DEF T!TransformSlack, T!Abort, OutputTyped
    <3> QED
      BY <1>1, <2>1, <2>3, <2>4, <2>6, <3>1 DEF T!TransformSlack, T!Abort, OutputTyped,
         T!validateIntermediate, OutputInOrder
  <2>7. CASE T!createOutputZipfile(w)
    <3>1. \/ /\ stage'[w] = "zip"
             /\ parts'[w] \in {parts[w], parts[w] \cap T!Required, {}}
          \/ stage'[w] = "failed"
      BY <2>7 DEF T!createOutputZipfile, T!Abort, OutputTyped
    <3>2. T!Required \subseteq parts[w]
      BY <1>1, <2>7 DEF T!createOutputZipfile, T!AtStage, OutputInOrder
    <3>3. OutputTyped'
      BY <2>1, <2>2, <2>7 DEF T!createOutputZipfile, T!Abort, OutputTyped
    <3>4. CASE stage'[w] = "zip"
      BY <1>1, <2>1, <2>3, <3>1, <3>2, <3>3, <3>4 DEF OutputInOrder
    <3> QED BY <2>3, <2>4, <3>1, <3>3, <3>4
  <2> QED BY <1>3, <2>5, <2>6, <2>7
<1>4. CASE T!uploadTransformedZip(w)
  <2>1. /\ UNCHANGED tpc /\ stage[w] = "zip"
        /\ bucket \subseteq bucket' /\ bucket' \subseteq Archives
        /\ \A t \in Translations \ {tcur[w]} : content'[t] = content[t]
        /\ content' \in [Translations -> SUBSET T!Parts]
        /\ content'[tcur[w]] \in {content[tcur[w]], parts[w]}
        /\ stage'[w] \notin Unstored
    BY <1>1, <1>4 DEF T!uploadTransformedZip, T!Abort, T!Stored, T!NothingStored, T!AtStage,
       T!vars, OutputTyped, Unstored
  <2>2. /\ failures' \in [Translations -> SUBSET (T!Calls \cup {"database", "process"})]
        /\ FailuresGrow
    BY <1>2, <1>4 DEF T!uploadTransformedZip, T!Abort
  <2>3. OutputGrows(w)
    <3>1. parts[w] = {} \/ T!Required \subseteq parts[w]
      BY <1>1, <2>1 DEF OutputInOrder
    <3> QED BY <1>1, <2>1, <2>2, <3>1 DEF OutputGrows, Unstored
  <2>4. OutputTyped'
    BY <1>4, <2>1, <2>2 DEF T!uploadTransformedZip, T!Abort, OutputTyped
  <2>5. CASE stage'[w] = "failed"
    BY <1>1, <2>1, <2>3, <2>4, <2>5 DEF OutputInOrder
  <2>6. CASE stage'[w] # "failed"
    <3>1. /\ stage'[w] = "stored" /\ parts' = parts
          /\ T!Stored(w) \/ T!Failure(w, "open")
      BY <1>4, <2>6 DEF T!uploadTransformedZip, T!Abort, OutputTyped
    <3>2. OutputStored(w)'
      <4>1. CASE T!Stored(w)
        BY <1>1, <3>1, <4>1 DEF T!Stored, OutputStored, OutputTyped, Kept
      <4>2. CASE T!Failure(w, "open")
        BY <1>1, <4>2 DEF T!Failure, T!Record, OutputStored, OutputTyped
      <4> QED BY <3>1, <4>1, <4>2
    <3> QED BY <1>1, <2>1, <2>3, <2>4, <3>1, <3>2 DEF OutputInOrder
  <2> QED BY <2>5, <2>6
<1>5. CASE T!ReturnFromTranslate(w)
  <2>1. /\ UNCHANGED <<stage, parts, bucket, content>>
        /\ tpc'[w] \in {"completing", "unlocking"}
        /\ tpc'[w] = "completing" => stage[w] = "stored"
    BY <1>5 DEF T!ReturnFromTranslate
  <2>2. /\ failures' \in [Translations -> SUBSET (T!Calls \cup {"database", "process"})]
        /\ FailuresGrow
    BY <1>2, <1>5 DEF T!ReturnFromTranslate, T!RemoveWorkdir, T!NoFailure
  <2>3. OutputStored(w) => OutputStored(w)'
    BY <1>1, <2>1, <2>2 DEF OutputStored, FailuresGrow, Kept, Expired, Ran
  <2>4. OutputTyped' /\ OutputGrows(w)
    BY <2>1, <2>2 DEF OutputTyped, OutputGrows
  <2> QED BY <1>1, <2>1, <2>3, <2>4 DEF OutputInOrder, T!Slack
<1> QED BY <1>3, <1>4, <1>5 DEF T!TranslateSlack

\* The supervisor's own steps leave the output alone; the one that imports it
\* has had it validated.
LEMMA SuperviseStep ==
  ASSUME RowsTyped, OutputTyped, bucket \subseteq Archives,
         accepted \subseteq Translations, NEW w \in Translators,
         OutputInOrder(w), UNCHANGED outcomes,
         \/ T!Plain(w) \/ T!CompleteTranslation(w) \/ T!ValidateOutput(w)
         \/ T!Cleanup(w) \/ T!UnlockAtEnd(w) \/ T!Kill(w)
  PROVE  OutputTyped' /\ OutputInOrder(w)' /\ OutputGrows(w)
<1> DEFINE FailuresTyped ==
             failures \in [Translations -> SUBSET (T!Calls \cup {"database", "process"})]
<1>1. UNCHANGED <<bucket, content>>
  BY DEF T!Plain, T!CompleteTranslation, T!ValidateOutput, T!Cleanup, T!UnlockAtEnd,
     T!Kill, T!ForgetTranslation
<1>2. tpc[w] # "idle" => tcur[w] \in Translations
  BY DEF RowsTyped
<1>3. FailuresTyped' /\ FailuresGrow
  <2>1. CASE tpc[w] = "idle"
    <3>1. T!GetTranslationReadyToStart(w) /\ T!Plain(w)
      BY <2>1 DEF T!Plain, T!CompleteTranslation, T!ValidateOutput, T!Cleanup,
         T!UnlockAtEnd, T!Kill, T!WinLock, T!LoseLock, T!NewTranslatorFails,
         T!MarkStarted, T!CreateImport, T!Translate, T!MarkComplete, T!Validate,
         T!UnlockTranslation, T!Crash
    <3>2. T!NoFailure
      BY <3>1 DEF T!Plain, T!Charge, T!GetTranslationReadyToStart
    <3> QED BY <3>2 DEF T!NoFailure, OutputTyped, FailuresGrow
  <2>2. CASE tpc[w] # "idle"
    <3>1. \E call \in T!Calls \cup {"database", "process"} :
             T!Failure(w, call) \/ T!Charge(w, call) \/ T!NoFailure
      BY DEF T!Plain, T!CompleteTranslation, T!ValidateOutput, T!Cleanup,
         T!UnlockAtEnd, T!Kill
    <3> QED BY <1>2, <2>2, <3>1, FailureKept
  <2> QED BY <2>1, <2>2
<1>4. OutputGrows(w)
  <2>1. tpc'[w] = "translating" => tpc[w] = "locked" /\ tcur' = tcur
    <3>1. CASE T!Plain(w)
      BY <3>1 DEF T!Plain, T!GetTranslationReadyToStart, T!WinLock, T!LoseLock, T!Return,
         T!NewTranslatorFails, T!MarkStarted, T!CreateImport, T!Translate,
         T!MarkComplete, T!Validate, RowsTyped
    <3>2. CASE \/ T!CompleteTranslation(w) \/ T!ValidateOutput(w)
               \/ T!Cleanup(w) \/ T!UnlockAtEnd(w) \/ T!Kill(w)
      BY <3>2 DEF T!CompleteTranslation, T!MarkComplete, T!ValidateOutput, T!Validate,
         T!Cleanup, T!UnlockAtEnd, T!UnlockTranslation, T!Kill, T!Crash, T!Return,
         T!vars, RowsTyped
    <3> QED BY <3>1, <3>2
  <2> QED BY <1>1, <1>3, <2>1 DEF OutputGrows
<1>5. OutputTyped'
  <2>1. /\ stage' \in [Translators -> T!Stages]
        /\ parts' \in [Translators -> SUBSET T!Parts]
    BY DEF T!Plain, T!CompleteTranslation, T!ValidateOutput, T!Cleanup, T!UnlockAtEnd,
       T!Kill, T!ForgetTranslation, OutputTyped
  <2> QED BY <1>1, <1>3, <2>1 DEF OutputTyped
<1>6. ASSUME tcur[w] \in Translations, tcur' = tcur, parts' = parts
      PROVE  OutputStored(w) => OutputStored(w)'
  BY <1>1, <1>3, <1>6 DEF OutputStored, FailuresGrow, Kept, Expired, Ran
<1>7. CASE T!Plain(w)
  <2>1. CASE T!CreateImport(w)
    <3>1. /\ tpc[w] = "importing" /\ tpc'[w] = "unlocking" /\ tcur' = tcur
          /\ tcur[w] \in Translations /\ UNCHANGED <<stage, parts>>
      BY <1>2, <1>7, <2>1 DEF T!Plain, T!CreateImport, RowsTyped
    <3> QED BY <1>4, <1>5, <1>6, <3>1 DEF OutputInOrder, T!Slack
  <2>2. CASE \/ T!GetTranslationReadyToStart(w) \/ T!WinLock(w) \/ T!LoseLock(w)
             \/ T!NewTranslatorFails(w) \/ T!MarkStarted(w)
    <3>1. /\ tpc[w] \in {"idle", "selected", "locked"} /\ stage' = stage
          /\ tpc'[w] \in {"idle", "selected", "locked", "translating", "unlocking"}
      BY <1>7, <2>2 DEF T!Plain, RowsTyped, T!GetTranslationReadyToStart, T!WinLock,
         T!LoseLock, T!Return, T!NewTranslatorFails, T!MarkStarted
    <3> QED BY <1>4, <1>5, <3>1 DEF OutputInOrder
  <2>3. CASE (T!Translate(w) \/ T!MarkComplete(w) \/ T!Validate(w)) /\ ~T!Slack(w)
    <3>1. ~T!Slack(w)' /\ tpc'[w] \notin {"idle", "selected", "locked"}
      BY <2>3 DEF T!Translate, T!MarkComplete, T!Validate, T!Slack, RowsTyped
    <3> QED BY <1>4, <1>5, <3>1 DEF OutputInOrder
  <2> QED BY <1>7, <2>1, <2>2, <2>3 DEF T!Plain
<1>8. CASE T!CompleteTranslation(w)
  <2>1. /\ tpc[w] = "completing" /\ tpc'[w] \in {"validating", "unlocking"}
        /\ tcur[w] \in Translations /\ T!Slack(w) /\ tcur' = tcur /\ parts' = parts
        /\ IF tpc'[w] = "validating" THEN stage'[w] = "deferred" ELSE stage' = stage
    BY <1>2, <1>8 DEF T!CompleteTranslation, T!MarkComplete, RowsTyped, OutputTyped
  <2> QED BY <1>4, <1>5, <1>6, <2>1 DEF OutputInOrder, T!Slack
<1>9. CASE T!ValidateOutput(w)
  <2>1. /\ tpc[w] = "validating" /\ tpc'[w] \in {"importing", "unlocking"}
        /\ tcur[w] \in Translations /\ T!Slack(w) /\ tcur' = tcur
        /\ UNCHANGED <<stage, parts>>
        /\ tpc'[w] = "importing" => parts[w] # {}
    BY <1>2, <1>9 DEF T!ValidateOutput, T!Validate, T!Acceptable, RowsTyped
  <2> QED BY <1>4, <1>5, <1>6, <2>1 DEF OutputInOrder, T!Slack
<1>10. CASE T!Cleanup(w)
  <2>1. tpc'[w] = "unlocking" /\ stage'[w] = "none"
    BY <1>10 DEF T!Cleanup, OutputTyped, T!vars
  <2> QED BY <1>4, <1>5, <2>1 DEF OutputInOrder
<1>11. CASE T!UnlockAtEnd(w) \/ T!Kill(w)
  <2>1. tpc'[w] = "idle" /\ stage'[w] = "none"
    BY <1>11 DEF T!UnlockAtEnd, T!UnlockTranslation, T!Kill, T!Crash, T!Return,
       T!ForgetTranslation, RowsTyped, OutputTyped
  <2> QED BY <1>4, <1>5, <2>1 DEF OutputInOrder
<1> QED BY <1>7, <1>8, <1>9, <1>10, <1>11

--------------------------------------------------------------------------------
(* The parts together *)

PartsTyped == TypeOK /\ U!TypeOK /\ RowsTyped

Translating(w) == TranslateOne(w) \/ StopTranslating(w)

LEMMA TranslatingTyped ==
  ASSUME PartsTyped, NEW w \in Translators, Translating(w)
  PROVE  /\ Elsewhere /\ RowsTyped'
         /\ UNCHANGED <<uploads, handler, request, accepted, validated>>
         /\ T!SuperviseSlack(w) \/ T!Kill(w)
<1>1. /\ T!SuperviseSlack(w) \/ T!Kill(w)
      /\ UNCHANGED <<imports, session, installation, provisioner, upload>>
      /\ \/ created' = created
         \/ \E i \in Imports \ created : created' = created \cup {i}
  BY DEF Translating, TranslateOne, StopTranslating
<1>2. accepted \subseteq Translations /\ bucket \subseteq Archives
  BY DEF PartsTyped, TypeOK, U!TypeOK
<1>3. T!Supervise(w) \/ T!Crash(w) \/ UNCHANGED T!vars
  BY <1>1, TranslatorSteps DEF T!Kill
<1>4. RowsTyped' /\ (faults' = faults \/ Fault)
  <2>1. CASE UNCHANGED T!vars
    BY <2>1 DEF T!vars, RowsTyped, PartsTyped
  <2> QED BY <1>2, <1>3, <2>1, TranslatorTyped DEF PartsTyped
<1>5. bucket \subseteq bucket' /\ bucket' \subseteq Archives
  <2>1. CASE bucket' = bucket
    BY <1>2, <2>1
  <2>2. CASE T!uploadTransformedZip(w)
    <3>1. tcur[w] \in Translations
      BY <1>2, <2>2 DEF T!uploadTransformedZip, T!AtStage, RowsTyped, PartsTyped
    <3> QED BY <1>2, <2>2, <3>1 DEF T!uploadTransformedZip, T!Stored, T!NothingStored
  <2> QED
    BY <1>1, <2>1, <2>2 DEF T!SuperviseSlack, T!Plain, T!TranslateSlack,
       T!CompleteTranslation, T!ValidateOutput, T!Cleanup, T!UnlockAtEnd, T!Kill,
       T!ForgetTranslation, T!MakeWorkdir, T!fetchSlackArchive,
       T!addFilesToSlackArchive, T!TransformSlack, T!createOutputZipfile,
       T!ReturnFromTranslate
<1> QED BY <1>1, <1>4, <1>5 DEF Elsewhere

\* A step of the whole is one of the import half or, for it, one of another
\* part.
LEMMA PipelineSteps ==
  ASSUME PartsTyped, [PipelineNext]_awat
  PROVE  PartsTyped' /\ (Elsewhere \/ [Next]_vars)
<1>1. TypeOK /\ U!TypeOK /\ RowsTyped
  BY DEF PartsTyped
<1>2. ASSUME Api
      PROVE  PartsTyped' /\ Elsewhere
  <2>1. U!TypeOK' /\ ApiLeaves
    BY <1>1, <1>2, ApiStep
  <2>2. TypeOK'
    BY <1>1, <2>1, ElsewhereTyped DEF ApiLeaves
  <2>3. RowsTyped'
    BY <1>1, <2>1 DEF ApiLeaves, RowsTyped
  <2> QED BY <2>1, <2>2, <2>3 DEF PartsTyped, ApiLeaves
<1>3. ASSUME NEW w \in Translators, Translating(w)
      PROVE  PartsTyped' /\ Elsewhere
  <2>1. /\ Elsewhere /\ RowsTyped'
        /\ UNCHANGED <<uploads, handler, request, accepted, validated>>
    BY <1>3, TranslatingTyped
  <2>2. TypeOK'
    BY <1>1, <2>1, ElsewhereTyped
  <2>3. U!TypeOK'
    BY <1>1, <2>1, <2>2 DEF U!TypeOK, TypeOK
  <2> QED BY <2>1, <2>2, <2>3 DEF PartsTyped
<1>4. ASSUME [Next]_vars, UNCHANGED <<upload, translation>>
      PROVE  PartsTyped'
  <2>1. TypeOK'
    BY <1>1, <1>4, TypeStep
  <2>2. U!TypeOK' /\ RowsTyped'
    BY <1>1, <1>4, <2>1 DEF U!TypeOK, TypeOK, RowsTyped
  <2> QED BY <2>1, <2>2 DEF PartsTyped
<1>5. CASE UNCHANGED awat
  BY <1>4, <1>5 DEF awat
<1>6. CASE ImportStep /\ UNCHANGED <<upload, translation>>
  BY <1>4, <1>6, ImportStepIsNext
<1> QED BY <1>2, <1>3, <1>5, <1>6 DEF PipelineNext, Api, Translating

LEMMA PipelineTyped == PipelineSpec => []PartsTyped
<1>1. PipelineInit => PartsTyped
  <2> SUFFICES ASSUME PipelineInit
               PROVE  PartsTyped
    OBVIOUS
  <2>1. TypeOK
    BY RestTyped, PartsAssumption DEF PipelineInit, U!Init
  <2>2. U!TypeOK
    BY PartsAssumption DEF PipelineInit, U!Init, U!TypeOK
  <2>3. RowsTyped
    BY NewTranslationRow DEF PipelineInit, T!SlackAtRest, T!Init, RowsTyped, T!Labels
  <2> QED BY <2>1, <2>2, <2>3 DEF PartsTyped
<1> QED BY <1>1, PipelineSteps, PTL DEF PipelineSpec

--------------------------------------------------------------------------------
(* What the parts guarantee, in the whole *)

LEMMA PipelineFresh ==
  ASSUME OneSupervisor
  PROVE  PipelineSpec => [](PartsTyped /\ FreshInv)
<1>1. PipelineInit => FreshInv
  BY FreshInit DEF PipelineInit
<1>2. PartsTyped /\ FreshInv /\ [PipelineNext]_awat => FreshInv'
  BY PipelineSteps, FreshStep, ElsewhereFresh DEF PartsTyped
<1> QED BY <1>1, <1>2, PipelineTyped, PTL DEF PipelineSpec

LEMMA PipelineSpent ==
  ASSUME OneSupervisor, OneProvisioner
  PROVE  PipelineSpec => []SpentInv
<1>1. PipelineInit => SpentInv
  BY SpentInit DEF PipelineInit
<1>2. PartsTyped /\ FreshInv /\ SpentInv /\ [PipelineNext]_awat => SpentInv'
  BY PipelineSteps, SpentStep, ElsewhereSpent DEF PartsTyped
<1> QED BY <1>1, <1>2, PipelineFresh, PTL DEF PipelineSpec

LEMMA PipelinePhases ==
  ASSUME OneSupervisor, OneProvisioner, OwnInstallations
  PROVE  PipelineSpec => []PhaseInv
<1>1. PipelineInit => PhaseInv
  BY PhaseInit DEF PipelineInit
<1>2. PartsTyped /\ FreshInv /\ SpentInv /\ PhaseInv /\ [PipelineNext]_awat => PhaseInv'
  BY PipelineSteps, PhaseStep, ElsewherePhase DEF PartsTyped
<1> QED BY <1>1, <1>2, PipelineFresh, PipelineSpent, PTL DEF PipelineSpec

\* With one import supervisor, one provisioner and an installation for each
\* import, a run is on only where the installation is adjusted for it, while
\* the API and the translator go on storing archives, rows and imports: none of
\* what they share with the import half disturbs it.
THEOREM PipelineIsFit ==
  ASSUME OneSupervisor, OneProvisioner, OwnInstallations
  PROVE  PipelineSpec => []FitWhileRunning
BY PhaseIsFit, PipelinePhases, PTL

\* With one import supervisor and an installation for each import, no override
\* and no enlarged size is left when an import succeeds, wherever its archive
\* comes from.
THEOREM PipelineIsReverted ==
  ASSUME OneSupervisor, OwnInstallations
  PROVE  PipelineSpec => []SucceededIsReverted
<1>1. PipelineInit => RevertInv
  BY RevertInit DEF PipelineInit
<1>2. PartsTyped /\ FreshInv /\ RevertInv /\ [PipelineNext]_awat => RevertInv'
  BY PipelineSteps, RevertStep, ElsewhereReverted DEF PartsTyped
<1> QED BY <1>1, <1>2, RevertedIsReverted, PipelineFresh, PTL DEF PipelineSpec

LEMMA PipelineCause == PipelineSpec => []CauseInv
<1>1. PipelineInit => CauseInv
  BY CauseInit DEF PipelineInit
<1>2. PartsTyped /\ CauseInv /\ [PipelineNext]_awat => CauseInv'
  BY PipelineSteps, CauseStep, ElsewhereCause DEF PartsTyped
<1> QED BY <1>1, <1>2, PipelineTyped, PTL DEF PipelineSpec

\* Wherever an import comes from, it fails only if a run of it did or its
\* installation is gone, for any number of supervisors and provisioners.
THEOREM PipelineFailures == PipelineSpec => []FailedForCause
<1>1. CauseInv => FailedForCause
  BY DEF CauseInv, RowsJustified, Justified, FailedForCause
<1> QED BY <1>1, PipelineCause, PTL

\* With an installation for each import, what is translated and stored succeeds
\* only after a run of its own.
THEOREM PipelineSuccess ==
  ASSUME OwnInstallations
  PROVE  PipelineSpec => []SucceededMeansRan
<1>1. CauseInv => SucceededMeansRan
  BY DEF CauseInv, RowsJustified, Justified, SucceededMeansRan, SiteRan, OwnInstallations
<1> QED BY <1>1, PipelineCause, PTL

\* Through any failure of the upload, the translation and the import, no stored
\* import is started again after a run of it, with one supervisor and one
\* provisioner.
THEOREM PipelineRunsOnce ==
  ASSUME OneSupervisor, OneProvisioner
  PROVE  PipelineSpec => RunOnce
<1>1. PartsTyped /\ FreshInv /\ SpentInv /\ [PipelineNext]_awat =>
        [\A p \in Provisioners :
           ppc[p] = "claimed" /\ ppc'[p] = "running" =>
               /\ ~Ran(work[p])
               /\ \A q \in Provisioners : work[q] = work[p] => ppc[q] # "running"]_vars
  BY DEF SpentInv, WorkSpent, OneProvisioner
<1> QED BY <1>1, PipelineFresh, PipelineSpent, PTL DEF PipelineSpec, RunOnce

\* With one supervisor, a claim that the table shows is its provisioner's in
\* the whole too, unless a call of any part has failed.
THEOREM PipelineClaims ==
  ASSUME OneSupervisor
  PROVE  PipelineSpec => []ClaimIsHeld
<1>1. PipelineInit => ClaimInv
  BY ClaimInit DEF PipelineInit
<1>2. PartsTyped /\ FreshInv /\ ClaimInv /\ [PipelineNext]_awat => ClaimInv'
  BY PipelineSteps, ClaimStep, ElsewhereClaim DEF PartsTyped
<1> QED BY <1>1, <1>2, ClaimIsOfHolder, PipelineFresh, PTL DEF PipelineSpec, PartsTyped

\* Unless a call of any part has failed, an API that a customer has locked is
\* unlocked only under a supervisor that will lock it again.
THEOREM PipelineRelocks == PipelineSpec => []APIRelocked
<1>1. PipelineInit => APIInv
  BY APIInit DEF PipelineInit
<1>2. PartsTyped /\ APIInv /\ [PipelineNext]_awat => APIInv'
  BY PipelineSteps, APIStep, ElsewhereAPI DEF PartsTyped
<1>3. APIInv => APIRelocked
  BY DEF APIInv
<1> QED BY <1>1, <1>2, <1>3, PipelineTyped, PTL DEF PipelineSpec

\* The whole implements what clients see of an import: its first state is shown
\* when the translator stores it, and the API and the translator show no other.
THEOREM PipelineLifecycle ==
  ASSUME OneSupervisor, OneProvisioner, OwnInstallations, Deletable = {}
  PROVE  PipelineSpec => ImplementsLifecycle
<1>1. PipelineInit => Undeleted /\ Lifecycle!Init
  BY DEF PipelineInit, AtRest, Ran, Undeleted, Lifecycle!Init, Shown
<1>2. PartsTyped /\ Undeleted /\ [PipelineNext]_awat => Undeleted'
  BY PipelineSteps, UndeletedStep DEF PartsTyped, Elsewhere, Undeleted
<1>3. PartsTyped /\ FreshInv /\ PhaseInv /\ Undeleted /\ [PipelineNext]_awat =>
        [Lifecycle!Next]_(Lifecycle!vars)
  BY PipelineSteps, LifecycleStep, ElsewhereShown DEF PartsTyped
<1> QED BY <1>1, <1>2, <1>3, PipelineFresh, PipelinePhases, PTL
        DEF PipelineSpec, ImplementsLifecycle, Lifecycle!Spec

\* The API's handlers are the only ones that touch what they keep.
LEMMA PipelineUpload ==
  ASSUME PartsTyped, [PipelineNext]_awat, ~Api
  PROVE  UNCHANGED <<uploads, handler, request, accepted, validated>>
BY TranslatingTyped DEF PipelineNext, Api, Translating, awat

LEMMA PipelineValid ==
  ASSUME UP!OneTypeEach, UP!AllValidate
  PROVE  PipelineSpec => []UP!ValidInv
<1>1. PipelineInit => UP!ValidInv
  BY PartsAssumption DEF PipelineInit, U!Init, UP!ValidInv, UP!MattermostIsValidated
<1>2. PartsTyped /\ UP!ValidInv /\ [PipelineNext]_awat => UP!ValidInv'
  <2> SUFFICES ASSUME PartsTyped, UP!ValidInv, [PipelineNext]_awat
               PROVE  UP!ValidInv'
    OBVIOUS
  <2>1. CASE ~Api
    BY <2>1, PipelineUpload DEF UP!ValidInv, UP!MattermostIsValidated
  <2> QED BY <2>1, ValidStep DEF PartsTyped
<1> QED BY <1>1, <1>2, PipelineTyped, PTL DEF PipelineSpec

--------------------------------------------------------------------------------
(* The cleanup of another import *)

\* Who keeps import data deletes none.
CleanupInv == \A s \in Supervisors : pc[s] = "deleteBundle" => ~KeepImportData

LEMMA CleanupStep ==
  ASSUME TypeOK, CleanupInv, [Next]_vars
  PROVE  CleanupInv'
<1>1. ASSUME NEW s \in Supervisors, Supervise(s) \/ Crash(s)
      PROVE  CleanupInv'
  <2>1. \A r \in Supervisors \ {s} : pc'[r] = pc[r]
    BY <1>1, OthersStay
  <2>2. pc'[s] = "deleteBundle" => ~KeepImportData
    BY <1>1 DEF Supervise, GetUnlockedImportPendingWork, WinLock, LoseLock, FetchFails,
       transitionImport, InstallationDeleted, transitionImportRequested,
       transitionImportInstallationPreAdjustment, transitionImportInProgress,
       transitionImportComplete, transitionImportInstallationPostAdjustment,
       UnlockAPIForInstallation, UpdateInstallation, LockAPIForInstallation,
       SaveCompleteAt, DeleteObject, SaveState, UnlockImport, Crash, FinishSupervise,
       MoveTo, Stay, Adjust, AfterPatch, TypeOK
  <2> QED BY <2>1, <2>2 DEF CleanupInv
<1>2. CASE UNCHANGED session
  BY <1>2 DEF CleanupInv
<1> QED BY <1>1, <1>2, OtherProvisioners DEF Next, vars, Reconcile, Delete, CreateImport

\* What the import half takes out of the bucket is expired.
LEMMA ImportKept ==
  ASSUME OwnInstallations, TypeOK, CauseInv, CleanupInv, ImportStep,
         NEW a \in Archives, Kept(a)
  PROVE  Kept(a)'
<1>1. \A i \in Imports : Ran(i) => Ran(i)'
  <2>1. CASE UNCHANGED outcomes
    BY <2>1 DEF Ran
  <2>2. CASE HistoryGrows
    BY <2>2, CauseKept
  <2> QED BY <2>1, <2>2, SuperviseHistory, ProvisionHistory
          DEF ImportStep, Reconcile, Delete, provisioner
<1>2. Expired(a) => Expired(a)'
  BY <1>1 DEF Expired
<1>3. CASE a \in bucket \ bucket'
  <2>1. PICK s \in Supervisors : DeleteObject(s)
    BY <1>3, Deletion DEF ImportStep
  <2>2. ~KeepImportData
    BY <2>1 DEF DeleteObject, CleanupInv
  <2>3. PICK i \in Imports : TranslationOf[i] = a /\ SiteRan(i)
    BY <1>3, <2>1, DeletionHasCause
  <2> QED BY <1>2, <2>2, <2>3 DEF SiteRan, OwnInstallations, Expired, Kept
<1> QED BY <1>2, <1>3 DEF Kept

LEMMA PipelineCleanup == PipelineSpec => []CleanupInv
<1>1. PipelineInit => CleanupInv
  BY DEF PipelineInit, AtRest, CleanupInv
<1>2. PartsTyped /\ CleanupInv /\ [PipelineNext]_awat => CleanupInv'
  <2>1. CleanupInv /\ Elsewhere => CleanupInv'
    BY DEF CleanupInv, Elsewhere
  <2> QED BY <2>1, PipelineSteps, CleanupStep DEF PartsTyped
<1> QED BY <1>1, <1>2, PipelineTyped, PTL DEF PipelineSpec

\* An archive that a translation was accepted for stays until it is expired.
LEMMA PipelineFound ==
  ASSUME OwnInstallations
  PROVE  PipelineSpec => []FoundInv
<1>1. PipelineInit => FoundInv
  BY DEF PipelineInit, U!Init, FoundInv
<1>2. /\ PartsTyped /\ CauseInv /\ CleanupInv /\ FoundInv
      /\ [PipelineNext]_awat
      => FoundInv'
  <2> SUFFICES ASSUME PartsTyped, CauseInv, CleanupInv, FoundInv, [PipelineNext]_awat
               PROVE  FoundInv'
    OBVIOUS
  <2>1. ASSUME ~Api
        PROVE  \A a \in Archives : Kept(a) => Kept(a)'
    <3>1. CASE \E w \in Translators : Translating(w)
      BY <3>1, TranslatingTyped DEF Elsewhere, Kept, Expired, Ran
    <3>2. CASE UNCHANGED awat
      BY <3>2 DEF awat, vars, Kept, Expired, Ran
    <3>3. CASE ImportStep
      BY <3>3, ImportKept DEF PartsTyped
    <3> QED BY <2>1, <3>1, <3>2, <3>3 DEF PipelineNext, Api, Translating
  <2>2. CASE ~Api
    BY <2>1, <2>2, PipelineUpload, PartsAssumption DEF FoundInv
  <2> QED BY <2>2, FoundStep DEF PartsTyped
<1> QED BY <1>1, <1>2, PipelineTyped, PipelineCause, PipelineCleanup, PTL DEF PipelineSpec

--------------------------------------------------------------------------------
(* From the upload to the run *)

OutputKept(t) == \/ "open" \in failures[t]
                 \/ Kept(t) /\ T!Required \subseteq content[t]

Imported(t) == \E i \in created : TranslationOf[i] = t

\* What is under way has no import yet.
WorkIsNew(w) ==
    tpc[w] \in Working => ~Imported(tcur[w]) /\ RequestType[tcur[w]] \in T!BackupTypes

\* An import is of a translation that was accepted and begun, and whose output,
\* if it has one, was stored.
ImportsOfStarted ==
    \A i \in created :
        LET t == TranslationOf[i]
        IN /\ t \in accepted /\ translations[t].StartAt
           /\ RequestType[t] \in T!BackupTypes
           /\ RequestType[t] = "slack" => OutputKept(t)

\* An output that can be read is whole, and so is one that a restart has found.
OutputsWhole ==
    \A t \in Translations :
        /\ content[t] # {} => translations[t].StartAt /\ T!Required \subseteq content[t]
        /\ t \in validated => T!Required \subseteq content[t]

\* It is written once.
NotYetStored(w) ==
    tpc[w] = "translating" /\ stage[w] \in Unstored => content[tcur[w]] = {}

ReadyInv ==
    /\ OutputTyped /\ ImportsOfStarted /\ OutputsWhole
    /\ \A w \in Translators :
         StartKnown(w) /\ WorkIsNew(w) /\ OutputInOrder(w) /\ NotYetStored(w)

LEMMA TranslatingReady ==
  ASSUME OneTranslator, PartsTyped, ReadyInv, NEW w \in Translators, Translating(w)
  PROVE  ReadyInv'
<1> DEFINE t == tcur[w]
<1>1. /\ T!SuperviseSlack(w) \/ T!Kill(w)
      /\ UNCHANGED <<accepted, validated, outcomes>>
      /\ created \subseteq created'
      /\ \A i \in created' \ created :
            i \in Imports /\ TranslationOf[i] = t /\ tpc[w] = "importing"
  BY TranslatingTyped DEF Elsewhere, Translating, TranslateOne, StopTranslating
<1>2. /\ RowsTyped /\ accepted \subseteq Translations /\ bucket \subseteq Archives
      /\ created \subseteq Imports
      /\ OutputTyped /\ StartKnown(w) /\ WorkIsNew(w) /\ OutputInOrder(w)
      /\ NotYetStored(w)
      /\ tpc[w] # "idle" => t \in accepted /\ t \in Translations
  BY DEF PartsTyped, ReadyInv, TypeOK, U!TypeOK, RowsTyped
<1>3. OutputTyped' /\ OutputInOrder(w)' /\ OutputGrows(w)
  BY <1>1, <1>2, StageStep, SuperviseStep DEF T!SuperviseSlack
<1>4. StartKnown(w)' /\ Advances(w)
  <2>1. CASE UNCHANGED T!vars /\ tpc[w] \in {"translating", "unlocking"}
    BY <1>2, <2>1 DEF T!vars, StartKnown, Advances, Working
  <2>2. CASE T!Supervise(w) \/ T!Crash(w)
    BY <1>2, <2>2, TranslatorStep
  <2> QED BY <1>1, <2>1, <2>2, TranslatorSteps DEF T!Kill
<1>5. WorkIsNew(w)'
  <2> SUFFICES ASSUME tpc'[w] \in Working
               PROVE  ~Imported(tcur[w])' /\ RequestType[tcur'[w]] \in T!BackupTypes
    BY DEF WorkIsNew
  <2>1. /\ tcur'[w] = t /\ tpc[w] \in Working \cup {"locked"} /\ tpc[w] # "importing"
        /\ tpc[w] = "locked" => RequestType[t] \in T!BackupTypes
    BY <1>4 DEF Advances, Working
  <2>2. created' = created
    BY <1>1, <2>1
  <2>3. ~Imported(t)
    BY <1>2, <2>1 DEF WorkIsNew, StartKnown, Imported, ReadyInv, ImportsOfStarted, Working
  <2> QED BY <1>2, <2>1, <2>2, <2>3 DEF WorkIsNew, Imported
<1>6. NotYetStored(w)' /\ OutputsWhole'
  <2>1. \A u \in Translations : translations[u].StartAt => translations'[u].StartAt
    BY <1>4 DEF Advances
  <2>2. tpc[w] = "locked" => content[t] = {}
    BY <1>2 DEF StartKnown, ReadyInv, OutputsWhole
  <2>3. NotYetStored(w)'
    BY <1>2, <1>3, <2>2 DEF NotYetStored, OutputGrows
  <2>4. ASSUME NEW u \in Translations
        PROVE  /\ content'[u] # {} => /\ translations'[u].StartAt
                                      /\ T!Required \subseteq content'[u]
               /\ u \in validated' => T!Required \subseteq content'[u]
    <3>1. CASE content'[u] = content[u]
      BY <1>1, <2>1, <3>1 DEF ReadyInv, OutputsWhole
    <3>2. CASE content'[u] # content[u]
      <4>1. /\ u = t /\ tpc[w] = "translating" /\ content[u] = {}
            /\ content'[u] = {} \/ T!Required \subseteq content'[u]
        BY <1>2, <1>3, <3>2 DEF OutputGrows, NotYetStored
      <4>2. translations[u].StartAt
        BY <1>2, <4>1 DEF StartKnown, Working
      <4>3. u \notin validated
        BY <4>1 DEF ReadyInv, OutputsWhole
      <4> QED BY <1>1, <2>1, <4>1, <4>2, <4>3
    <3> QED BY <3>1, <3>2
  <2> QED BY <2>3, <2>4 DEF OutputsWhole
<1>7. ASSUME NEW u \in Translations, OutputKept(u), u = t => tpc[w] # "translating"
      PROVE  OutputKept(u)'
  BY <1>1, <1>3, <1>7 DEF OutputGrows, FailuresGrow, OutputKept, Kept, Expired, Ran
<1>8. ImportsOfStarted'
  <2> SUFFICES ASSUME NEW i \in created'
               PROVE  LET u == TranslationOf[i]
                      IN /\ u \in accepted' /\ translations'[u].StartAt
                         /\ RequestType[u] \in T!BackupTypes
                         /\ RequestType[u] = "slack" => OutputKept(u)'
    BY DEF ImportsOfStarted
  <2> DEFINE u == TranslationOf[i]
  <2>1. CASE i \in created
    <3>1. /\ u \in accepted /\ u \in Translations /\ translations[u].StartAt
          /\ RequestType[u] \in T!BackupTypes
          /\ RequestType[u] = "slack" => OutputKept(u)
      BY <1>2, <2>1 DEF ReadyInv, ImportsOfStarted
    <3>2. u = t => tpc[w] # "translating"
      BY <1>2, <2>1 DEF WorkIsNew, Working, Imported
    <3> QED BY <1>1, <1>4, <1>7, <3>1, <3>2 DEF Advances
  <2>2. CASE i \notin created
    <3>1. u = t /\ tpc[w] = "importing" /\ t \in accepted /\ t \in Translations
      BY <1>1, <1>2, <2>2
    <3>2. translations[t].StartAt /\ RequestType[t] \in T!BackupTypes
      BY <1>2, <3>1 DEF StartKnown, WorkIsNew, Working
    <3>3. RequestType[t] = "slack" => OutputKept(t)
      BY <1>2, <3>1 DEF OutputInOrder, OutputStored, OutputKept, T!Slack
    <3> QED BY <1>1, <1>4, <1>7, <3>1, <3>2, <3>3 DEF Advances
  <2> QED BY <2>1, <2>2
<1> QED BY <1>3, <1>4, <1>5, <1>6, <1>8 DEF ReadyInv, OneTranslator

\* The API validates an output only when it can be read.
LEMMA ApiReady ==
  ASSUME PartsTyped, ReadyInv, Api
  PROVE  ReadyInv'
<1>1. /\ UNCHANGED <<created, outcomes, translation>>
      /\ accepted \subseteq accepted' /\ bucket \subseteq bucket'
  BY ApiStep DEF PartsTyped, ApiLeaves, Elsewhere
<1>2. \A a \in Archives : Kept(a) => Kept(a)'
  BY <1>1 DEF Kept, Expired, Ran
<1>3. OutputTyped'
  BY <1>1 DEF ReadyInv, OutputTyped
<1>4. ImportsOfStarted'
  <2>1. \A t \in Translations : OutputKept(t) => OutputKept(t)'
    BY <1>1, <1>2 DEF OutputKept
  <2> QED BY <1>1, <2>1 DEF ReadyInv, ImportsOfStarted, PartsTyped, TypeOK
<1>5. ASSUME NEW t \in Translations, t \in validated' \ validated
      PROVE  content[t] # {}
  <2>1. ASSUME NEW a \in Archives, UploadArchive(a)
        PROVE  FALSE
    BY <1>5, <2>1 DEF UploadArchive, U!Upload, U!Crash, U!handleReceiveArchive,
       U!CreateUpload, U!UploadArchiveToS3, U!CompleteUpload
  <2>2. ASSUME NEW r \in Translations, StartTranslation(r)
        PROVE  content[t] # {}
    <3>1. PICK valid \in ValidatorSays(ArchiveOf[r]) : U!TranslateIf(r, valid)
      BY <2>2 DEF StartTranslation
    <3>2. valid /\ t = ArchiveOf[r]
      BY <1>5, <3>1 DEF U!TranslateIf, U!WaitForUploadToComplete, U!Send,
         U!CheckBucketFileExists, U!handleTranslationUpload, U!EnsureUpload,
         U!CreateTranslation
    <3> QED BY <3>1, <3>2 DEF ValidatorSays
  <2> QED BY <2>1, <2>2 DEF Api
<1>6. OutputsWhole'
  BY <1>1, <1>5 DEF ReadyInv, OutputsWhole
<1>7. ASSUME NEW w \in Translators
      PROVE  StartKnown(w)' /\ WorkIsNew(w)' /\ OutputInOrder(w)' /\ NotYetStored(w)'
  <2>1. tcur[w] \in Translations /\ OutputStored(w) => OutputStored(w)'
    BY <1>1, <1>2 DEF OutputStored
  <2>2. tpc[w] # "idle" => tcur[w] \in Translations
    BY DEF PartsTyped, RowsTyped, U!TypeOK
  <2>3. StartKnown(w)' /\ WorkIsNew(w)' /\ NotYetStored(w)'
    BY <1>1 DEF ReadyInv, StartKnown, WorkIsNew, Imported, NotYetStored
  <2>4. OutputInOrder(w)'
    BY <1>1, <2>1, <2>2 DEF ReadyInv, OutputInOrder, T!Slack
  <2> QED BY <2>3, <2>4
<1> QED BY <1>3, <1>4, <1>6, <1>7 DEF ReadyInv

\* The import half takes an output out of the bucket only after its own run.
LEMMA ImportReady ==
  ASSUME OwnInstallations, PartsTyped, CauseInv, CleanupInv, ReadyInv, ImportStep,
         UNCHANGED <<upload, translation>>
  PROVE  ReadyInv'
<1>1. TypeOK
  BY DEF PartsTyped
<1>2. created' = created
  BY <1>1, SuperviseKeeps, OtherProvisioners DEF ImportStep, Reconcile, Delete
<1>3. \A a \in Archives : Kept(a) => Kept(a)'
  BY <1>1, ImportKept
<1>4. OutputTyped' /\ OutputsWhole'
  BY DEF ReadyInv, OutputTyped, OutputsWhole
<1>5. ImportsOfStarted'
  <2>1. \A t \in Translations : OutputKept(t) => OutputKept(t)'
    BY <1>3 DEF OutputKept
  <2> QED BY <1>1, <1>2, <2>1 DEF ReadyInv, ImportsOfStarted, TypeOK
<1>6. ASSUME NEW w \in Translators
      PROVE  StartKnown(w)' /\ WorkIsNew(w)' /\ OutputInOrder(w)' /\ NotYetStored(w)'
  <2>1. tcur[w] \in Translations /\ OutputStored(w) => OutputStored(w)'
    BY <1>3 DEF OutputStored
  <2>2. tpc[w] # "idle" => tcur[w] \in Translations
    BY DEF PartsTyped, RowsTyped, U!TypeOK
  <2>3. StartKnown(w)' /\ WorkIsNew(w)' /\ NotYetStored(w)'
    BY <1>2 DEF ReadyInv, StartKnown, WorkIsNew, Imported, NotYetStored
  <2>4. OutputInOrder(w)'
    BY <2>1, <2>2 DEF ReadyInv, OutputInOrder, T!Slack
  <2> QED BY <2>3, <2>4
<1> QED BY <1>4, <1>5, <1>6 DEF ReadyInv

LEMMA ReadyStep ==
  ASSUME OneTranslator, OwnInstallations, PartsTyped, CauseInv, CleanupInv, ReadyInv,
         [PipelineNext]_awat
  PROVE  ReadyInv'
<1>1. CASE UNCHANGED awat
  <2>1. OutputTyped' /\ ImportsOfStarted' /\ OutputsWhole'
    BY <1>1 DEF awat, vars, ReadyInv, OutputTyped, ImportsOfStarted, OutputsWhole,
       OutputKept, Kept, Expired, Ran
  <2>2. ASSUME NEW w \in Translators
        PROVE  StartKnown(w)' /\ WorkIsNew(w)' /\ OutputInOrder(w)' /\ NotYetStored(w)'
    BY <1>1 DEF awat, vars, ReadyInv, StartKnown, WorkIsNew, Imported, OutputInOrder,
       OutputStored, NotYetStored, Kept, Expired, Ran, T!Slack
  <2> QED BY <2>1, <2>2 DEF ReadyInv
<1> QED BY <1>1, TranslatingReady, ApiReady, ImportReady
        DEF PipelineNext, Api, Translating

\* With one translator, an installation for each import, and clients that agree
\* on the type of an archive and have it validated: whatever calls fail and
\* processes die, and whichever imports are cleaned up after, the archive of a
\* stored import, be it an upload, an output or the output of another translation
\* that a restart names, is in the bucket, validated or translated, until a run
\* of the import has ended; but for an output that could not be opened for its
\* upload, and one that the cleanup after its own import has deleted.
THEOREM ArchiveReady ==
  ASSUME OneTranslator, OwnInstallations, UP!OneTypeEach, UP!AllValidate
  PROVE  PipelineSpec => []ArchiveIsReady
<1>1. PipelineInit => ReadyInv
  <2> SUFFICES ASSUME PipelineInit
               PROVE  ReadyInv
    OBVIOUS
  <2>1. OutputTyped /\ ImportsOfStarted /\ OutputsWhole
    BY DEF PipelineInit, AtRest, U!Init, T!SlackAtRest, OutputTyped, ImportsOfStarted,
       OutputsWhole
  <2>2. ASSUME NEW w \in Translators
        PROVE  StartKnown(w) /\ WorkIsNew(w) /\ OutputInOrder(w) /\ NotYetStored(w)
    BY DEF PipelineInit, T!SlackAtRest, T!Init, StartKnown, WorkIsNew, OutputInOrder,
       NotYetStored, Working
  <2> QED BY <2>1, <2>2 DEF ReadyInv
<1>2. PartsTyped /\ CauseInv /\ CleanupInv /\ ReadyInv /\ [PipelineNext]_awat => ReadyInv'
  BY ReadyStep
<1>3. PartsTyped /\ ReadyInv /\ FoundInv /\ UP!ValidInv => ArchiveIsReady
  <2> SUFFICES ASSUME PartsTyped, ReadyInv, FoundInv, UP!ValidInv, NEW i \in created,
                      "open" \notin failures[TranslationOf[i]]
               PROVE  \/ Importable(ResourceOf(TranslationOf[i]))
                      \/ Expired(ResourceOf(TranslationOf[i]))
    BY DEF ArchiveIsReady
  <2> DEFINE t == TranslationOf[i]
             a == ArchiveOf[t]
  <2>1. /\ t \in Translations /\ t \in accepted
        /\ RequestType[t] \in {"slack", "mattermost"}
        /\ RequestType[t] = "slack" => OutputKept(t)
    BY DEF ReadyInv, ImportsOfStarted, T!BackupTypes, PartsTyped, TypeOK
  <2>2. CASE RequestType[t] = "slack"
    BY <2>1, <2>2 DEF OutputKept, Kept, ResourceOf, Importable
  <2>3. CASE RequestType[t] = "mattermost"
    <3>1. Kept(a) /\ a \in validated
      BY <2>1, <2>3 DEF FoundInv, UP!ValidInv, UP!MattermostIsValidated
    <3>2. a \in Translations => T!Required \subseteq content[a]
      BY <3>1 DEF ReadyInv, OutputsWhole
    <3> QED BY <2>3, <3>1, <3>2 DEF Kept, ResourceOf, Importable
  <2> QED BY <2>1, <2>2, <2>3
<1> QED
  BY <1>1, <1>2, <1>3, PipelineTyped, PipelineCause, PipelineCleanup, PipelineFound,
     PipelineValid, PTL DEF PipelineSpec
================================================================================
