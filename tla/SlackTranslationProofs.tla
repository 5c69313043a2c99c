------------------------- MODULE SlackTranslationProofs -------------------------
(***************************************************************************)
(* The translation supervisor with the stages of the Slack translator is   *)
(* the translation supervisor, so that what was proved of the one holds of *)
(* the other.  What it imports is in the bucket (OutputInv) and whole but  *)
(* for the files that failed (WholeInv); what it leaves on the disk        *)
(* (FilesInv) and what it abandons (AbandonInv) has a cause.               *)
(***************************************************************************)
EXTENDS SlackTranslation, TranslationSeriesProofs

USE DEF slack, Stages, Calls, Required, Goto, Fault, NoFault, UpdateTranslation

--------------------------------------------------------------------------------
(* Refinement *)

LEMMA SlackStepIsStep ==
  ASSUME NEW s \in Supervisors, SuperviseSlack(s)
  PROVE  Supervise(s) \/ UNCHANGED vars
<1>1. CASE Plain(s)
  BY <1>1 DEF Plain, Supervise
<1>2. CASE TranslateSlack(s)
  BY <1>2 DEF TranslateSlack, AtStage, MakeWorkdir, fetchSlackArchive,
              addFilesToSlackArchive, TransformSlack, createOutputZipfile,
              uploadTransformedZip, ReturnFromTranslate, Supervise
<1>3. CASE CompleteTranslation(s)
  BY <1>3 DEF CompleteTranslation, Supervise
<1>4. CASE ValidateOutput(s)
  BY <1>4 DEF ValidateOutput, Supervise
<1>5. CASE Cleanup(s)
  BY <1>5 DEF Cleanup
<1>6. CASE UnlockAtEnd(s)
  BY <1>6 DEF UnlockAtEnd, Supervise
<1> QED BY <1>1, <1>2, <1>3, <1>4, <1>5, <1>6 DEF SuperviseSlack

LEMMA SlackNextIsNext == [SlackNext]_<<vars, slack>> => [Next]_vars
<1>1. ASSUME NEW t \in Translations, CreateTranslation(t)
      PROVE  [Next]_vars
  BY <1>1 DEF Next
<1>2. ASSUME NEW s \in Supervisors, SuperviseSlack(s)
      PROVE  [Next]_vars
  BY <1>2, SlackStepIsStep DEF Next
<1>3. ASSUME NEW s \in Supervisors, Kill(s)
      PROVE  [Next]_vars
  BY <1>3 DEF Kill, Next
<1> QED BY <1>1, <1>2, <1>3 DEF SlackNext

\* The stages of the Slack translator only refine supervise(): each step of
\* the whole is one of the supervisor's, or none that its tables show.
THEOREM SlackImplements == SlackSpec => Spec
<1>1. SlackInit => Init
  BY DEF SlackInit, SlackAtRest
<1> QED BY <1>1, SlackNextIsNext, PTL DEF SlackSpec, Spec

\* One supervisor makes at most one import of an archive, at whatever stage
\* its translation fails or its process ends.
THEOREM OneImportOfExport ==
  ASSUME OneSupervisor
  PROVE  SlackSpec => []AtMostOneImport
BY SlackImplements, OneImport, PTL

--------------------------------------------------------------------------------
(* Types *)

FilesTyped ==
    /\ stage \in [Supervisors -> Stages]
    /\ parts \in [Supervisors -> SUBSET Parts]
    /\ workdirs \in [Supervisors -> SUBSET Translations]
    /\ zips \in [Supervisors -> SUBSET Translations]
    /\ bucket \subseteq Translations
    /\ content \in [Translations -> SUBSET Parts]

FailuresTyped ==
    failures \in [Translations -> SUBSET (Calls \cup {"database", "process"})]

\* What s remembers of a translation it has only when it works on one.
Fresh(s) ==
    pc[s] \in {"idle", "selected", "locked"} => stage[s] = "none" /\ parts[s] = {}

\* Failures are never forgotten.
FailuresGrow == \A t \in Translations : failures[t] \subseteq failures'[t]

LEMMA SlackTypeParts ==
  SlackTypeOK <=> /\ TypeOK /\ FilesTyped /\ FailuresTyped
                  /\ \A s \in Supervisors : Fresh(s)
  BY DEF SlackTypeOK, FilesTyped, FailuresTyped, Fresh

LEMMA RecordKept ==
  ASSUME FailuresTyped, NEW s \in Supervisors, cur[s] \in Translations,
         NEW call \in Calls \cup {"database", "process"},
         Record(s, call) \/ Failure(s, call) \/ Charge(s, call) \/ NoFailure
  PROVE  FailuresTyped' /\ FailuresGrow
<1>1. CASE failures' = failures
  BY <1>1 DEF FailuresTyped, FailuresGrow
<1>2. CASE Record(s, call)
  <2>1. failures' = [failures EXCEPT ![cur[s]] = failures[cur[s]] \cup {call}]
    BY <1>2 DEF Record
  <2>2. failures[cur[s]] \cup {call} \in SUBSET (Calls \cup {"database", "process"})
    BY DEF FailuresTyped
  <2>3. FailuresTyped'
    BY <2>1, <2>2 DEF FailuresTyped
  <2>4. FailuresGrow
    BY <2>1 DEF FailuresTyped, FailuresGrow
  <2> QED BY <2>3, <2>4
<1> QED BY <1>1, <1>2 DEF Failure, Charge, NoFailure

\* A step of s leaves alone what the other supervisors remember.
OthersKept(s) ==
    \A r \in Supervisors \ {s} : /\ pc'[r] = pc[r] /\ cur'[r] = cur[r]
                                 /\ stage'[r] = stage[r] /\ parts'[r] = parts[r]

\* Where a step of Translate() may leave the supervisor.
Stays(s) == pc'[s] \in {"translating", "completing", "unlocking"}

LEMMA StageTyped ==
  ASSUME TypeOK, FilesTyped, FailuresTyped, NEW s \in Supervisors,
         TranslateSlack(s)
  PROVE  FilesTyped' /\ FailuresTyped' /\ FailuresGrow /\ OthersKept(s) /\ Stays(s)
<1>1. pc[s] = "translating" /\ cur[s] \in Translations
  BY DEF TypeOK, TranslateSlack, AtStage, MakeWorkdir, fetchSlackArchive,
         addFilesToSlackArchive, TransformSlack, createOutputZipfile,
         uploadTransformedZip, ReturnFromTranslate, Translate
<1>2. CASE MakeWorkdir(s)
  <2>1. FailuresTyped' /\ FailuresGrow
    BY <1>1, <1>2, RecordKept DEF MakeWorkdir
  <2>2. FilesTyped'
    BY <1>1, <1>2 DEF MakeWorkdir, FilesTyped, Enter, Create
  <2>3. OthersKept(s) /\ Stays(s)
    BY <1>1, <1>2 DEF MakeWorkdir, FilesTyped, Enter, OthersKept, Stays, AtStage, vars
  <2> QED BY <2>1, <2>2, <2>3
<1>3. CASE fetchSlackArchive(s)
  <2>1. FailuresTyped' /\ FailuresGrow
    BY <1>1, <1>3, RecordKept DEF fetchSlackArchive, Abort
  <2>2. Export[cur[s]] \in SUBSET Parts
    BY <1>1, ExportAssumption
  <2>3. FilesTyped'
    BY <1>3, <2>2 DEF fetchSlackArchive, FilesTyped, Enter, Has, Abort
  <2>4. OthersKept(s) /\ Stays(s)
    BY <1>1, <1>3 DEF fetchSlackArchive, FilesTyped, Enter, Has, Abort, OthersKept,
                      Stays, AtStage, vars
  <2> QED BY <2>1, <2>3, <2>4
<1>4. CASE addFilesToSlackArchive(s)
  <2>1. FailuresTyped' /\ FailuresGrow
    BY <1>1, <1>4, RecordKept DEF addFilesToSlackArchive, FetchAttachedFiles, Abort
  <2>2. FilesTyped'
    BY <1>4 DEF addFilesToSlackArchive, FetchAttachedFiles, FilesTyped, Enter, Has,
                Abort
  <2>3. OthersKept(s) /\ Stays(s)
    BY <1>1, <1>4 DEF addFilesToSlackArchive, FetchAttachedFiles, FilesTyped, Enter,
                      Has, Abort, OthersKept, Stays, AtStage, vars
  <2> QED BY <2>1, <2>2, <2>3
<1>5. CASE TransformSlack(s)
  <2>1. FailuresTyped' /\ FailuresGrow
    BY <1>1, <1>5, RecordKept DEF TransformSlack, Abort
  <2>2. FilesTyped'
    BY <1>5 DEF TransformSlack, FilesTyped, Enter, Has, Abort
  <2>3. OthersKept(s) /\ Stays(s)
    BY <1>1, <1>5 DEF TransformSlack, FilesTyped, Enter, Has, Abort, OthersKept,
                      Stays, AtStage, vars
  <2> QED BY <2>1, <2>2, <2>3
<1>6. CASE createOutputZipfile(s)
  <2>1. FailuresTyped' /\ FailuresGrow
    BY <1>1, <1>6, RecordKept DEF createOutputZipfile, Abort
  <2>2. FilesTyped'
    BY <1>1, <1>6 DEF createOutputZipfile, FilesTyped, Enter, Has, Abort, Create
  <2>3. OthersKept(s) /\ Stays(s)
    BY <1>1, <1>6 DEF createOutputZipfile, FilesTyped, Enter, Has, Abort, OthersKept,
                      Stays, AtStage, vars
  <2> QED BY <2>1, <2>2, <2>3
<1>7. CASE uploadTransformedZip(s)
  <2>1. FailuresTyped' /\ FailuresGrow
    BY <1>1, <1>7, RecordKept DEF uploadTransformedZip, Abort
  <2>2. parts[s] \in SUBSET Parts
    BY DEF FilesTyped
  <2>3. FilesTyped'
    BY <1>1, <1>7, <2>2 DEF uploadTransformedZip, FilesTyped, Enter, Has, Abort,
                            Stored, NothingStored
  <2>4. OthersKept(s) /\ Stays(s)
    BY <1>1, <1>7 DEF uploadTransformedZip, FilesTyped, Enter, Has, Abort, OthersKept,
                      Stays, AtStage, vars
  <2> QED BY <2>1, <2>3, <2>4
<1>8. CASE ReturnFromTranslate(s)
  <2>1. FailuresTyped' /\ FailuresGrow
    <3>1. NoFailure \/ Failure(s, "rmdir")
      BY <1>8 DEF ReturnFromTranslate, RemoveWorkdir, NoFailure
    <3> QED BY <1>1, <3>1, RecordKept
  <2>2. FilesTyped'
    BY <1>8 DEF ReturnFromTranslate, RemoveWorkdir, FilesTyped, Remove
  <2>3. OthersKept(s) /\ Stays(s)
    BY <1>8 DEF ReturnFromTranslate, Translate, TypeOK, OthersKept, Stays
  <2> QED BY <2>1, <2>2, <2>3
<1> QED
  BY <1>2, <1>3, <1>4, <1>5, <1>6, <1>7, <1>8 DEF TranslateSlack

LEMMA SuperviseTyped ==
  ASSUME TypeOK, FilesTyped, FailuresTyped, NEW s \in Supervisors, Fresh(s),
         \/ Plain(s) \/ CompleteTranslation(s) \/ ValidateOutput(s) \/ Cleanup(s)
         \/ UnlockAtEnd(s) \/ Kill(s)
  PROVE  FilesTyped' /\ FailuresTyped' /\ FailuresGrow /\ OthersKept(s) /\ Fresh(s)'
<1>1. CASE Plain(s)
  <2>1. FilesTyped'
    BY <1>1 DEF Plain, FilesTyped
  <2>2. FailuresTyped' /\ FailuresGrow
    <3>1. CASE cur[s] \in Translations
      BY <1>1, <3>1, RecordKept DEF Plain
    <3>2. CASE cur[s] \notin Translations
      <4>1. GetTranslationReadyToStart(s)
        BY <1>1, <3>2 DEF Plain, TypeOK, WinLock, LoseLock, NewTranslatorFails,
           MarkStarted, CreateImport, Translate, MarkComplete, Validate
      <4>2. NoFailure
        BY <1>1, <4>1 DEF Plain, Charge, GetTranslationReadyToStart
      <4> QED BY <4>2 DEF NoFailure, FailuresTyped, FailuresGrow
    <3> QED BY <3>1, <3>2
  <2>3. OthersKept(s)
    BY <1>1 DEF Plain, TypeOK, OthersKept, GetTranslationReadyToStart, WinLock,
       LoseLock, Return, NewTranslatorFails, MarkStarted, CreateImport, Translate,
       MarkComplete, Validate
  <2>4. Fresh(s)'
    BY <1>1 DEF Plain, TypeOK, Fresh, GetTranslationReadyToStart, WinLock,
       LoseLock, Return, NewTranslatorFails, MarkStarted, CreateImport, Translate,
       MarkComplete, Validate
  <2> QED BY <2>1, <2>2, <2>3, <2>4
<1>2. CASE CompleteTranslation(s)
  <2>1. cur[s] \in Translations
    BY <1>2 DEF CompleteTranslation, MarkComplete, TypeOK
  <2>2. FailuresTyped' /\ FailuresGrow
    BY <1>2, <2>1, RecordKept DEF CompleteTranslation
  <2>3. FilesTyped'
    BY <1>2 DEF CompleteTranslation, FilesTyped, Enter
  <2>4. OthersKept(s) /\ Fresh(s)'
    BY <1>2 DEF CompleteTranslation, MarkComplete, FilesTyped, TypeOK, Enter,
       OthersKept, Fresh
  <2> QED BY <2>2, <2>3, <2>4
<1>3. CASE ValidateOutput(s)
  <2>1. cur[s] \in Translations
    BY <1>3 DEF ValidateOutput, Validate, TypeOK
  <2>2. FailuresTyped' /\ FailuresGrow
    BY <1>3, <2>1, RecordKept DEF ValidateOutput
  <2>3. FilesTyped'
    BY <1>3 DEF ValidateOutput, FilesTyped
  <2>4. OthersKept(s) /\ Fresh(s)'
    BY <1>3 DEF ValidateOutput, Validate, TypeOK, OthersKept, Fresh
  <2> QED BY <2>2, <2>3, <2>4
<1>4. CASE Cleanup(s)
  <2>1. cur[s] \in Translations
    BY <1>4 DEF Cleanup, TypeOK
  <2>2. FailuresTyped' /\ FailuresGrow
    BY <1>4, <2>1, RecordKept DEF Cleanup
  <2>3. FilesTyped'
    BY <1>4 DEF Cleanup, FilesTyped, Enter, Remove
  <2>4. OthersKept(s) /\ Fresh(s)'
    BY <1>4 DEF Cleanup, FilesTyped, Enter, OthersKept, Fresh, vars
  <2> QED BY <2>2, <2>3, <2>4
<1>5. CASE UnlockAtEnd(s) \/ Kill(s)
  <2>1. cur[s] \in Translations
    BY <1>5 DEF UnlockAtEnd, UnlockTranslation, Kill, Crash, TypeOK
  <2>2. FailuresTyped' /\ FailuresGrow
    BY <1>5, <2>1, RecordKept DEF UnlockAtEnd, Kill
  <2>3. FilesTyped'
    BY <1>5 DEF UnlockAtEnd, Kill, ForgetTranslation, Enter, Has, FilesTyped
  <2>4. OthersKept(s) /\ Fresh(s)'
    BY <1>5 DEF UnlockAtEnd, UnlockTranslation, Kill, Crash, Return, TypeOK,
       ForgetTranslation, Enter, Has, FilesTyped, OthersKept, Fresh
  <2> QED BY <2>2, <2>3, <2>4
<1> QED BY <1>1, <1>2, <1>3, <1>4, <1>5

LEMMA SlackTypeStep ==
  ASSUME SlackTypeOK, [SlackNext]_<<vars, slack>>
  PROVE  SlackTypeOK' /\ FailuresGrow
<1>1. /\ TypeOK /\ FilesTyped /\ FailuresTyped
      /\ \A s \in Supervisors : Fresh(s)
  BY SlackTypeParts
<1>2. TypeOK'
  BY <1>1, TypeStep, SlackNextIsNext
<1>3. ASSUME NEW t \in Translations, CreateTranslation(t), UNCHANGED slack
      PROVE  /\ FilesTyped' /\ FailuresTyped' /\ FailuresGrow
             /\ \A s \in Supervisors : Fresh(s)'
  BY <1>1, <1>3 DEF CreateTranslation, FilesTyped, FailuresTyped, FailuresGrow, Fresh
<1>4. ASSUME NEW s \in Supervisors, SuperviseSlack(s) \/ Kill(s)
      PROVE  /\ FilesTyped' /\ FailuresTyped' /\ FailuresGrow
             /\ \A r \in Supervisors : Fresh(r)'
  <2>1. FilesTyped' /\ FailuresTyped' /\ FailuresGrow /\ OthersKept(s) /\ Fresh(s)'
    <3>1. CASE TranslateSlack(s)
      BY <1>1, <3>1, StageTyped DEF Stays, Fresh
    <3>2. CASE ~TranslateSlack(s)
      BY <1>1, <1>4, <3>2, SuperviseTyped DEF SuperviseSlack
    <3> QED BY <3>1, <3>2
  <2>2. \A r \in Supervisors \ {s} : Fresh(r)'
    BY <1>1, <2>1 DEF OthersKept, Fresh
  <2> QED BY <2>1, <2>2
<1>5. ASSUME UNCHANGED <<vars, slack>>
      PROVE  /\ FilesTyped' /\ FailuresTyped' /\ FailuresGrow
             /\ \A s \in Supervisors : Fresh(s)'
  <2>1. FilesTyped' /\ FailuresTyped'
    BY <1>1, <1>5 DEF FilesTyped, FailuresTyped
  <2>2. FailuresGrow
    BY <1>5 DEF FailuresGrow
  <2>3. \A s \in Supervisors : Fresh(s)'
    BY <1>1, <1>5 DEF vars, Fresh
  <2> QED BY <2>1, <2>2, <2>3
<1>6. ASSUME SlackNext
      PROVE  /\ FilesTyped' /\ FailuresTyped' /\ FailuresGrow
             /\ \A s \in Supervisors : Fresh(s)'
  BY <1>3, <1>4, <1>6 DEF SlackNext
<1>7. /\ FilesTyped' /\ FailuresTyped' /\ FailuresGrow
      /\ \A s \in Supervisors : Fresh(s)'
  BY <1>5, <1>6
<1> QED
  BY <1>2, <1>7 DEF SlackTypeOK, FilesTyped, FailuresTyped, Fresh

LEMMA InitSlackTypeOK == SlackInit => SlackTypeOK
<1>1. SlackInit => TypeOK
  BY InitTypeOK DEF SlackInit, SlackAtRest
<1>2. SlackInit => FilesTyped /\ FailuresTyped /\ \A s \in Supervisors : Fresh(s)
  BY DEF SlackInit, SlackAtRest, FilesTyped, FailuresTyped, Fresh
<1> QED BY <1>1, <1>2, SlackTypeParts

\* The variables of the Slack translator have their types, and a supervisor
\* remembers nothing of a translation that it has let go.
THEOREM SlackTypeCorrect == SlackSpec => []SlackTypeOK
BY InitSlackTypeOK, SlackTypeStep, PTL DEF SlackSpec

--------------------------------------------------------------------------------
(* What is imported is in the bucket *)

InBucket(s) ==
    \/ cur[s] \in bucket /\ content[cur[s]] = parts[s]
    \/ "open" \in failures[cur[s]]

\* What is known of the archive of s at each stage of its translation.
OutputInOrder(s) ==
    pc[s] # "idle" /\ Slack(s) =>
        /\ stage[s] = "mbif" => Required \subseteq parts[s]
        /\ stage[s] \in {"zip", "stored", "deferred"} =>
               parts[s] = {} \/ Required \subseteq parts[s]
        /\ stage[s] \in {"stored", "deferred"} => InBucket(s)
        /\ pc[s] = "completing" => stage[s] = "stored"
        /\ pc[s] \in {"validating", "importing"} => stage[s] = "deferred"
        /\ pc[s] = "importing" => Required \subseteq parts[s]

OutputInv == ImportedIsStored /\ \A s \in Supervisors : OutputInOrder(s)

\* Once imported, an archive is not replaced.
ImportsKept ==
    /\ bucket \subseteq bucket'
    /\ \A t \in Translations :
         Type[t] = "slack" /\ imports'[t] > 0 =>
             imports[t] > 0 /\ content'[t] = content[t]

LEMMA StoredKept ==
  ASSUME ImportedIsStored, FailuresGrow, ImportsKept
  PROVE  ImportedIsStored'
BY DEF ImportedIsStored, FailuresGrow, ImportsKept

LEMMA InitOutput == SlackInit => OutputInv
BY DEF SlackInit, SlackAtRest, Init, OutputInv, ImportedIsStored, OutputInOrder

LEMMA StageOutput ==
  ASSUME TypeOK, FilesTyped, FailuresTyped, NEW s \in Supervisors,
         TranslateSlack(s), OutputInOrder(s), CopyInOrder(s)
  PROVE  ImportsKept /\ OutputInOrder(s)'
<1>1. /\ pc[s] = "translating" /\ cur[s] \in Translations /\ Slack(s)
      /\ cur' = cur /\ imports' = imports /\ imports[cur[s]] = 0
  BY DEF TypeOK, TranslateSlack, AtStage, MakeWorkdir, fetchSlackArchive,
         addFilesToSlackArchive, TransformSlack, createOutputZipfile,
         uploadTransformedZip, ReturnFromTranslate, Translate, CopyInOrder, vars
<1>2. FailuresGrow /\ FilesTyped'
  BY StageTyped
<1>3. CASE \/ MakeWorkdir(s) \/ fetchSlackArchive(s) \/ addFilesToSlackArchive(s)
           \/ TransformSlack(s) \/ createOutputZipfile(s)
  <2>1. UNCHANGED <<pc, bucket, content>>
    BY <1>3 DEF MakeWorkdir, fetchSlackArchive, addFilesToSlackArchive,
       TransformSlack, createOutputZipfile, AtStage, vars
  <2>2. stage'[s] \in {"workdir", "refused", "input", "files", "failed"} =>
           OutputInOrder(s)'
    BY <1>1, <2>1 DEF OutputInOrder
  <2>3. ImportsKept
    BY <1>1, <2>1 DEF ImportsKept
  <2>4. CASE TransformSlack(s)
    BY <1>1, <2>1, <2>2, <2>3, <2>4
       DEF TransformSlack, Abort, Enter, FilesTyped, validateIntermediate,
           OutputInOrder
  <2>5. CASE createOutputZipfile(s)
    <3>1. \/ /\ stage'[s] = "zip"
             /\ parts'[s] \in {parts[s], parts[s] \cap Required, {}}
          \/ stage'[s] = "failed"
      BY <2>5 DEF createOutputZipfile, Abort, Enter, Has, FilesTyped
    <3>2. Required \subseteq parts[s]
      BY <1>1, <2>5 DEF createOutputZipfile, AtStage, OutputInOrder
    <3>3. CASE stage'[s] = "zip"
      BY <1>1, <2>1, <2>3, <3>1, <3>2, <3>3 DEF OutputInOrder
    <3> QED BY <2>2, <2>3, <3>1, <3>3
  <2>6. CASE MakeWorkdir(s) \/ fetchSlackArchive(s) \/ addFilesToSlackArchive(s)
    <3>1. stage'[s] \in {"workdir", "refused", "input", "files", "failed"}
      BY <2>6 DEF MakeWorkdir, fetchSlackArchive, addFilesToSlackArchive, Abort,
                  Enter, FilesTyped
    <3> QED BY <2>2, <2>3, <3>1
  <2> QED BY <1>3, <2>4, <2>5, <2>6
<1>4. CASE uploadTransformedZip(s)
  <2>1. /\ UNCHANGED pc /\ stage[s] = "zip"
        /\ bucket \subseteq bucket'
        /\ \A t \in Translations \ {cur[s]} : content'[t] = content[t]
    BY <1>1, <1>4 DEF uploadTransformedZip, Abort, Stored, NothingStored, AtStage,
       vars, FilesTyped
  <2>2. ImportsKept
    BY <1>1, <2>1 DEF ImportsKept
  <2>3. CASE stage'[s] = "failed"
    BY <1>1, <2>1, <2>2, <2>3 DEF OutputInOrder
  <2>4. CASE stage'[s] # "failed"
    <3>1. /\ stage'[s] = "stored" /\ parts' = parts
          /\ Stored(s) \/ Failure(s, "open")
      BY <1>4, <2>4 DEF uploadTransformedZip, Abort, Enter, FilesTyped
    <3>2. InBucket(s)'
      <4>1. CASE Stored(s)
        BY <1>1, <3>1, <4>1 DEF Stored, InBucket, FilesTyped
      <4>2. CASE Failure(s, "open")
        BY <1>1, <4>2 DEF Failure, Record, InBucket, FailuresTyped
      <4> QED BY <3>1, <4>1, <4>2
    <3> QED BY <1>1, <2>1, <2>2, <3>1, <3>2 DEF OutputInOrder
  <2> QED BY <2>2, <2>3, <2>4
<1>5. CASE ReturnFromTranslate(s)
  <2>1. /\ UNCHANGED <<stage, parts, bucket, content>>
        /\ pc'[s] \in {"completing", "unlocking"}
        /\ pc'[s] = "completing" => stage[s] = "stored"
    BY <1>5 DEF ReturnFromTranslate
  <2>2. ImportsKept
    BY <1>1, <2>1 DEF ImportsKept
  <2>3. InBucket(s) => InBucket(s)'
    BY <1>1, <1>2, <2>1 DEF InBucket, FailuresGrow
  <2> QED BY <1>1, <2>1, <2>2, <2>3 DEF OutputInOrder, Slack
<1> QED
  BY <1>3, <1>4, <1>5 DEF TranslateSlack

\* The supervisor's steps leave the archive alone; the one that imports it has
\* had it validated.
LEMMA SuperviseOutput ==
  ASSUME SlackTypeOK, OutputInv, NEW s \in Supervisors,
         \/ Plain(s) \/ CompleteTranslation(s) \/ ValidateOutput(s) \/ Cleanup(s)
         \/ UnlockAtEnd(s) \/ Kill(s)
  PROVE  ImportedIsStored' /\ OutputInOrder(s)'
<1>1. /\ TypeOK /\ FilesTyped /\ FailuresTyped /\ Fresh(s)
      /\ ImportedIsStored /\ OutputInOrder(s)
  BY SlackTypeParts DEF OutputInv
<1>2. FailuresGrow
  BY <1>1, SuperviseTyped
<1>3. UNCHANGED <<bucket, content>>
  BY DEF Plain, CompleteTranslation, ValidateOutput, Cleanup, UnlockAtEnd, Kill,
         ForgetTranslation
<1>4. imports' = imports => ImportedIsStored'
  BY <1>1, <1>2, <1>3, StoredKept DEF ImportsKept
<1>5. ASSUME cur[s] \in Translations, cur' = cur, parts' = parts
      PROVE  InBucket(s) => InBucket(s)'
  BY <1>2, <1>3, <1>5 DEF InBucket, FailuresGrow
<1>6. CASE Plain(s)
  <2>1. CASE CreateImport(s)
    <3>1. /\ pc[s] = "importing" /\ pc'[s] = "unlocking" /\ cur' = cur
          /\ cur[s] \in Translations /\ UNCHANGED <<stage, parts>>
          /\ \A t \in Translations \ {cur[s]} : imports'[t] = imports[t]
      BY <1>1, <1>6, <2>1 DEF Plain, CreateImport, TypeOK
    <3>2. OutputInOrder(s)'
      BY <1>1, <1>5, <3>1 DEF OutputInOrder, Slack
    <3>3. Type[cur[s]] = "slack" => InBucket(s)' /\ Required \subseteq parts[s]
      BY <1>1, <1>5, <3>1 DEF OutputInOrder, Slack
    <3>4. ImportedIsStored'
      BY <1>1, <1>2, <1>3, <3>1, <3>3 DEF ImportedIsStored, InBucket, FailuresGrow
    <3> QED BY <3>2, <3>4
  <2>2. CASE GetTranslationReadyToStart(s) \/ WinLock(s) \/ LoseLock(s)
    <3>1. /\ pc'[s] \in {"idle", "selected", "locked"} /\ imports' = imports
          /\ stage'[s] = "none"
      BY <1>1, <1>6, <2>2 DEF Plain, TypeOK, Fresh, GetTranslationReadyToStart,
         WinLock, LoseLock, Return
    <3>2. OutputInOrder(s)'
      BY <3>1 DEF OutputInOrder
    <3> QED BY <1>4, <3>1, <3>2
  <2>3. CASE NewTranslatorFails(s) \/ MarkStarted(s)
    <3>1. /\ pc'[s] \in {"translating", "unlocking"} /\ imports' = imports
          /\ stage'[s] = "none"
      BY <1>1, <1>6, <2>3 DEF Plain, TypeOK, Fresh, NewTranslatorFails, MarkStarted
    <3>2. OutputInOrder(s)'
      BY <3>1 DEF OutputInOrder
    <3> QED BY <1>4, <3>1, <3>2
  <2>4. CASE (Translate(s) \/ MarkComplete(s) \/ Validate(s)) /\ ~Slack(s)
    <3>1. imports' = imports /\ ~Slack(s)'
      BY <2>4 DEF Translate, MarkComplete, Validate, Slack
    <3>2. OutputInOrder(s)'
      BY <3>1 DEF OutputInOrder
    <3> QED BY <1>4, <3>1, <3>2
  <2> QED BY <1>6, <2>1, <2>2, <2>3, <2>4 DEF Plain
<1>7. CASE CompleteTranslation(s)
  <2>1. /\ pc[s] = "completing" /\ pc'[s] \in {"validating", "unlocking"}
        /\ cur[s] \in Translations /\ Slack(s) /\ cur' = cur /\ parts' = parts
        /\ imports' = imports
        /\ IF pc'[s] = "validating" THEN stage'[s] = "deferred" ELSE stage' = stage
    BY <1>1, <1>7 DEF CompleteTranslation, MarkComplete, TypeOK, FilesTyped, Enter
  <2>2. OutputInOrder(s)'
    BY <1>1, <1>5, <2>1 DEF OutputInOrder, Slack
  <2> QED BY <1>4, <2>1, <2>2
<1>8. CASE ValidateOutput(s)
  <2>1. /\ pc[s] = "validating" /\ pc'[s] \in {"importing", "unlocking"}
        /\ cur[s] \in Translations /\ Slack(s) /\ cur' = cur
        /\ UNCHANGED <<stage, parts, imports>>
        /\ pc'[s] = "importing" => parts[s] # {}
    BY <1>1, <1>8 DEF ValidateOutput, Validate, Acceptable, TypeOK
  <2>2. OutputInOrder(s)'
    BY <1>1, <1>5, <2>1 DEF OutputInOrder, Slack
  <2> QED BY <1>4, <2>1, <2>2
<1>9. CASE Cleanup(s)
  <2>1. /\ pc'[s] = "unlocking" /\ stage'[s] = "none" /\ imports' = imports
    BY <1>1, <1>9 DEF Cleanup, FilesTyped, Enter, vars
  <2>2. OutputInOrder(s)'
    BY <2>1 DEF OutputInOrder
  <2> QED BY <1>4, <2>1, <2>2
<1>10. CASE UnlockAtEnd(s) \/ Kill(s)
  <2>1. pc'[s] = "idle" /\ imports' = imports
    BY <1>1, <1>10 DEF UnlockAtEnd, UnlockTranslation, Kill, Crash, Return, TypeOK
  <2>2. OutputInOrder(s)'
    BY <2>1 DEF OutputInOrder
  <2> QED BY <1>4, <2>1, <2>2
<1> QED BY <1>6, <1>7, <1>8, <1>9, <1>10

LEMMA OutputStep ==
  ASSUME OneSupervisor, SlackTypeOK, SeriesInv, OutputInv, [SlackNext]_<<vars, slack>>
  PROVE  OutputInv'
<1>1. /\ TypeOK /\ FilesTyped /\ FailuresTyped
      /\ ImportedIsStored /\ \A s \in Supervisors : OutputInOrder(s)
  BY SlackTypeParts DEF OutputInv
<1>2. ASSUME NEW t \in Translations, CreateTranslation(t), UNCHANGED slack
      PROVE  OutputInv'
  BY <1>1, <1>2 DEF CreateTranslation, OutputInv, ImportedIsStored, OutputInOrder,
                    InBucket, Slack
<1>3. ASSUME NEW s \in Supervisors, SuperviseSlack(s) \/ Kill(s)
      PROVE  OutputInv'
  <2>1. ImportedIsStored' /\ OutputInOrder(s)'
    <3>1. CASE TranslateSlack(s)
      <4>1. CopyInOrder(s)
        BY DEF SeriesInv
      <4> QED BY <1>1, <3>1, <4>1, StageOutput, StageTyped, StoredKept
    <3>2. CASE ~TranslateSlack(s)
      BY <1>3, <3>2, SuperviseOutput DEF SuperviseSlack
    <3> QED BY <3>1, <3>2
  <2> QED BY <2>1 DEF OneSupervisor, OutputInv
<1>4. CASE UNCHANGED <<vars, slack>>
  BY <1>1, <1>4 DEF vars, OutputInv, ImportedIsStored, OutputInOrder, InBucket, Slack
<1> QED BY <1>2, <1>3, <1>4 DEF SlackNext

\* Of one supervisor's translations no import is made but of an archive that is
\* in the bucket with its users and posts, unless it could not be opened.
THEOREM ImportOfStored ==
  ASSUME OneSupervisor
  PROVE  SlackSpec => []ImportedIsStored
<1>1. SlackSpec => []SeriesInv
  BY SlackImplements, SeriesAlways, PTL
<1>2. SlackTypeOK /\ SeriesInv /\ OutputInv /\ [SlackNext]_<<vars, slack>> => OutputInv'
  BY OutputStep
<1>3. OutputInv => ImportedIsStored
  BY DEF OutputInv
<1> QED BY <1>1, <1>2, <1>3, InitOutput, SlackTypeCorrect, PTL DEF SlackSpec

--------------------------------------------------------------------------------
(* What stays on the disk *)

DirCause(t) == {"process", "rmdir"} \cap failures[t] # {}

ZipCause(t) ==
    {"zip", "upload", "database", "process", "cleanup"} \cap failures[t] # {}

\* A directory without a cause is that of the translation in Translate(), after
\* the statement that defers its removal.
DirsExplained(s) ==
    \A t \in workdirs[s] :
        \/ DirCause(t)
        \/ /\ cur[s] = t /\ Slack(s)
           /\ pc[s] = "translating" /\ stage[s] \notin {"none", "refused"}

\* An output archive without one is on its way to the deferred cleanup.
ZipsExplained(s) ==
    \A t \in zips[s] :
        \/ ZipCause(t)
        \/ /\ cur[s] = t /\ Slack(s)
           /\ \/ pc[s] = "translating" /\ stage[s] \in {"zip", "stored"}
              \/ pc[s] = "completing" /\ stage[s] = "stored"
              \/ /\ pc[s] \in {"validating", "importing", "unlocking"}
                 /\ stage[s] = "deferred"

FilesInv == \A s \in Supervisors : DirsExplained(s) /\ ZipsExplained(s)

LEMMA Recorded ==
  ASSUME FailuresTyped, NEW s \in Supervisors, cur[s] \in Translations, NEW call,
         Record(s, call) \/ Failure(s, call)
  PROVE  call \in failures'[cur[s]]
BY DEF Record, Failure, FailuresTyped

LEMMA CausesKept ==
  ASSUME FailuresGrow
  PROVE  \A t \in Translations : /\ DirCause(t) => DirCause(t)'
                                 /\ ZipCause(t) => ZipCause(t)'
BY DEF FailuresGrow, DirCause, ZipCause

\* The disks of other supervisors, which share no files with that of s.
OtherDisks(s) ==
    \A r \in Supervisors \ {s} : workdirs'[r] = workdirs[r] /\ zips'[r] = zips[r]

LEMMA StageFiles ==
  ASSUME TypeOK, FilesTyped, FailuresTyped, NEW s \in Supervisors,
         TranslateSlack(s), DirsExplained(s), ZipsExplained(s)
  PROVE  DirsExplained(s)' /\ ZipsExplained(s)' /\ OtherDisks(s)
<1>1. /\ pc[s] = "translating" /\ cur[s] \in Translations /\ Slack(s)
      /\ cur' = cur /\ Slack(s)'
  BY DEF TypeOK, TranslateSlack, AtStage, MakeWorkdir, fetchSlackArchive,
         addFilesToSlackArchive, TransformSlack, createOutputZipfile,
         uploadTransformedZip, ReturnFromTranslate, Translate, Slack, vars
<1>2. /\ workdirs[s] \subseteq Translations /\ zips[s] \subseteq Translations
      /\ \A t \in Translations : /\ DirCause(t) => DirCause(t)'
                                 /\ ZipCause(t) => ZipCause(t)'
  BY StageTyped, CausesKept DEF FilesTyped
<1>3. ASSUME workdirs' = workdirs, pc'[s] = "translating",
             stage'[s] \notin {"none", "refused"}
      PROVE  DirsExplained(s)'
  BY <1>1, <1>2, <1>3 DEF DirsExplained
<1>4. ASSUME zips' = zips, stage[s] \notin {"zip", "stored"}
      PROVE  ZipsExplained(s)'
  BY <1>1, <1>2, <1>4 DEF ZipsExplained
<1>5. CASE MakeWorkdir(s)
  <2>1. pc' = pc /\ zips' = zips /\ stage[s] = "none"
    BY <1>5 DEF MakeWorkdir, AtStage, vars
  <2>2. \A t \in workdirs[s] : DirCause(t)
    BY <2>1 DEF DirsExplained
  <2>3. \/ /\ workdirs'[s] = workdirs[s] \cup {cur[s]} /\ stage'[s] = "workdir"
           /\ OtherDisks(s)
        \/ workdirs' = workdirs
    BY <1>5, <2>1 DEF MakeWorkdir, Create, Enter, FilesTyped, OtherDisks
  <2>4. DirsExplained(s)'
    BY <1>1, <1>2, <2>1, <2>2, <2>3 DEF DirsExplained
  <2> QED BY <1>4, <2>1, <2>3, <2>4 DEF OtherDisks
<1>6. CASE fetchSlackArchive(s) \/ addFilesToSlackArchive(s) \/ TransformSlack(s)
  <2>1. /\ pc' = pc /\ workdirs' = workdirs /\ zips' = zips
        /\ stage[s] \in {"workdir", "input", "files"}
        /\ stage'[s] \in {"input", "files", "mbif", "failed"}
    BY <1>6 DEF fetchSlackArchive, addFilesToSlackArchive, TransformSlack, AtStage,
       Abort, Enter, FilesTyped, vars
  <2> QED BY <1>1, <1>3, <1>4, <2>1 DEF OtherDisks
<1>7. CASE createOutputZipfile(s)
  <2>1. /\ pc' = pc /\ workdirs' = workdirs /\ stage[s] = "mbif"
        /\ stage'[s] \in {"zip", "failed"}
        /\ zips' = Create(zips, s) \/ zips' = zips
    BY <1>7 DEF createOutputZipfile, AtStage, Abort, Enter, FilesTyped, vars
  <2>2. /\ zips'[s] \subseteq zips[s] \cup {cur[s]}
        /\ \A r \in Supervisors \ {s} : zips'[r] = zips[r]
    BY <2>1 DEF Create, FilesTyped
  <2>3. stage'[s] = "failed" => ZipCause(cur[s])'
    <3>1. stage'[s] = "failed" => Failure(s, "zip")
      BY <1>7 DEF createOutputZipfile, Abort, Enter, FilesTyped
    <3> QED BY <1>1, <3>1, Recorded DEF ZipCause
  <2>4. ZipsExplained(s)'
    BY <1>1, <1>2, <2>1, <2>2, <2>3 DEF ZipsExplained
  <2> QED BY <1>1, <1>3, <2>1, <2>2, <2>4 DEF OtherDisks
<1>8. CASE uploadTransformedZip(s)
  <2>1. /\ pc' = pc /\ workdirs' = workdirs /\ zips' = zips /\ stage[s] = "zip"
        /\ stage'[s] \in {"stored", "failed"}
    BY <1>8 DEF uploadTransformedZip, AtStage, Abort, Enter, FilesTyped, vars
  <2>2. stage'[s] = "failed" => ZipCause(cur[s])'
    <3>1. stage'[s] = "failed" => Failure(s, "upload")
      BY <1>8 DEF uploadTransformedZip, Abort, Enter, FilesTyped
    <3> QED BY <1>1, <3>1, Recorded DEF ZipCause
  <2>3. ZipsExplained(s)'
    BY <1>1, <1>2, <2>1, <2>2 DEF ZipsExplained
  <2> QED BY <1>1, <1>3, <2>1, <2>3 DEF OtherDisks
<1>9. CASE ReturnFromTranslate(s)
  <2>1. /\ stage' = stage /\ zips' = zips
        /\ stage[s] \in {"stored", "failed", "refused"}
        /\ stage[s] = "stored" => pc'[s] = "completing"
    BY <1>9 DEF ReturnFromTranslate
  <2>2. \/ stage[s] = "refused" /\ workdirs' = workdirs
        \/ workdirs' = Remove(workdirs, s)
        \/ workdirs' = workdirs /\ Failure(s, "rmdir")
    BY <1>9 DEF ReturnFromTranslate, RemoveWorkdir
  <2>3. \A r \in Supervisors \ {s} : workdirs'[r] = workdirs[r]
    BY <2>2 DEF Remove, FilesTyped
  <2>4. DirsExplained(s)'
    <3>1. CASE stage[s] = "refused" /\ workdirs' = workdirs
      BY <1>2, <3>1 DEF DirsExplained
    <3>2. CASE workdirs' = Remove(workdirs, s)
      <4>1. workdirs'[s] = workdirs[s] \ {cur[s]}
        BY <3>2 DEF Remove, FilesTyped
      <4> QED BY <1>2, <4>1 DEF DirsExplained
    <3>3. CASE workdirs' = workdirs /\ Failure(s, "rmdir")
      <4>1. DirCause(cur[s])'
        BY <1>1, <3>3, Recorded DEF DirCause
      <4> QED BY <1>1, <1>2, <3>3, <4>1 DEF DirsExplained
    <3> QED BY <2>2, <3>1, <3>2, <3>3
  <2>5. ZipsExplained(s)'
    BY <1>1, <1>2, <2>1 DEF ZipsExplained
  <2> QED BY <2>1, <2>3, <2>4, <2>5 DEF OtherDisks
<1> QED BY <1>5, <1>6, <1>7, <1>8, <1>9 DEF TranslateSlack

\* A step that counts as a fault is recorded.
LEMMA FaultRecorded ==
  ASSUME TypeOK, FailuresTyped, NEW s \in Supervisors, cur[s] \in Translations,
         NEW call, Charge(s, call), Fault
  PROVE  call \in failures'[cur[s]]
<1>1. faults' # faults
  BY ConstantsAssumption DEF TypeOK
<1> QED BY <1>1, Recorded DEF Charge

LEMMA SuperviseFiles ==
  ASSUME TypeOK, FilesTyped, FailuresTyped, NEW s \in Supervisors, Fresh(s),
         \/ Plain(s) \/ CompleteTranslation(s) \/ ValidateOutput(s) \/ Cleanup(s)
         \/ UnlockAtEnd(s) \/ Kill(s),
         DirsExplained(s), ZipsExplained(s)
  PROVE  DirsExplained(s)' /\ ZipsExplained(s)' /\ OtherDisks(s)
<1>1. /\ workdirs[s] \subseteq Translations /\ zips[s] \subseteq Translations
      /\ \A t \in Translations : /\ DirCause(t) => DirCause(t)'
                                 /\ ZipCause(t) => ZipCause(t)'
  BY SuperviseTyped, CausesKept DEF FilesTyped
<1>2. workdirs' = workdirs
  BY DEF Plain, CompleteTranslation, ValidateOutput, Cleanup, UnlockAtEnd, Kill,
     ForgetTranslation
<1>3. ASSUME pc[s] # "translating" \/ ~Slack(s)
      PROVE  DirsExplained(s)'
  BY <1>1, <1>2, <1>3 DEF DirsExplained
\* Nothing that s remembers keeps an archive.
<1>4. ASSUME \/ ~Slack(s) \/ pc[s] \in {"idle", "selected", "locked"}
             \/ pc[s] = "unlocking" /\ stage[s] # "deferred",
             zips' = zips
      PROVE  ZipsExplained(s)'
  BY <1>1, <1>4 DEF ZipsExplained
\* s goes on to the cleanup.
<1>5. ASSUME pc[s] \in {"completing", "validating", "importing"}, cur' = cur,
             pc'[s] \in {"validating", "importing", "unlocking"},
             stage'[s] = "deferred", zips' = zips
      PROVE  ZipsExplained(s)'
  BY <1>1, <1>5 DEF ZipsExplained, Slack
<1>6. CASE Plain(s)
  <2>1. zips' = zips /\ stage' = stage
    BY <1>6 DEF Plain
  <2>2. CASE CreateImport(s)
    <3>1. /\ pc[s] = "importing" /\ pc'[s] = "unlocking" /\ cur' = cur
      BY <2>2 DEF CreateImport, TypeOK
    <3>2. ZipsExplained(s)'
      BY <1>1, <2>1, <3>1 DEF ZipsExplained, Slack
    <3> QED BY <1>2, <1>3, <2>1, <3>1, <3>2 DEF OtherDisks
  <2>3. CASE ~CreateImport(s)
    <3>1. ~Slack(s) \/ pc[s] \in {"idle", "selected", "locked"}
      BY <1>6, <2>3 DEF Plain, GetTranslationReadyToStart, WinLock, LoseLock,
         NewTranslatorFails, MarkStarted
    <3> QED BY <1>2, <1>3, <1>4, <2>1, <3>1 DEF OtherDisks
  <2> QED BY <2>2, <2>3
<1>7. CASE CompleteTranslation(s)
  <2>1. /\ pc[s] = "completing" /\ cur[s] \in Translations /\ cur' = cur
        /\ zips' = zips
        /\ \/ pc'[s] = "validating" /\ stage'[s] = "deferred"
           \/ pc'[s] = "unlocking" /\ Fault /\ Charge(s, "database")
    BY <1>7 DEF CompleteTranslation, MarkComplete, UpdateFails, Enter, FilesTyped,
       TypeOK
  <2>2. CASE Fault /\ Charge(s, "database")
    <3>1. ZipCause(cur[s])'
      BY <2>1, <2>2, FaultRecorded DEF ZipCause
    <3>2. ZipsExplained(s)'
      BY <1>1, <2>1, <3>1 DEF ZipsExplained
    <3> QED BY <1>2, <1>3, <2>1, <3>2 DEF OtherDisks
  <2> QED BY <1>2, <1>3, <1>5, <2>1, <2>2 DEF OtherDisks
<1>8. CASE ValidateOutput(s)
  <2>1. /\ pc[s] = "validating" /\ pc'[s] \in {"importing", "unlocking"}
        /\ cur' = cur /\ stage' = stage /\ zips' = zips
    BY <1>8 DEF ValidateOutput, Validate, TypeOK
  <2>2. ZipsExplained(s)'
    BY <1>1, <2>1 DEF ZipsExplained, Slack
  <2> QED BY <1>2, <1>3, <2>1, <2>2 DEF OtherDisks
<1>9. CASE Cleanup(s)
  <2>1. pc[s] = "unlocking" /\ cur[s] \in Translations /\ cur' = cur
    BY <1>9 DEF Cleanup, TypeOK, vars
  <2>2. CASE zips' = Remove(zips, s)
    <3>1. /\ zips'[s] = zips[s] \ {cur[s]}
          /\ \A r \in Supervisors \ {s} : zips'[r] = zips[r]
      BY <2>2 DEF Remove, FilesTyped
    <3>2. ZipsExplained(s)'
      BY <1>1, <3>1 DEF ZipsExplained
    <3> QED BY <1>2, <1>3, <2>1, <3>1, <3>2 DEF OtherDisks
  <2>3. CASE zips' = zips /\ Failure(s, "cleanup")
    <3>1. ZipCause(cur[s])'
      BY <2>1, <2>3, Recorded DEF ZipCause
    <3>2. ZipsExplained(s)'
      BY <1>1, <2>1, <2>3, <3>1 DEF ZipsExplained
    <3> QED BY <1>2, <1>3, <2>1, <2>3, <3>2 DEF OtherDisks
  <2> QED BY <1>9, <2>2, <2>3 DEF Cleanup
<1>10. CASE UnlockAtEnd(s)
  <2>1. pc[s] = "unlocking" /\ stage[s] # "deferred" /\ zips' = zips
    BY <1>10 DEF UnlockAtEnd, UnlockTranslation, ForgetTranslation
  <2> QED BY <1>2, <1>3, <1>4, <2>1 DEF OtherDisks
<1>11. CASE Kill(s)
  <2>1. cur[s] \in Translations /\ Fault /\ Charge(s, "process") /\ zips' = zips
    BY <1>11 DEF Kill, Crash, ForgetTranslation, TypeOK
  <2>2. "process" \in failures'[cur[s]]
    BY <2>1, FaultRecorded
  <2>3. DirsExplained(s)' /\ ZipsExplained(s)'
    BY <1>1, <1>2, <2>1, <2>2 DEF DirsExplained, ZipsExplained, DirCause, ZipCause
  <2> QED BY <1>2, <2>1, <2>3 DEF OtherDisks
<1> QED BY <1>6, <1>7, <1>8, <1>9, <1>10, <1>11

LEMMA FilesStep ==
  ASSUME SlackTypeOK, FilesInv, [SlackNext]_<<vars, slack>>
  PROVE  FilesInv'
<1>1. /\ TypeOK /\ FilesTyped /\ FailuresTyped
      /\ \A s \in Supervisors : Fresh(s) /\ DirsExplained(s) /\ ZipsExplained(s)
  BY SlackTypeParts DEF FilesInv
<1>2. ASSUME NEW s \in Supervisors, SuperviseSlack(s) \/ Kill(s)
      PROVE  FilesInv'
  <2>1. /\ DirsExplained(s)' /\ ZipsExplained(s)'
        /\ OtherDisks(s) /\ OthersKept(s) /\ FailuresGrow
    <3>1. CASE TranslateSlack(s)
      BY <1>1, <3>1, StageFiles, StageTyped
    <3>2. CASE ~TranslateSlack(s)
      BY <1>1, <1>2, <3>2, SuperviseFiles, SuperviseTyped DEF SuperviseSlack
    <3> QED BY <3>1, <3>2
  <2>2. ASSUME NEW r \in Supervisors, r # s
        PROVE  DirsExplained(r)' /\ ZipsExplained(r)'
    <3>1. /\ workdirs'[r] = workdirs[r] /\ zips'[r] = zips[r]
          /\ pc'[r] = pc[r] /\ cur'[r] = cur[r] /\ stage'[r] = stage[r]
          /\ workdirs[r] \subseteq Translations /\ zips[r] \subseteq Translations
          /\ DirsExplained(r) /\ ZipsExplained(r)
      BY <1>1, <2>1, <2>2 DEF OtherDisks, OthersKept, FilesTyped
    <3>2. \A t \in Translations : /\ DirCause(t) => DirCause(t)'
                                  /\ ZipCause(t) => ZipCause(t)'
      BY <2>1, CausesKept
    <3> QED BY <3>1, <3>2 DEF DirsExplained, ZipsExplained, Slack
  <2> QED BY <2>1, <2>2 DEF FilesInv
<1>3. ASSUME UNCHANGED <<pc, cur, slack>>
      PROVE  FilesInv'
  BY <1>1, <1>3 DEF FilesInv, DirsExplained, ZipsExplained, DirCause, ZipCause, Slack
<1>4. ASSUME NEW t \in Translations, CreateTranslation(t), UNCHANGED slack
      PROVE  FilesInv'
  BY <1>3, <1>4 DEF CreateTranslation
<1>5. CASE UNCHANGED <<vars, slack>>
  BY <1>3, <1>5 DEF vars
<1> QED BY <1>2, <1>4, <1>5 DEF SlackNext

LEMMA FilesAlways == SlackSpec => []FilesInv
<1>1. SlackInit => FilesInv
  BY DEF SlackInit, SlackAtRest, FilesInv, DirsExplained, ZipsExplained
<1>2. SlackTypeOK /\ FilesInv /\ [SlackNext]_<<vars, slack>> => FilesInv'
  BY FilesStep
<1> QED BY <1>1, <1>2, SlackTypeCorrect, PTL DEF SlackSpec

\* However many servers translate, and whatever fails: Translate() leaves no
\* directory behind but when its removal fails or the process ends.
THEOREM WorkdirsRemoved == SlackSpec => []WorkdirRemoved
<1>1. FilesInv => WorkdirRemoved
  BY DEF FilesInv, DirsExplained, DirCause, WorkdirRemoved, AtWork, Holds
<1> QED BY <1>1, FilesAlways, PTL

\* An output archive stays on a server's disk only for one of five causes; that
\* its validation failed is none of them.
THEOREM ZipsRemoved == SlackSpec => []ZipRemoved
<1>1. FilesInv => ZipRemoved
  BY DEF FilesInv, ZipsExplained, ZipCause, ZipRemoved, AtWork, Holds
<1> QED BY <1>1, FilesAlways, PTL

--------------------------------------------------------------------------------
(* Why a translation is abandoned *)

\* It has its import, or a call for it has failed.
Caused(t) == failures[t] # {} \/ imports[t] > 0

\* The statements between the one that starts it and the deferred unlock.
Busy == {"translating", "completing", "validating", "importing"}

StartsExplained ==
    \A t \in Translations :
        translations[t].StartAt =>
            Caused(t) \/ \E s \in Supervisors : cur[s] = t /\ pc[s] \in Busy

LeavesForCause(s) ==
    /\ pc[s] \in {"selected", "locked"} => ~copy[s].StartAt
    /\ pc[s] = "unlocking" /\ copy[s].StartAt => Caused(cur[s])
    /\ pc[s] \in Busy => Type[cur[s]] \in BackupTypes
    /\ pc[s] = "translating" /\ stage[s] \in {"failed", "refused"} =>
           failures[cur[s]] # {}

AbandonInv == StartsExplained /\ \A s \in Supervisors : LeavesForCause(s)

\* What a step of s contributes to it.
Explains(s) ==
    /\ \A t \in Translations :
         /\ imports[t] > 0 => imports'[t] > 0
         /\ translations'[t].StartAt =>
                \/ translations[t].StartAt \/ Caused(t)'
                \/ cur'[s] = t /\ pc'[s] \in Busy
         /\ cur[s] = t /\ pc[s] \in Busy =>
                \/ cur'[s] = t /\ pc'[s] \in Busy
                \/ Caused(t)'
    /\ LeavesForCause(s)'

\* A step under the translation of s that leaves the tables alone.
LEMMA BusyExplains ==
  ASSUME NEW s \in Supervisors, UNCHANGED <<translations, imports>>,
         LeavesForCause(s), FailuresGrow, cur[s] \in Translations, cur' = cur,
         pc[s] \in Busy,
         \/ pc'[s] \in Busy /\ (pc'[s] = "translating" /\ stage'[s] \in {"failed", "refused"}
                                    => failures'[cur[s]] # {})
         \/ pc'[s] = "unlocking" /\ failures'[cur[s]] # {}
  PROVE  Explains(s)
BY DEF Explains, LeavesForCause, Caused, Busy

LEMMA StageExplains ==
  ASSUME TypeOK, FilesTyped, FailuresTyped, NEW s \in Supervisors,
         TranslateSlack(s), LeavesForCause(s)
  PROVE  Explains(s)
<1>1. /\ pc[s] = "translating" /\ cur[s] \in Translations /\ Slack(s)
      /\ cur' = cur /\ UNCHANGED <<translations, imports>>
  BY DEF TypeOK, TranslateSlack, AtStage, MakeWorkdir, fetchSlackArchive,
         addFilesToSlackArchive, TransformSlack, createOutputZipfile,
         uploadTransformedZip, ReturnFromTranslate, Translate, vars
<1>2. FailuresGrow
  BY StageTyped
<1>3. CASE ReturnFromTranslate(s)
  <2>1. /\ stage' = stage /\ stage[s] \in {"stored", "failed", "refused"}
        /\ pc'[s] = IF stage[s] = "stored" THEN "completing" ELSE "unlocking"
    BY <1>3 DEF ReturnFromTranslate
  <2>2. stage[s] # "stored" => failures'[cur[s]] # {}
    BY <1>1, <1>2, <2>1 DEF LeavesForCause, FailuresGrow
  <2> QED BY <1>1, <1>2, <2>1, <2>2, BusyExplains DEF Busy
<1>4. CASE ~ReturnFromTranslate(s)
  <2>1. pc' = pc
    BY <1>4 DEF TranslateSlack, AtStage, MakeWorkdir, fetchSlackArchive,
       addFilesToSlackArchive, TransformSlack, createOutputZipfile,
       uploadTransformedZip, vars
  <2>2. stage'[s] \in {"failed", "refused"} => \E call \in Calls : Failure(s, call)
    BY <1>4 DEF TranslateSlack, AtStage, MakeWorkdir, fetchSlackArchive,
       addFilesToSlackArchive, TransformSlack, createOutputZipfile,
       uploadTransformedZip, Abort, Enter, FilesTyped
  <2>3. stage'[s] \in {"failed", "refused"} => failures'[cur[s]] # {}
    BY <1>1, <2>2, Recorded
  <2> QED BY <1>1, <1>2, <2>1, <2>3, BusyExplains DEF Busy
<1> QED BY <1>3, <1>4

LEMMA SuperviseExplains ==
  ASSUME TypeOK, FilesTyped, FailuresTyped, NEW s \in Supervisors, Fresh(s),
         \/ Plain(s) \/ CompleteTranslation(s) \/ ValidateOutput(s) \/ Cleanup(s)
         \/ UnlockAtEnd(s) \/ Kill(s),
         LeavesForCause(s)
  PROVE  Explains(s)
<1>1. FailuresGrow
  BY SuperviseTyped
<1>2. pc[s] # "idle" => /\ cur[s] \in Translations /\ copy[s] \in Row
                        /\ translations[cur[s]] \in Row
  BY DEF TypeOK
<1>3. CASE Plain(s) /\ GetTranslationReadyToStart(s)
  <2>1. PICK t \in Translations : /\ ~translations[t].StartAt
                                  /\ copy' = [copy EXCEPT ![s] = translations[t]]
    BY <1>3 DEF GetTranslationReadyToStart, ReadyToStart, Ready
  <2>2. /\ pc[s] = "idle" /\ pc'[s] = "selected" /\ ~copy'[s].StartAt
        /\ UNCHANGED <<translations, imports>>
    BY <1>3, <2>1 DEF GetTranslationReadyToStart, TypeOK
  <2> QED BY <2>2 DEF Explains, LeavesForCause, Busy
<1>4. CASE Plain(s) /\ (WinLock(s) \/ LoseLock(s))
  <2>1. /\ pc[s] = "selected" /\ pc'[s] \in {"locked", "idle"} /\ imports' = imports
        /\ pc'[s] = "locked" => copy'[s] = LockedRow(copy[s], s)
    BY <1>4 DEF WinLock, LoseLock, Return, TypeOK
  <2>2. \/ translations' = translations
        \/ translations' = [translations EXCEPT ![cur[s]] =
                               LockedRow(translations[cur[s]], s)]
    BY <1>4 DEF WinLock, LoseLock, UpdateFails
  <2>3. \A t \in Translations : translations'[t].StartAt = translations[t].StartAt
    BY <1>2, <2>1, <2>2 DEF LockedRow, Row, TypeOK
  <2>4. pc'[s] = "locked" => ~copy'[s].StartAt
    BY <1>2, <2>1 DEF LockedRow, Row, LeavesForCause
  <2> QED BY <2>1, <2>3, <2>4 DEF Explains, LeavesForCause, Busy
<1>5. CASE Plain(s) /\ NewTranslatorFails(s)
  <2>1. /\ pc[s] = "locked" /\ pc'[s] = "unlocking" /\ copy' = copy
        /\ UNCHANGED <<translations, imports>>
    BY <1>5 DEF NewTranslatorFails, TypeOK
  <2> QED BY <2>1 DEF Explains, LeavesForCause, Busy
\* A row that s has written, with the label it goes on to.
<1>6. ASSUME NEW row, \/ translations' = translations
                      \/ translations' = [translations EXCEPT ![cur[s]] = row],
             imports' = imports, cur[s] \in Translations, cur' = cur,
             Type[cur[s]] \in BackupTypes, stage'[s] \notin {"failed", "refused"},
             \/ pc'[s] \in Busy
             \/ pc'[s] = "unlocking" /\ failures'[cur[s]] # {}
      PROVE  Explains(s)
  <2>1. \A t \in Translations : t # cur[s] => translations'[t] = translations[t]
    BY <1>6 DEF TypeOK
  <2> QED BY <1>6, <2>1 DEF Explains, LeavesForCause, Caused, Busy
<1>7. CASE Plain(s) /\ MarkStarted(s)
  <2>1. /\ pc[s] = "locked" /\ cur' = cur /\ imports' = imports
        /\ Type[cur[s]] \in BackupTypes
        /\ \/ pc'[s] = "translating"
           \/ pc'[s] = "unlocking" /\ Fault /\ Charge(s, "database")
        /\ \/ translations' = translations
           \/ translations' = [translations EXCEPT ![cur[s]] = StartedRow(copy[s])]
    BY <1>7 DEF Plain, MarkStarted, UpdateFails, TypeOK
  <2>2. pc'[s] = "unlocking" => failures'[cur[s]] # {}
    BY <1>2, <2>1, FaultRecorded
  <2>3. stage'[s] = "none"
    BY <1>7, <2>1 DEF Plain, Fresh
  <2> QED BY <1>2, <1>6, <2>1, <2>2, <2>3 DEF Busy
<1>8. CASE Plain(s) /\ CreateImport(s)
  <2>1. /\ pc[s] = "importing" /\ pc'[s] = "unlocking" /\ cur' = cur
        /\ translations' = translations
        /\ \/ imports' = [imports EXCEPT ![cur[s]] = @ + 1]
           \/ imports' = imports /\ Fault /\ Charge(s, "database")
    BY <1>8 DEF Plain, CreateImport, TypeOK
  <2>2. CASE imports' = [imports EXCEPT ![cur[s]] = @ + 1]
    <3>1. /\ imports'[cur[s]] > 0
          /\ \A t \in Translations : imports[t] > 0 => imports'[t] > 0
      BY <1>2, <2>1, <2>2 DEF TypeOK
    <3> QED BY <1>2, <2>1, <3>1 DEF Explains, LeavesForCause, Caused, Busy
  <2>3. CASE imports' = imports /\ Fault /\ Charge(s, "database")
    <3>1. failures'[cur[s]] # {}
      BY <1>2, <2>1, <2>3, FaultRecorded
    <3> QED BY <1>1, <1>2, <2>1, <2>3, <3>1, BusyExplains DEF Busy
  <2> QED BY <2>1, <2>2, <2>3
<1>9. CASE CompleteTranslation(s) \/ (Plain(s) /\ MarkComplete(s))
  <2>1. /\ pc[s] = "completing" /\ cur' = cur /\ imports' = imports
        /\ \/ pc'[s] = "validating"
           \/ pc'[s] = "unlocking" /\ Fault /\ Charge(s, "database")
        /\ \/ translations' = translations
           \/ translations' = [translations EXCEPT ![cur[s]] = copy[s]]
    BY <1>9 DEF CompleteTranslation, Plain, MarkComplete, UpdateFails, TypeOK
  <2>2. pc'[s] = "unlocking" => failures'[cur[s]] # {}
    BY <1>2, <2>1, FaultRecorded
  <2>3. \A t \in Translations : t # cur[s] => translations'[t] = translations[t]
    BY <1>2, <2>1 DEF TypeOK
  <2> QED BY <1>2, <2>1, <2>2, <2>3 DEF Explains, LeavesForCause, Caused, Busy
<1>10. CASE Plain(s) /\ (Translate(s) \/ Validate(s)) /\ ~Slack(s)
  <2>1. Type[cur[s]] = "mattermost"
    BY <1>10 DEF LeavesForCause, Translate, Validate, Busy, BackupTypes, Slack
  <2>2. /\ pc[s] \in {"translating", "validating"}
        /\ pc'[s] \in {"completing", "importing"} /\ cur' = cur
        /\ UNCHANGED <<translations, imports>>
    BY <1>10, <2>1 DEF Translate, Validate, TypeOK
  <2> QED BY <1>1, <1>2, <2>2, BusyExplains DEF Busy
<1>11. CASE ValidateOutput(s)
  <2>1. /\ pc[s] = "validating" /\ cur' = cur /\ UNCHANGED <<translations, imports>>
        /\ \/ pc'[s] = "importing"
           \/ pc'[s] = "unlocking" /\ Failure(s, "validate")
    BY <1>11 DEF ValidateOutput, Validate, TypeOK
  <2>2. pc'[s] = "unlocking" => failures'[cur[s]] # {}
    BY <1>2, <2>1, Recorded
  <2> QED BY <1>1, <1>2, <2>1, <2>2, BusyExplains DEF Busy
<1>12. CASE Cleanup(s)
  <2>1. /\ pc[s] = "unlocking" /\ pc' = pc /\ cur' = cur /\ copy' = copy
        /\ UNCHANGED <<translations, imports>>
    BY <1>12 DEF Cleanup, vars
  <2>2. Caused(cur[s]) => Caused(cur[s])'
    BY <1>1, <1>2, <2>1 DEF Caused, FailuresGrow
  <2> QED BY <2>1, <2>2 DEF Explains, LeavesForCause, Busy
<1>13. CASE UnlockAtEnd(s)
  <2>1. /\ pc[s] = "unlocking" /\ pc'[s] = "idle" /\ imports' = imports
        /\ \/ translations' = translations
           \/ translations' = [translations EXCEPT ![cur[s]] = UnlockedRow(copy[s])]
    BY <1>13 DEF UnlockAtEnd, UnlockTranslation, UpdateFails, Return, TypeOK
  <2>2. UnlockedRow(copy[s]).StartAt = copy[s].StartAt
    BY <1>2, <2>1 DEF UnlockedRow, Row
  <2>3. copy[s].StartAt => \A t \in Translations : t = cur[s] => Caused(t)'
    BY <1>1, <2>1 DEF LeavesForCause, Caused, FailuresGrow
  <2>4. \A t \in Translations :
           translations'[t].StartAt => translations[t].StartAt \/ Caused(t)'
    BY <1>2, <2>1, <2>2, <2>3 DEF TypeOK
  <2> QED BY <2>1, <2>4 DEF Explains, LeavesForCause, Busy
<1>14. CASE Kill(s)
  <2>1. /\ cur[s] \in Translations /\ Fault /\ Charge(s, "process") /\ pc'[s] = "idle"
        /\ UNCHANGED <<translations, imports>>
    BY <1>14 DEF Kill, Crash, Return, TypeOK
  <2>2. failures'[cur[s]] # {}
    BY <2>1, FaultRecorded
  <2> QED BY <2>1, <2>2 DEF Explains, LeavesForCause, Caused, Busy
<1> QED
  BY <1>3, <1>4, <1>5, <1>7, <1>8, <1>9, <1>10, <1>11, <1>12, <1>13, <1>14 DEF Plain

LEMMA CopiesKept ==
  ASSUME TypeOK, NEW s \in Supervisors, SuperviseSlack(s) \/ Kill(s)
  PROVE  \A r \in Supervisors \ {s} : copy'[r] = copy[r]
<1>1. CASE TranslateSlack(s)
  BY <1>1 DEF TranslateSlack, AtStage, MakeWorkdir, fetchSlackArchive,
     addFilesToSlackArchive, TransformSlack, createOutputZipfile,
     uploadTransformedZip, ReturnFromTranslate, Translate, TypeOK, vars
<1>2. CASE Plain(s)
  <2>1. \/ copy' = copy
        \/ \E row : copy' = [copy EXCEPT ![s] = row]
    BY <1>2 DEF Plain, GetTranslationReadyToStart, WinLock, LoseLock, Return,
       NewTranslatorFails, MarkStarted, CreateImport, Translate, MarkComplete, Validate
  <2> QED BY <2>1 DEF TypeOK
<1>3. CASE CompleteTranslation(s) \/ ValidateOutput(s) \/ Cleanup(s)
  BY <1>3 DEF CompleteTranslation, MarkComplete, ValidateOutput, Validate, Cleanup, vars
<1>4. CASE UnlockAtEnd(s) \/ Kill(s)
  BY <1>4 DEF UnlockAtEnd, UnlockTranslation, Kill, Crash, Return, TypeOK
<1> QED BY <1>1, <1>2, <1>3, <1>4 DEF SuperviseSlack

LEMMA AbandonStep ==
  ASSUME SlackTypeOK, AbandonInv, [SlackNext]_<<vars, slack>>
  PROVE  AbandonInv'
<1>1. /\ TypeOK /\ FilesTyped /\ FailuresTyped
      /\ \A s \in Supervisors : Fresh(s) /\ LeavesForCause(s)
  BY SlackTypeParts DEF AbandonInv
<1>2. ASSUME NEW s \in Supervisors, SuperviseSlack(s) \/ Kill(s)
      PROVE  AbandonInv'
  <2>1. Explains(s) /\ OthersKept(s) /\ FailuresGrow
    <3>1. CASE TranslateSlack(s)
      BY <1>1, <3>1, StageExplains, StageTyped
    <3>2. CASE ~TranslateSlack(s)
      BY <1>1, <1>2, <3>2, SuperviseExplains, SuperviseTyped DEF SuperviseSlack
    <3> QED BY <3>1, <3>2
  <2>2. \A t \in Translations : Caused(t) => Caused(t)'
    BY <2>1 DEF Explains, FailuresGrow, Caused
  <2>3. ASSUME NEW r \in Supervisors
        PROVE  LeavesForCause(r)'
    <3>1. CASE r = s
      BY <2>1, <3>1 DEF Explains
    <3>2. CASE r # s
      <4>1. /\ pc'[r] = pc[r] /\ cur'[r] = cur[r]
            /\ stage'[r] = stage[r] /\ copy'[r] = copy[r]
        BY <1>1, <1>2, <2>1, <3>2, CopiesKept DEF OthersKept
      <4>2. pc[r] # "idle" => /\ cur[r] \in Translations
                              /\ failures[cur[r]] \subseteq failures'[cur[r]]
        BY <1>1, <2>1 DEF TypeOK, FailuresGrow
      <4>3. \A t \in Translations : t = cur[r] /\ Caused(t) => Caused(t)'
        BY <2>2
      <4> QED BY <1>1, <4>1, <4>2, <4>3 DEF LeavesForCause, Caused, Busy
    <3> QED BY <3>1, <3>2
  <2>4. ASSUME NEW t \in Translations, translations'[t].StartAt
        PROVE  Caused(t)' \/ \E r \in Supervisors : cur'[r] = t /\ pc'[r] \in Busy
    <3>1. CASE cur'[s] = t /\ pc'[s] \in Busy
      BY <3>1
    <3>2. CASE Caused(t)'
      BY <3>2
    <3>3. CASE translations[t].StartAt /\ ~Caused(t)
      <4>1. PICK r \in Supervisors : cur[r] = t /\ pc[r] \in Busy
        BY <3>3 DEF AbandonInv, StartsExplained
      <4>2. CASE r = s
        BY <2>1, <4>1, <4>2 DEF Explains
      <4>3. CASE r # s
        BY <2>1, <4>1, <4>3 DEF OthersKept
      <4> QED BY <4>2, <4>3
    <3> QED BY <2>1, <2>2, <2>4, <3>1, <3>2, <3>3 DEF Explains
  <2> QED BY <2>3, <2>4 DEF AbandonInv, StartsExplained, Busy
<1>3. ASSUME UNCHANGED <<translations, imports, pc, cur, copy, slack>>
      PROVE  AbandonInv'
  BY <1>3 DEF AbandonInv, StartsExplained, LeavesForCause, Caused, Busy
<1>4. ASSUME NEW t \in Translations, CreateTranslation(t), UNCHANGED slack
      PROVE  AbandonInv'
  BY <1>3, <1>4 DEF CreateTranslation
<1>5. CASE UNCHANGED <<vars, slack>>
  BY <1>3, <1>5 DEF vars
<1> QED BY <1>2, <1>4, <1>5 DEF SlackNext

\* However many servers translate: a translation that was begun and that none
\* of them works on has its import, or a call for it has failed.
THEOREM AbandonedHasCause == SlackSpec => []AbandonedForCause
<1>1. SlackInit => AbandonInv
  BY DEF SlackInit, SlackAtRest, Init, NewRow, AbandonInv, StartsExplained, LeavesForCause, Busy
<1>2. SlackTypeOK /\ AbandonInv /\ [SlackNext]_<<vars, slack>> => AbandonInv'
  BY AbandonStep
<1>3. SlackTypeOK /\ AbandonInv => AbandonedForCause
  BY DEF SlackTypeOK, TypeOK, AbandonInv, StartsExplained, Caused, Busy,
         AbandonedForCause, Holders, Holds
<1> QED BY <1>1, <1>2, <1>3, SlackTypeCorrect, PTL DEF SlackSpec

--------------------------------------------------------------------------------
(* What is imported is all that was exported *)

WholeSoFar(s) == parts[s] = Export[cur[s]] \/ "entry" \in failures[cur[s]]

\* The error that spoils the archive at its end leaves it without any part.
WholeInOrder(s) ==
    pc[s] # "idle" /\ Slack(s) =>
        /\ stage[s] \in {"input", "files", "mbif"} => WholeSoFar(s)
        /\ stage[s] \in {"zip", "stored", "deferred"} =>
               parts[s] = {} \/ WholeSoFar(s)

WholeInv == ImportedIsWhole /\ \A s \in Supervisors : WholeInOrder(s)

LEMMA StageWhole ==
  ASSUME TypeOK, FilesTyped, FailuresTyped, NEW s \in Supervisors,
         TranslateSlack(s), WholeInOrder(s)
  PROVE  WholeInOrder(s)'
<1>1. /\ pc[s] = "translating" /\ cur[s] \in Translations /\ Slack(s) /\ cur' = cur
  BY DEF TypeOK, TranslateSlack, AtStage, MakeWorkdir, fetchSlackArchive,
         addFilesToSlackArchive, TransformSlack, createOutputZipfile,
         uploadTransformedZip, ReturnFromTranslate, Translate, vars
<1>2. FailuresGrow
  BY StageTyped
<1>3. ASSUME parts' = parts, WholeSoFar(s)
      PROVE  WholeSoFar(s)'
  BY <1>1, <1>2, <1>3 DEF WholeSoFar, FailuresGrow
<1>4. Failure(s, "entry") => WholeSoFar(s)'
  BY <1>1, Recorded DEF WholeSoFar
<1>5. stage'[s] \in {"workdir", "refused", "failed"} => WholeInOrder(s)'
  BY DEF WholeInOrder
<1>6. CASE MakeWorkdir(s)
  <2>1. stage'[s] \in {"workdir", "refused"}
    BY <1>6 DEF MakeWorkdir, Enter, FilesTyped
  <2> QED BY <1>5, <2>1
<1>7. CASE fetchSlackArchive(s)
  <2>1. \/ stage'[s] = "failed"
        \/ stage'[s] = "input" /\ parts'[s] = Export[cur[s]]
    BY <1>7 DEF fetchSlackArchive, Abort, Enter, Has, FilesTyped
  <2> QED BY <1>1, <1>5, <2>1 DEF WholeInOrder, WholeSoFar
<1>8. CASE addFilesToSlackArchive(s)
  <2>1. \/ stage'[s] = "failed"
        \/ stage'[s] = "files" /\ (parts' = parts \/ Failure(s, "entry"))
    BY <1>8 DEF addFilesToSlackArchive, FetchAttachedFiles, Abort, Enter, FilesTyped
  <2>2. WholeSoFar(s)
    BY <1>1, <1>8 DEF addFilesToSlackArchive, AtStage, WholeInOrder
  <2> QED BY <1>3, <1>4, <1>5, <2>1, <2>2 DEF WholeInOrder
<1>9. CASE TransformSlack(s)
  <2>1. \/ stage'[s] = "failed"
        \/ stage'[s] = "mbif" /\ parts' = parts
    BY <1>9 DEF TransformSlack, Abort, Enter, FilesTyped
  <2>2. WholeSoFar(s)
    BY <1>1, <1>9 DEF TransformSlack, AtStage, WholeInOrder
  <2> QED BY <1>3, <1>5, <2>1, <2>2 DEF WholeInOrder
<1>10. CASE createOutputZipfile(s)
  <2>1. \/ stage'[s] = "failed"
        \/ /\ stage'[s] = "zip"
           /\ parts' = parts \/ Failure(s, "entry") \/ parts'[s] = {}
    BY <1>10 DEF createOutputZipfile, Abort, Enter, Has, FilesTyped
  <2>2. WholeSoFar(s)
    BY <1>1, <1>10 DEF createOutputZipfile, AtStage, WholeInOrder
  <2> QED BY <1>3, <1>4, <1>5, <2>1, <2>2 DEF WholeInOrder
<1>11. CASE uploadTransformedZip(s)
  <2>1. \/ stage'[s] = "failed"
        \/ stage'[s] = "stored" /\ parts' = parts
    BY <1>11 DEF uploadTransformedZip, Abort, Enter, FilesTyped
  <2>2. parts[s] = {} \/ WholeSoFar(s)
    BY <1>1, <1>11 DEF uploadTransformedZip, AtStage, WholeInOrder
  <2> QED BY <1>3, <1>5, <2>1, <2>2 DEF WholeInOrder
<1>12. CASE ReturnFromTranslate(s)
  <2>1. UNCHANGED <<stage, parts>> /\ stage[s] \in {"stored", "failed", "refused"}
    BY <1>12 DEF ReturnFromTranslate
  <2>2. CASE stage[s] = "stored"
    BY <1>1, <1>3, <2>1, <2>2 DEF WholeInOrder
  <2> QED BY <1>5, <2>1, <2>2
<1> QED
  BY <1>6, <1>7, <1>8, <1>9, <1>10, <1>11, <1>12 DEF TranslateSlack

LEMMA WholeKept ==
  ASSUME ImportedIsWhole, FailuresGrow, ImportsKept
  PROVE  ImportedIsWhole'
BY DEF ImportedIsWhole, FailuresGrow, ImportsKept

LEMMA SuperviseWhole ==
  ASSUME SlackTypeOK, OutputInv, WholeInv, NEW s \in Supervisors,
         \/ Plain(s) \/ CompleteTranslation(s) \/ ValidateOutput(s) \/ Cleanup(s)
         \/ UnlockAtEnd(s) \/ Kill(s)
  PROVE  ImportedIsWhole' /\ WholeInOrder(s)'
<1>1. /\ TypeOK /\ FilesTyped /\ FailuresTyped /\ Fresh(s)
      /\ ImportedIsWhole /\ OutputInOrder(s) /\ WholeInOrder(s)
  BY SlackTypeParts DEF OutputInv, WholeInv
<1>2. FailuresGrow
  BY <1>1, SuperviseTyped
<1>3. UNCHANGED <<bucket, content>>
  BY DEF Plain, CompleteTranslation, ValidateOutput, Cleanup, UnlockAtEnd, Kill,
         ForgetTranslation
<1>4. imports' = imports => ImportedIsWhole'
  BY <1>1, <1>2, <1>3, WholeKept DEF ImportsKept
<1>5. ASSUME cur[s] \in Translations, cur' = cur, parts' = parts, pc[s] # "idle",
             \/ stage' = stage
             \/ stage[s] = "stored" /\ stage'[s] = "deferred"
      PROVE  WholeInOrder(s)'
  BY <1>1, <1>2, <1>5 DEF WholeInOrder, WholeSoFar, Slack, FailuresGrow
<1>6. pc'[s] = "idle" \/ stage'[s] = "none" => WholeInOrder(s)'
  BY DEF WholeInOrder
<1>7. CASE Plain(s)
  <2>1. CASE CreateImport(s)
    <3>1. /\ pc[s] = "importing" /\ cur' = cur
          /\ cur[s] \in Translations /\ UNCHANGED <<stage, parts>>
          /\ \A t \in Translations \ {cur[s]} : imports'[t] = imports[t]
      BY <1>1, <1>7, <2>1 DEF Plain, CreateImport, TypeOK
    <3>2. WholeInOrder(s)'
      BY <1>5, <3>1
    <3>3. Type[cur[s]] = "slack" =>
              content[cur[s]] = Export[cur[s]] \/ {"entry", "open"} \cap failures[cur[s]] # {}
      BY <1>1, <3>1 DEF OutputInOrder, WholeInOrder, WholeSoFar, InBucket, Slack
    <3>4. ImportedIsWhole'
      BY <1>1, <1>2, <1>3, <3>1, <3>3 DEF ImportedIsWhole, FailuresGrow
    <3> QED BY <3>2, <3>4
  <2>2. CASE ~CreateImport(s)
    <3>1. imports' = imports
      BY <1>7, <2>2 DEF Plain, GetTranslationReadyToStart, WinLock, LoseLock,
         NewTranslatorFails, MarkStarted, Translate, MarkComplete, Validate
    <3>2. CASE pc[s] \in {"idle", "selected", "locked"}
      <4>1. stage'[s] = "none"
        BY <1>1, <1>7, <3>2 DEF Plain, Fresh
      <4> QED BY <1>4, <1>6, <3>1, <4>1
    <3>3. CASE pc[s] \notin {"idle", "selected", "locked"}
      <4>1. /\ pc[s] # "idle" /\ cur[s] \in Translations /\ cur' = cur
            /\ UNCHANGED <<stage, parts>>
        BY <1>1, <1>7, <2>2, <3>3 DEF Plain, GetTranslationReadyToStart, WinLock,
           LoseLock, NewTranslatorFails, MarkStarted, Translate, MarkComplete,
           Validate, TypeOK
      <4> QED BY <1>4, <1>5, <3>1, <4>1
    <3> QED BY <3>2, <3>3
  <2> QED BY <2>1, <2>2
<1>8. CASE CompleteTranslation(s)
  <2>1. /\ pc[s] = "completing" /\ cur[s] \in Translations /\ Slack(s)
        /\ cur' = cur /\ parts' = parts /\ imports' = imports
        /\ stage' = stage \/ stage'[s] = "deferred"
    BY <1>1, <1>8 DEF CompleteTranslation, MarkComplete, TypeOK, FilesTyped, Enter
  <2>2. stage[s] = "stored"
    BY <1>1, <2>1 DEF OutputInOrder
  <2> QED BY <1>4, <1>5, <2>1, <2>2
<1>9. CASE ValidateOutput(s)
  <2>1. /\ pc[s] = "validating" /\ cur[s] \in Translations /\ cur' = cur
        /\ UNCHANGED <<stage, parts, imports>>
    BY <1>1, <1>9 DEF ValidateOutput, Validate, TypeOK
  <2> QED BY <1>4, <1>5, <2>1
<1>10. CASE Cleanup(s) \/ UnlockAtEnd(s) \/ Kill(s)
  <2>1. imports' = imports /\ stage'[s] = "none"
    BY <1>1, <1>10 DEF Cleanup, UnlockAtEnd, UnlockTranslation, Kill, Crash,
       ForgetTranslation, FilesTyped, Enter, vars
  <2> QED BY <1>4, <1>6, <2>1
<1> QED BY <1>7, <1>8, <1>9, <1>10

LEMMA WholeStep ==
  ASSUME OneSupervisor, SlackTypeOK, SeriesInv, OutputInv, WholeInv,
         [SlackNext]_<<vars, slack>>
  PROVE  WholeInv'
<1>1. /\ TypeOK /\ FilesTyped /\ FailuresTyped /\ ImportedIsWhole
      /\ \A s \in Supervisors : OutputInOrder(s) /\ WholeInOrder(s) /\ CopyInOrder(s)
  BY SlackTypeParts DEF OutputInv, WholeInv, SeriesInv
<1>2. ASSUME UNCHANGED <<imports, pc, cur, slack>>
      PROVE  WholeInv'
  BY <1>1, <1>2 DEF WholeInv, ImportedIsWhole, WholeInOrder, WholeSoFar, Slack
<1>3. ASSUME NEW t \in Translations, CreateTranslation(t), UNCHANGED slack
      PROVE  WholeInv'
  BY <1>2, <1>3 DEF CreateTranslation
<1>4. ASSUME NEW s \in Supervisors, SuperviseSlack(s) \/ Kill(s)
      PROVE  WholeInv'
  <2>1. ImportedIsWhole' /\ WholeInOrder(s)'
    <3>1. CASE TranslateSlack(s)
      BY <1>1, <3>1, StageOutput, StageTyped, StageWhole, WholeKept
    <3>2. CASE ~TranslateSlack(s)
      BY <1>4, <3>2, SuperviseWhole DEF SuperviseSlack
    <3> QED BY <3>1, <3>2
  <2> QED BY <2>1 DEF OneSupervisor, WholeInv
<1>5. CASE UNCHANGED <<vars, slack>>
  BY <1>2, <1>5 DEF vars
<1> QED BY <1>3, <1>4, <1>5 DEF SlackNext

\* Of one supervisor's translations no import is made but of an archive with all
\* that the export has, unless a file of it could not be read or copied, or the
\* archive not be opened: that an error of its last write is dropped spoils the
\* archive, but the validation refuses what it leaves.
THEOREM ImportOfWhole ==
  ASSUME OneSupervisor
  PROVE  SlackSpec => []ImportedIsWhole
<1>1. SlackSpec => []SeriesInv
  BY SlackImplements, SeriesAlways, PTL
<1>2. SlackInit => WholeInv
  BY DEF SlackInit, SlackAtRest, Init, WholeInv, ImportedIsWhole, WholeInOrder
<1>3. SlackTypeOK /\ SeriesInv /\ OutputInv /\ [SlackNext]_<<vars, slack>> => OutputInv'
  BY OutputStep
<1>4. /\ SlackTypeOK /\ SeriesInv /\ OutputInv /\ WholeInv
      /\ [SlackNext]_<<vars, slack>>
      => WholeInv'
  BY WholeStep
<1>5. WholeInv => ImportedIsWhole
  BY DEF WholeInv
<1> QED
  BY <1>1, <1>2, <1>3, <1>4, <1>5, InitOutput, SlackTypeCorrect, PTL DEF SlackSpec
================================================================================
