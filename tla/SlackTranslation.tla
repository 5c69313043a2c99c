--------------------------- MODULE SlackTranslation ---------------------------
(***************************************************************************)
(* What TranslationSupervisor leaves open of a Slack export: the stages of *)
(* internal/slack/translator.go with files.go and messages.go, the files   *)
(* they leave on the server's disk and in the bucket, the validation of    *)
(* the output and the cleanup.  The steps of the supervisor are those of   *)
(* TranslationSupervisor, with what they mean for the variables added here.*)
(*                                                                         *)
(* Of an archive the model keeps which parts it has: an archive that has   *)
(* none is one that no zip reader accepts.                                 *)
(***************************************************************************)
EXTENDS TranslationSupervisor

CONSTANTS Export,   \* Export[t]: the parts that mmetl finds in t's archive
          MayFail   \* bound on the calls of a translation that fail

Parts == {"users", "posts", "attachments"}

\* An export without them is refused.
Required == {"users", "posts"}

ASSUME ExportAssumption == Export \in [Translations -> SUBSET Parts]

Calls == {"mkdir", "download", "files", "entry", "transform", "zip", "close",
          "open", "upload", "rmdir", "cleanup", "validate"}

ASSUME MayFailAssumption == MayFail \subseteq Calls

VARIABLES
  stage,     \* stage[s]: how far the translation of s has come
  parts,     \* parts[s]: the parts that its last file has
  workdirs,  \* workdirs[s]: translations with a directory on the disk of s
  zips,      \* zips[s]: translations with an output archive on that disk
  bucket,    \* translations whose output archive, <ID>.zip, is in the bucket
  content,   \* content[t]: the parts of the archive last put there
  failures   \* failures[t]: what has failed for t: calls, the process

slack == <<stage, parts, workdirs, zips, bucket, content, failures>>

Stages == {"none", "workdir", "input", "files", "mbif", "zip",
           "stored", "failed", "refused", "deferred"}

\* No translation has left anything but, perhaps, archives in the bucket.
SlackAtRest ==
    /\ Init
    /\ stage = [s \in Supervisors |-> "none"]
    /\ parts = [s \in Supervisors |-> {}]
    /\ workdirs = [s \in Supervisors |-> {}]
    /\ zips = [s \in Supervisors |-> {}]
    /\ content = [t \in Translations |-> {}]
    /\ failures = [t \in Translations |-> {}]

SlackInit == SlackAtRest /\ bucket = {}

Slack(s) == Type[cur[s]] = "slack"

Enter(s, label) == stage' = [stage EXCEPT ![s] = label]

Has(s, some) == parts' = [parts EXCEPT ![s] = some]

\* A call for the translation of s fails, or none does.
Record(s, call) == failures' = [failures EXCEPT ![cur[s]] = @ \cup {call}]

Failure(s, call) == call \in MayFail /\ Record(s, call)

NoFailure == UNCHANGED failures

Create(dir, s) == [dir EXCEPT ![s] = @ \cup {cur[s]}]

Remove(dir, s) == [dir EXCEPT ![s] = @ \ {cur[s]}]

--------------------------------------------------------------------------------
(* SlackTranslator.Translate() *)

AtStage(s, label) ==
    /\ pc[s] = "translating" /\ Slack(s) /\ stage[s] = label
    /\ UNCHANGED vars

\* Translate() is on its way out with an error.
Abort(s, call) == Enter(s, "failed") /\ Has(s, {}) /\ Failure(s, call)

\* It fails on a directory that exists, before its removal is deferred.
MakeWorkdir(s) ==
    /\ AtStage(s, "none")
    /\ \/ /\ cur[s] \notin workdirs[s]
          /\ workdirs' = Create(workdirs, s)
          /\ Enter(s, "workdir") /\ NoFailure
       \/ /\ UNCHANGED workdirs
          /\ Enter(s, "refused") /\ Failure(s, "mkdir")
    /\ UNCHANGED <<parts, zips, bucket, content>>

fetchSlackArchive(s) ==
    /\ AtStage(s, "workdir")
    /\ \/ Enter(s, "input") /\ Has(s, Export[cur[s]]) /\ NoFailure
       \/ Abort(s, "download")
    /\ UNCHANGED <<workdirs, zips, bucket, content>>

\* An entry that cannot be read or written and an attachment that cannot be
\* downloaded are logged and left out.
FetchAttachedFiles(s) ==
    \/ UNCHANGED parts /\ NoFailure
    \/ /\ \E rest \in SUBSET parts[s] : rest # parts[s] /\ Has(s, rest)
       /\ Failure(s, "entry")

addFilesToSlackArchive(s) ==
    /\ AtStage(s, "input")
    /\ \/ FetchAttachedFiles(s) /\ Enter(s, "files")
       \/ Abort(s, "files")
    /\ UNCHANGED <<workdirs, zips, bucket, content>>

AnyIntermediate(s) == TRUE   \* mutant: the intermediate is not validated

validateIntermediate(s) == Required \subseteq parts[s]

TransformSlack(s) ==
    /\ AtStage(s, "files")
    /\ \/ /\ validateIntermediate(s)
          /\ Enter(s, "mbif") /\ NoFailure /\ UNCHANGED parts
       \/ Abort(s, "transform")
    /\ UNCHANGED <<workdirs, zips, bucket, content>>

\* A file that was begun stays when this fails.  An attachment that cannot be
\* copied is left out; an error of the deferred Close, which writes the
\* archive's directory, is dropped.
createOutputZipfile(s) ==
    /\ AtStage(s, "mbif")
    /\ \/ /\ zips' = Create(zips, s)
          /\ Enter(s, "zip")
          /\ \/ UNCHANGED parts /\ NoFailure
             \/ Has(s, parts[s] \cap Required) /\ Failure(s, "entry")
             \/ Has(s, {}) /\ Failure(s, "close")
       \/ /\ zips' = Create(zips, s) \/ UNCHANGED zips
          /\ Abort(s, "zip")
    /\ UNCHANGED <<workdirs, bucket, content>>

Stored(s) == /\ bucket' = bucket \cup {cur[s]}
             /\ content' = [content EXCEPT ![cur[s]] = parts[s]]

NothingStored == UNCHANGED <<bucket, content>>

UploadUnchecked(s) ==   \* mutant: an error of the upload is dropped, too
    /\ AtStage(s, "zip")
    /\ Enter(s, "stored") /\ UNCHANGED parts
    /\ \/ Stored(s) /\ NoFailure
       \/ NothingStored /\ Failure(s, "upload")
    /\ UNCHANGED <<workdirs, zips>>

\* An archive that cannot be opened is no error.
uploadTransformedZip(s) ==
    /\ AtStage(s, "zip")
    /\ \/ /\ Stored(s) /\ NoFailure
          /\ Enter(s, "stored") /\ UNCHANGED parts
       \/ /\ NothingStored /\ Failure(s, "open")
          /\ Enter(s, "stored") /\ UNCHANGED parts
       \/ /\ Stored(s) \/ NothingStored
          /\ Abort(s, "upload")
    /\ UNCHANGED <<workdirs, zips>>

RemoveOnSuccess(s) ==   \* mutant: the removal is not deferred
    /\ workdirs' = IF stage[s] = "stored" THEN Remove(workdirs, s) ELSE workdirs
    /\ NoFailure

\* The deferred removal, whose error is dropped.
RemoveWorkdir(s) ==
    \/ stage[s] = "refused" /\ UNCHANGED <<workdirs, failures>>
    \/ stage[s] # "refused" /\ workdirs' = Remove(workdirs, s) /\ NoFailure
    \/ stage[s] # "refused" /\ UNCHANGED workdirs /\ Failure(s, "rmdir")

ReturnFromTranslate(s) ==
    /\ Translate(s) /\ Slack(s)
    /\ stage[s] \in {"stored", "failed", "refused"}
    /\ pc'[s] = IF stage[s] = "stored" THEN "completing" ELSE "unlocking"
    /\ RemoveWorkdir(s)
    /\ UNCHANGED <<stage, parts, zips, bucket, content>>

--------------------------------------------------------------------------------
(* The supervisor's own steps *)

\* A step that counts as a fault is a failed call for the translation of s.
Charge(s, call) == IF faults' = faults THEN NoFailure ELSE Record(s, call)

Plain(s) ==
    /\ \/ GetTranslationReadyToStart(s) \/ WinLock(s) \/ LoseLock(s)
       \/ NewTranslatorFails(s) \/ MarkStarted(s) \/ CreateImport(s)
       \/ (Translate(s) \/ MarkComplete(s) \/ Validate(s)) /\ ~Slack(s)
    /\ Charge(s, "database")
    /\ UNCHANGED <<stage, parts, workdirs, zips, bucket, content>>

\* The cleanup is deferred once the completion is saved.
CompleteTranslation(s) ==
    /\ MarkComplete(s) /\ Slack(s)
    /\ Charge(s, "database")
    /\ IF pc'[s] = "validating" THEN Enter(s, "deferred") ELSE UNCHANGED stage
    /\ UNCHANGED <<parts, workdirs, zips, bucket, content>>

AcceptAll(s) == TRUE   \* mutant: the validation is skipped

\* The validator may refuse an archive that can be read; it accepts no other.
Acceptable(s) == parts[s] # {}

\* It reads the archive on the disk, not the one in the bucket.
ValidateOutput(s) ==
    /\ Validate(s) /\ Slack(s)
    /\ \/ pc'[s] = "importing" /\ Acceptable(s) /\ NoFailure
       \/ pc'[s] = "unlocking" /\ Failure(s, "validate")
    /\ UNCHANGED <<stage, parts, workdirs, zips, bucket, content>>

CleanupOfImported(s) ==   \* mutant: it is deferred after the validation
    /\ pc[s] = "unlocking" /\ stage[s] = "deferred"
    /\ Enter(s, "none")
    /\ IF imports[cur[s]] > 0 THEN zips' = Remove(zips, s) ELSE UNCHANGED zips
    /\ UNCHANGED <<vars, parts, workdirs, bucket, content, failures>>

\* The deferred cleanup; its error is only logged.
Cleanup(s) ==
    /\ pc[s] = "unlocking" /\ stage[s] = "deferred"
    /\ Enter(s, "none")
    /\ \/ zips' = Remove(zips, s) /\ NoFailure
       \/ UNCHANGED zips /\ Failure(s, "cleanup")
    /\ UNCHANGED <<vars, parts, workdirs, bucket, content>>

ForgetTranslation(s) ==
    Enter(s, "none") /\ Has(s, {}) /\ UNCHANGED <<workdirs, zips, bucket, content>>

UnlockAtEnd(s) ==
    /\ stage[s] # "deferred" /\ UnlockTranslation(s)
    /\ Charge(s, "database")
    /\ ForgetTranslation(s)

\* The disk outlives the process.
Kill(s) == Crash(s) /\ Charge(s, "process") /\ ForgetTranslation(s)

TranslateSlack(s) ==
    \/ MakeWorkdir(s) \/ fetchSlackArchive(s) \/ addFilesToSlackArchive(s)
    \/ TransformSlack(s) \/ createOutputZipfile(s) \/ uploadTransformedZip(s)
    \/ ReturnFromTranslate(s)

SuperviseSlack(s) ==
    \/ Plain(s) \/ TranslateSlack(s) \/ CompleteTranslation(s)
    \/ ValidateOutput(s) \/ Cleanup(s) \/ UnlockAtEnd(s)

SlackNext ==
    \/ \E t \in Translations : CreateTranslation(t) /\ UNCHANGED slack
    \/ \E s \in Supervisors : SuperviseSlack(s) \/ Kill(s)

SlackSpec == SlackInit /\ [][SlackNext]_<<vars, slack>>

\* As in FairSpec: downloads and uploads end as well.
SlackFairSpec ==
    SlackSpec /\ \A s \in Supervisors : WF_<<vars, slack>>(SuperviseSlack(s))

--------------------------------------------------------------------------------
(* Properties *)

\* The added variables have their types; what a supervisor remembers of a
\* translation is gone when it has none.
SlackTypeOK ==
    /\ TypeOK
    /\ stage \in [Supervisors -> Stages]
    /\ parts \in [Supervisors -> SUBSET Parts]
    /\ workdirs \in [Supervisors -> SUBSET Translations]
    /\ zips \in [Supervisors -> SUBSET Translations]
    /\ bucket \subseteq Translations
    /\ content \in [Translations -> SUBSET Parts]
    /\ failures \in [Translations -> SUBSET (Calls \cup {"database", "process"})]
    /\ \A s \in Supervisors :
         pc[s] \in {"idle", "selected", "locked"} =>
             stage[s] = "none" /\ parts[s] = {}

\* An import is made of an archive that is in the bucket and has users and
\* posts, although the errors that lose or spoil it are dropped on the way; only
\* the output archive that could not be opened for the upload slips through.
ImportedIsStored ==
    \A t \in Translations :
        Type[t] = "slack" /\ imports[t] > 0 =>
            \/ t \in bucket /\ Required \subseteq content[t]
            \/ "open" \in failures[t]

\* The output archive "will contain all the data from inputArchive as well as
\* all attached files", unless a file of it could not be read or copied.
ImportedIsWhole ==
    \A t \in Translations :
        Type[t] = "slack" /\ imports[t] > 0 =>
            content[t] = Export[t] \/ {"entry", "open"} \cap failures[t] # {}

AtWork(s, t) == Holds(s) /\ cur[s] = t

\* Translate() removes its directory whatever stage has failed, so that only
\* the end of the process or a failed removal leaves one behind.
WorkdirRemoved ==
    \A s \in Supervisors : \A t \in workdirs[s] :
        AtWork(s, t) \/ {"process", "rmdir"} \cap failures[t] # {}

\* An output archive whose validation has failed is removed like one that is
\* imported; those that stay on the disk are of translations that failed
\* before their completion was saved, or whose removal has failed.
ZipRemoved ==
    \A s \in Supervisors : \A t \in zips[s] :
        AtWork(s, t) \/ {"zip", "upload", "database", "process", "cleanup"}
                            \cap failures[t] # {}

\* A translation that was begun and let go without an import is one for which a
\* call has failed: supervise() has no other way to abandon it for ever.
AbandonedForCause ==
    \A t \in Translations :
        translations[t].StartAt /\ Holders(t) = {} /\ imports[t] = 0 =>
            failures[t] # {}

\* A stored Slack translation comes to its import or to a failure of its own,
\* whatever happens to other translations.
ImportedOrFailed ==
    \A t \in Translations :
        Type[t] = "slack" /\ t \in created ~> imports[t] > 0 \/ failures[t] # {}
================================================================================
