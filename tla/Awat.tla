---------------------------------- MODULE Awat ---------------------------------
(***************************************************************************)
(* The whole AWAT, from the upload of an archive to the verdict on its     *)
(* import: ArchiveUpload, SlackTranslation and ImportSupervisor over one   *)
(* database and one bucket.  They share the Translation table, whose rows  *)
(* the API stores and the translation supervisor works on; the Import      *)
(* table, whose rows the translation supervisor stores and the import      *)
(* supervisor works on; and the bucket, into which the API puts uploads    *)
(* and the translator its output, and from which the import supervisor     *)
(* deletes.                                                                *)
(*                                                                         *)
(* An archive is the name of its object.  The output of a translation has  *)
(* the translation's own, so that a request may name it: that restarts the *)
(* import of the output, into this or another installation.                *)
(***************************************************************************)
EXTENDS ImportSupervisor, FiniteSets

CONSTANTS
  InBucket, UploadType, Valid,                       \* see ArchiveUpload;
  ArchiveOf, RequestType, NamesUpload, Validates,    \* requests: Translations
  Translators,    \* running translation supervisors
  RequestedAt,    \* RequestedAt[t]: CreateAt of the translation
  Export, MayFail,  \* see SlackTranslation
  NoTranslation

VARIABLES
  uploads, handler, request, accepted, validated,  \* ArchiveUpload's
  translations, tpc, tcur, tcopy,                  \* TranslationSupervisor's
  stage, parts, workdirs, zips, content, failures  \* SlackTranslation's

upload == <<uploads, handler, request, accepted, validated>>

translation == <<translations, tpc, tcur, tcopy, stage, parts, workdirs, zips,
                 content, failures>>

ImportsOf(t) == {i \in created : TranslationOf[i] = t}

U == INSTANCE ArchiveUpload WITH Requests <- Translations

T == INSTANCE SlackTranslation WITH
    Supervisors <- Translators, Type <- RequestType, CreateAt <- RequestedAt,
    NoOwner <- Nobody,
    created <- accepted,
    imports <- [t \in Translations |-> Cardinality(ImportsOf(t))],
    pc <- tpc, cur <- tcur, copy <- tcopy

ASSUME PartsAssumption ==
    /\ InBucket \subseteq Archives /\ Valid \subseteq Archives
    /\ UploadType \in [Archives -> U!BackupTypes]
    /\ NamesUpload \subseteq Translations /\ Validates \subseteq Translations
    /\ ArchiveOf \in [Translations -> Archives]
    /\ InBucket \cap Translations = {}
    /\ \A t \in NamesUpload : ArchiveOf[t] \notin InBucket \cup Translations
    /\ \A t \in Translations :
          RequestType[t] = "slack" => ArchiveOf[t] \notin Translations
    /\ Nobody \notin Translators /\ NoTranslation \notin Translations
    /\ RequestedAt \in [Translations -> Nat]
    /\ Export \in [Translations -> SUBSET T!Parts] /\ MayFail \subseteq T!Calls

awat == <<vars, upload, translation>>

--------------------------------------------------------------------------------

PipelineInit == AtRest /\ U!Init /\ T!SlackAtRest

\* A server's upload handlers and its API for translations.
Receive == UNCHANGED <<table, session, installation, provisioner, translation>>

\* What the validator may say of an archive.  An output is read as it is in the
\* bucket: the validator may refuse one that can be read, and accepts no other.
ValidatorSays(a) ==
    IF a \notin Translations THEN {a \in Valid}
    ELSE {valid \in BOOLEAN : valid => a \in bucket /\ content[a] # {}}

\* Uploads have new names.
UploadArchive(a) ==
    a \notin Translations /\ (U!Upload(a) \/ U!Crash(a)) /\ Receive

StartTranslation(t) ==
    (\E valid \in ValidatorSays(ArchiveOf[t]) : U!TranslateIf(t, valid)) /\ Receive

\* The translator's CreateImport stores the import that is still missing.
TranslateOne(s) ==
    /\ \/ UNCHANGED created
       \/ /\ tpc[s] = "importing"
          /\ \E i \in Imports \ created :
               /\ TranslationOf[i] = tcur[s]
               /\ created' = created \cup {i}
    /\ UNCHANGED <<imports, session, installation, provisioner, upload>>
    /\ T!SuperviseSlack(s)

StopTranslating(s) ==
    /\ UNCHANGED <<table, session, installation, provisioner, upload>>
    /\ T!Kill(s)

\* The steps of ImportSupervisor but the arrival of an import.
ImportStep ==
    \/ \E s \in Supervisors : Supervise(s) \/ Crash(s)
    \/ \E p \in Provisioners : Provision(p)
    \/ \E n \in Installations : Reconcile(n) \/ Delete(n)

PipelineNext ==
    \/ \E a \in Archives : UploadArchive(a)
    \/ \E t \in Translations : StartTranslation(t)
    \/ \E s \in Translators : TranslateOne(s) \/ StopTranslating(s)
    \/ ImportStep /\ UNCHANGED <<upload, translation>>

PipelineSpec == PipelineInit /\ [][PipelineNext]_awat

\* Uploads and translations run on, on goroutines and handlers of their own ...
Arrival ==
    \/ \E a \in Archives : UploadArchive(a)
    \/ \E t \in Translations : StartTranslation(t)
    \/ \E s \in Translators : TranslateOne(s)

\* ... and imports do under serial schedules: ticks are 30 s apart and a call
\* takes milliseconds, so that each side finds the other at rest again and again.
SerialPipeline ==
    /\ PipelineInit /\ [][PipelineNext /\ Serial']_awat
    /\ WF_awat(Arrival)
    /\ \A s \in Supervisors :
         SF_awat(Supervise(s) /\ UNCHANGED <<upload, translation>> /\ Serial')
    /\ \A p \in Provisioners :
         SF_awat(Provision(p) /\ UNCHANGED <<upload, translation>> /\ Serial')
    /\ \A n \in Installations :
         WF_awat(Reconcile(n) /\ UNCHANGED <<upload, translation>>)

--------------------------------------------------------------------------------
(* Properties *)

\* The import of t names what the translator has made of the archive: its output
\* <t>.zip for a Slack export, and the archive itself for a Mattermost one.
ResourceOf(t) == IF RequestType[t] = "slack" THEN t ELSE ArchiveOf[t]

\* An upload is imported as it was validated, an output if it has what the
\* translator requires.
Importable(a) ==
    /\ a \in bucket
    /\ IF a \in Translations THEN T!Required \subseteq content[a]
                             ELSE a \in validated

\* The output a may be deleted: the import of the translation that has made it
\* has run, and nobody keeps import data.
Expired(a) ==
    ~KeepImportData /\ \E i \in Imports : TranslationOf[i] = a /\ Ran(i)

\* The archive that an import names is in the bucket, and fit to be imported,
\* from the moment the import is stored until a run of it has ended: through the
\* upload, the translation, the cleanup of other imports, and restarts that name
\* an output of before.  Two things alone take it away: an output that could not
\* be opened for its upload, and, from a restart, the cleanup after the import
\* that the output was made for.
ArchiveIsReady ==
    \A i \in created :
        LET t == TranslationOf[i]
        IN \/ Ran(i) \/ Importable(ResourceOf(t)) \/ Expired(ResourceOf(t))
           \/ "open" \in failures[t]

\* Without faults and overlaps, an accepted translation ends in a verdict on its
\* import, or a call for it has failed; a Mattermost archive always has one.
Served ==
    \A t \in Translations :
        t \in accepted ~>
            \/ \E i \in ImportsOf(t) : imports[i].State \in {Succeeded, Failed}
            \/ failures[t] # {}
================================================================================
