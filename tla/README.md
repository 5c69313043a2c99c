# A TLA+ model of the AWAT

The AWAT (Automatic Workspace Archive Translator) takes archives of other chat
systems, or of Mattermost itself, translates them and has them imported into
Mattermost Cloud installations. Its work lives in four tables of one PostgreSQL
database, which HTTP handlers, polling goroutines, external Provisioners and,
possibly, further server processes read and write without transactions. These
modules model that: what each part does between two statements, what may come
between, and what holds all the same. The safety properties are also proved, for any
number of actors and faults, with TLAPS.

## 1. The system

| Component | State | Operations | Talks to |
|---|---|---|---|
| Translation supervisor (`internal/supervisor/translation.go`) | its memory copy of one translation | one round per minute: select, lock, translate, save, validate, create the import, unlock | Translation and Import tables, translators, S3 |
| Import supervisor (`internal/supervisor/import.go`) | its list of copies of imports | every 30 s: list unlocked imports with work to do, lock each, move it one state on, unlock | Import table, Cloud API, S3 |
| Store (`internal/store`) | tables Translation, Import, Upload, System | single statements; updates write every column | PostgreSQL |
| Work API (`internal/api/import.go`) | the row a handler has read | claim, release, complete | Import table; called by the Provisioner |
| Translation and upload API (`internal/api/translation.go`, `upload.go`) | the request at hand, a goroutine per upload | receive an archive, start a translation | Upload and Translation tables, S3, validators |
| Client and CLI (`model/client.go`, `cmd/awat`) | none | upload, wait for the upload, request a translation; listings | the API |
| Schema migration (`internal/store/migrate.go`) | the version in memory | one transaction per migration | System table and all others |
| Server (`cmd/awat/server.go`) | none | check the schema, start everything, stop | all |
| Slack translator (`internal/slack`) | a working directory and an output archive per translation | download, attach files, transform, zip, upload, clean up | S3, mmetl, Slack |
| Mattermost translator | none | hands the archive on | |
| Cloud Provisioner (external) | installations, runs of imports | reconciles patches, runs claimed imports | Cloud API, work API |

An archive is uploaded (or put into the bucket) and a translation requested. A
translation supervisor translates it and creates an import. An import supervisor
resizes the installation and overrides two environment variables, a Provisioner
claims the import, runs it and reports the outcome, and the import supervisor
notices the end in the state of the installation, deletes the bundle, reverts
the installation and gives the verdict.

What is hard here:

- **Every update writes the whole row from memory** (`UpdateTranslation`,
  `UpdateImport`), whatever has happened to it since it was read.
- **Locks are a column of the same row** (`LockedBy`, `ImportBy`), won with a
  conditional update that looks at that column only, after a SELECT that looked at
  more. No lock expires.
- **Handlers of the work API do not take the supervisors' lock**, but write the
  same row.
- **Any statement may fail, also after it took effect**, and the process may end
  between two of them: on SIGTERM the server waits for HTTP requests only.
- **The end of an import is read from the installation**, not from the import.
- **The verdict on an upload is stored by a goroutine** after the answer was sent,
  and clients poll for it.
- **The Slack translator drops errors**: of single files, of the close of its archive, of
  the archive it cannot open for the upload. Its files outlive the process.
- **Migrations** read the version outside the transactions that apply them.

Section 8 lists the disagreements between the code and what its documents,
comments or tests say; `PROJECT.json` lists all hazards with their lines.

What makes each part correct:

- translation supervisor: exclusive work on a translation; one import at most,
  only when complete; the state clients poll does not go back; every translation is
  picked up; the completed ones are imported; one is abandoned only when a call for it
  has failed;
- Slack translator: what is imported is in the bucket and whole; what stays on the disk
  has a cause;
- import supervisor and work API: a verdict has its cause; an import runs once, on
  an installation that is adjusted for it, and ends; the installation is reverted
  and its API lock restored; the bundle stays until it was used; no claim is left that
  nobody holds; clients see an import move through its states in their order;
- upload and translation API: what is said to be stored is stored; what is accepted
  as a Mattermost archive was validated; clients are answered;
- migration: the recorded version is what is applied, and becomes the latest;
- the whole: the archive of an import is there until it was run, and what is accepted
  ends in a verdict.

## 2. Modules

| Module | Models | State and actions |
|---|---|---|
| `TranslationSupervisor` | `supervisor/translation.go`, `store/translation.go` | `translations` is the table, `copy[s]` the struct in memory, `pc[s]` the place in `supervise()`; one action per statement |
| `SlackTranslation` | `internal/slack`, the validation and cleanup in `supervisor/translation.go` | extends `TranslationSupervisor`: `stage[s]` is the place in `Translate()`, `parts[s]` what its last file contains, `workdirs`/`zips` the server's disk, `bucket`/`content` the bucket, `failures[t]` what has failed for a translation |
| `ImportSupervisor` | `supervisor/import.go`, `store/import.go`, `api/import.go`, and the Provisioner as environment | `imports` is the table, `copy`/`pcopy` the structs in the supervisors' and handlers' memory, `state`/`config`/`apiLocked` the installations, `pc`/`ppc` the places in the code |
| `InstallationConfig` | the patches and checks of `supervisor/import.go` | operators only |
| `ArchiveUpload` | `api/upload.go`, `api/translation.go`, `store/upload.go`, the client's upload and wait | `uploads`, `bucket`, `accepted` (stored translations); `handler` and `request` are places in the code |
| `SchemaMigration` | `store/migrate.go`, `migrations.go`, `system.go`, `version.go`, the version check of `cmd/awat/server.go` | `recorded` and `applied` are committed, `version[m]` is `currentVersion` |
| `Awat` | all that `cmd/awat/server.go` starts, over one database and bucket | extends `ImportSupervisor`, with instances of `ArchiveUpload` and `SlackTranslation`: they share the rows of translations, the rows of imports and `bucket` |
| `WorkLease` | what a `LockedBy` column promises (abstract) | `holders`, `lost` |
| `ImportLifecycle` | what the API shows of an import (abstract) | `status`, `ran` |
| `MC*` | the instances for TLC | |
| `TranslationSupervisorProofs`, `TranslationSeriesProofs` | proofs about `TranslationSupervisor`: what holds for any number of supervisors, and what takes one | |
| `SlackTranslationProofs` | proofs about `SlackTranslation` | |
| `ImportSupervisorProofs`, `ImportSafetyProofs` | proofs about `ImportSupervisor`: what holds for any number of supervisors, and what takes one | |
| `ArchiveUploadProofs` | proofs about `ArchiveUpload` | |
| `SchemaMigrationProofs` | proofs about `SchemaMigration` | |
| `AwatProofs` | proofs about `Awat`: what the parts guarantee together | |

Both supervisors refine `WorkLease` (`ImplementsLease` in each of them): the
workers under the lease of an item are the supervisors past the lock, and the
lease is lost when the row is locked and nobody works under the lock.

`ImportSupervisor` refines `ImportLifecycle` (`ImplementsLifecycle`): the states of an import follow
each other as its abstract life allows, with one run between preparation and
reversion, although handlers and supervisor write the row from copies of different
age. One step back is allowed, because the code makes it: a handler that read the
row before the supervisor noticed the end of the run writes the older state back.

`SlackTranslation` refines `TranslationSupervisor` by extending it: the one step `Translate` becomes the
stages of the Slack translator, which leave the supervisor's variables alone but for
the last, which is that step. This is a theorem (section 5).

`Awat` is a composition over shared variables. A translation `accepted` by `ArchiveUpload` is a row
that `SlackTranslation` finds `created`; the import that its `CreateImport` counts is a row that
`ImportSupervisor` finds `created`; and there is one `bucket`, as in the code: the API puts uploads into it, the translator
its outputs, and the import supervisor deletes from it. A request may name an output of an earlier translation, which is how an import is
restarted or repeated elsewhere (`README.md:77-80` of the repository); the validator then reads what the translator has put there (`ValidatorSays`). Each step of the whole is a step of one component and
leaves alone what the others own; `AwatProofs` shows what follows from that.

Abstractions. A timestamp is whether it is set; only `CreateAt` has an order, in
the constants, because the oldest row is selected. `Error` is whether it is
empty. Of an archive `SlackTranslation` keeps which parts it has: users, posts, attachments; one
without any is one that no reader accepts. An environment variable has three values: not set, the value for imports,
and any other. `bucket` is a set of object names. The output of a translation has the name of the translation (`<translation ID>.zip`), which no
upload and no archive from elsewhere has, IDs being new. The cleanup after an import deletes the object of that name and no other: it reaches the archive of another
import when, and only when, a restart has named it. A Slack request names no output, as an output is a Mattermost archive. The field `Resource` of an
import has the bucket's name in front (`supervisor/translation.go:139`), which whoever names it in a restart leaves away. The decision a supervisor takes from an installation it has just
fetched is one step with the fetch: the Cloud may change before that step and
after it, and later calls see the change. What a process remembers after a round
is reset where no code reads it again. A failing statement is an action of its own
disjunct, with and without its effect, and counts as a fault; so does the end of
a process. The end of one process takes one supervisor, handler or migrator with
it; with several in one process it is several such steps.

## 3. Runs

| Run | Instance | Question |
|---|---|---|
| `translation_lock` | 2 fair supervisors, 2 translations, 2 faults | is the lock exclusive, and does it implement the lease; as long as nothing fails, is each translation picked up, let go and imported? |
| `translation_series` | 1 supervisor with the stages of the Slack translator, 3 translations (one of an unknown type, two of the same age), any call of the translator failing, 2 faults | one import and no state going back; is the archive of an import in the bucket and whole, are files left only with a cause, and does each export end in an import or a failure of its own? |
| `import_safety` | 1 supervisor, 2 imports into installations of their own (one with a locked API), a provisioner that may release, 1 fault | is every run on an installation that is fit and locked again, is no claim forgotten, and is the lifecycle implemented, also by the second import of a list read at once? |
| `import_competing_claims` | 2 provisioners, 1 import, releases, deletion, 2 faults | has every verdict its cause, and does the bundle stay until a run, with two claims and the reports after them? |
| `import_lease` | 2 supervisors, 2 imports, 1 provisioner that may release, 1 fault, `ApartSpec` | the lease of the Import table, with the work API in use |
| `pipeline` | the whole: an uploaded Slack export and a Mattermost restart of its output into a second installation, 1 supervisor of each kind, 1 provisioner, serial schedules, 2 initial configurations of one installation and a new one | is every accepted translation given its verdict and its installation reverted, whatever it needs, and is its archive there until it was run, unless the cleanup after the first import has taken it from the restart? |
| `uploads` | 2 uploads of which 1 is invalid, an archive in the bucket, 5 requests of which 2 race for one archive and 1 names an archive that is still being uploaded, 2 faults | stored means stored, accepted means validated; is everybody answered? |
| `migration` | 1 migrator, 2 servers, 4 faults | recorded is applied; the latest is reached; servers start on nothing else |

The four violation runs are in section 8. Bounds: two actors are what every
interleaving hazard of this code takes (one that reads, one that writes in
between), two faults allow a failure on top of a crash, and a second item shows
what happens to one that is waiting. Three supervisors or three imports add more
of the same pairs, as no statement involves more than one row and one owner; and
section 5 proves the safety properties for any number of items and faults. In `translation_series` every call of the
translator may fail (`MayFail`), so that each stage fails in each state of the disk; in
`pipeline` the validation alone may, which is the longest way to an end without an
import. The restart of `pipeline` may come before the first import is run or in the middle of it; when it comes after the cleanup the API answers that
the archive is not there. An uploaded Mattermost archive is the subject of `uploads` and, in the whole, of the theorem `ArchiveReady`. The configurations of `pipeline` need all or a part of the patches and include
overrides that a customer has set; a variable that is neither unset nor for imports has one
value, as the code compares it with that of imports only.

`CHECK_DEADLOCK FALSE` is set everywhere: when all work is done, or a lock is lost, the
model has nothing to do; what must happen is stated by the liveness properties
instead. `MaxFaults` and `MayFail` are the only bounds in the guards.

## 4. Fairness

`TranslationSupervisor!FairSpec`: `Start()` loops for ever and each statement comes back
with an answer or an error, so `Supervise(s)` is weakly fair. Crashes and the
arrival of requests are not. `SlackTranslation!SlackFairSpec` asks the same of the supervisor with its
translator: a download or an upload ends, with an error if need be.

`ImportSupervisor!FairSpec`: the same for `do()` under its ticker; a Provisioner goes on
polling and ends the runs it begins, and the Cloud reconciles: weak fairness of
each. Releases and deletions can happen only where a run allows them.

`ImportSupervisor!ApartSpec`, under which the lease of the Import table is stated, is an assumption on the schedules and not fairness: no handler of the
work API lies between its read and its write of an import that a supervisor has listed or locked. Handlers, releases and reports of other imports overlap freely.

`Awat!SerialPipeline` restricts the schedules to those where no handler of the work API lies
between its read and its write while a supervisor lies between its listing and
its last unlock, and asks for strong fairness on them. It is an assumption on the environment and not a
property of the code: ticks are 30 s apart and a call takes milliseconds. Without
it `Finished` is false (`import_stuck_lock`); the run shows that an import without
faults, releases and such overlaps does not hang. Uploads and translations go on under
weak fairness of `Arrival`, the goroutines and handlers of the server together: they have
finitely many steps to take, so that none keeps another waiting for ever.

`ArchiveUpload!FairSpec`: goroutines and handlers run on and clients keep polling.
`SchemaMigration!FairSpec`: a command that failed is run again.

## 5. Proofs

Every theorem is about all values of the constants: any sets of items, supervisors, provisioners,
requests and migrators, any times and types, any number of faults. Each rests on the
`ConstantsAssumption` of its module (the empty owner and the empty hand are no real ones, the
functions have their domains; for the Slack translator also `ExportAssumption`; for `Awat` also `PartsAssumption`, the same for the constants of
its instances). Where a theorem has a
hypothesis beyond it, the hypothesis is named in the theorem and explained here; in each case a run or section 8
shows why. The inductive invariants are in bold.

### The translation side

`TranslationSupervisorProofs`:

- `TypeCorrect`: `Spec => []TypeOK`, inductive by itself.
- `LockStaysOwn`: `Spec => []LockIsOwn`. `MutualExclusion` is not inductive: `supervise()` rewrites
  `LockedBy` from memory at every update, so that one must know what is in memory.
  **`LockIsOwn`** says that the row and the copy of a working supervisor both carry its name;
  with `TypeOK` it is inductive, as nobody can lock a row that carries a name and all
  writes go to the row the writer holds, with its own name or, at the end, none.
- `Exclusion`: `Spec => []MutualExclusion`, from it.
- `NoLockIsLeaked`: `Spec => []NoLockLeaked`, with `faults = 0 => HeldByOwner` as the inductive invariant.
- `TranslationLease`: the refinement `Spec => Lease!Spec`, from `LockIsOwn`. Each action maps to a step of the lease:
  `WinLock` acquires; `UnlockTranslation` releases, or abandons when its statement fails without effect; `Crash` abandons; `LoseLock`
  misgrants when the lock was taken but the answer lost; the rest stutter.

`TranslationSeriesProofs`, under `OneSupervisor`: `OneImport`, `ImportOfComplete` and `StatesAdvance`. The invariant
**`SeriesInv`** compares the copy with the row at each statement (never behind it), and
says that only complete rows have an import. The assumption is needed: for two supervisors `AtMostOneImport` does not hold (section 8).

`SlackTranslationProofs`:

- `SlackImplements`: `SlackSpec => Spec`. A stage leaves `vars` alone and every other step is one of `Supervise`
  or `Crash`; hence `OneImportOfExport`, and any other theorem about `Spec`.
- `SlackTypeCorrect`: `SlackSpec => []SlackTypeOK`.
- `ImportOfStored`, under `OneSupervisor`: `SlackSpec => []ImportedIsStored`. **`OutputInv`** says what is known of the archive
  at each stage: it has users and posts once the intermediate was validated; it
  has them or nothing once it was zipped; the bucket has the same once it was
  uploaded, unless it could not be opened; and once validated it is not empty. That
  an archive is not replaced after its import needs `SeriesInv`: a translation that
  is at work has no import yet.
- `ImportOfWhole`, under `OneSupervisor`: `[]ImportedIsWhole`. **`WholeInv`**: what a supervisor has made of an export has all its parts, or a
  failed entry is recorded; from the zip on it may instead have none, as the dropped error of the last write leaves it, and that is what the validation refuses.
- `WorkdirsRemoved` and `ZipsRemoved`, for any number of supervisors. **`FilesInv`** ties what is on the disk to where its owner
  is: a directory is there between its creation and the deferred removal, an output archive
  between the zip and the deferred cleanup, and otherwise for a recorded cause. Supervisors do not share files, so that no `OneSupervisor` is needed.
- `AbandonedHasCause`, for any number of supervisors. **`AbandonInv`**: whoever leaves a begun translation has made its import or
  has recorded a failure; a row that says it was begun has one at work on it or such a cause.

### The import side: any number of supervisors

`ImportSupervisorProofs`:

- `ImportTypeCorrect`: `[]TypeOK`, which includes that an actor has an import in hand exactly while it is at one.
- `VerdictsHaveCause`: `[](TypeOK /\ CauseInv)`, without a hypothesis. That an import in the table has a cause for its state is not inductive,
  because rows are written back from memory: **`CauseInv`** claims it of *every* copy, in
  supervisors' lists and handlers' memory too, says what a supervisor past its decision has seen, and that an installation
  shows `import-complete` only after a run there. As causes (`HistoryGrows`) are never taken back, a stale row is still a justified one.
- `FailureHasCause`: `[]FailedForCause`, without a hypothesis. `SuccessMeansRan` (`[]SucceededMeansRan`) and `BundleKept` (`[]BundleKeptUntilRun`) under
  `OwnInstallations`: each installation is the target of one import. `CauseInv` knows of a run *on the installation*; the
  run is the import's own only then, and `import_shared_installation` shows it otherwise. The lemma `DeletionHasCause` says that a supervisor that deletes a bundle
  has such a run behind it, and **`BundlesGone`** remembers it.
- `APIIsRelocked`: `[]APIRelocked`, without a hypothesis; **`APIInv`** adds that an API is locked only where the customer
  has it locked, so that a supervisor that unlocks one has to relock it.
- `ImportTableLease`: the refinement `ApartSpec => Lease!Spec`, for any number of supervisors and provisioners, through faults, releases and crashes. Supervisors save rows that they
  listed before they locked them, but write their own name into them; handlers write back the `LockedBy` that they have read, and **`CallsFresh`** says that it is
  still the one of the row while their call is under way. Without `Apart` that is false, and the lease with it (`import_stuck_lock`).

### The import side: one supervisor

`ImportSafetyProofs`. `OneSupervisor` is the deployment of one server, and needed: a second supervisor that acts on an old listing
resets a claim and the run is given out again (section 8). The steps are first summarised by what
they do to a row and to its copy (`SuperviseMoves`, `ProvisionMoves`); each invariant is proved from the summaries.

- `PreparationIsPrivate`: `[](TypeOK /\ FreshInv)`. **`FreshInv`**: as long as the table shows an import as requested or in adjustment, its claim columns are
  empty, no run of it has ended and no provisioner is at it; a memory that holds it as being prepared is not outdated; and a supervisor writes `import-in-progress`
  only over such a row. So the only full-row write that clears `ImportBy` and `StartAt` goes to a row in which they are clear. All that follows needs it.
- `ClaimsAreHeld`: `[]ClaimIsHeld`, any number of provisioners. **`ClaimInv`**: while nothing has failed, a claim on
  the table is that of a provisioner past its lock, and the copy that `ClaimStart` is about to write carries it.
- `RunsOnce`: `Spec => RunOnce`, under `OneProvisioner` too. **`SpentInv`**: from `ClaimStart` on the row can no longer be claimed (`StartAt`, `CompleteAt` or a later state), and a copy that
  a handler writes back is spent as well. With two provisioners the second may hold a selection from before (section 8).
- `SuccessIsReverted`: `[]SucceededIsReverted`, under `OwnInstallations`, any number of provisioners. **`RevertInv`**: where a row or any copy of it that may be
  written shows the reversion as done, the installation is reverted, and the patch in a supervisor's hand is the one its installation calls for now. The lemma `PostPatchReverts` shows that the patch
  after an import removes every override, and `ReversionsKept` that a reversion is undone by the preparation of the same import only. Another import into the same installation would adjust it again.
- `InstallationIsFit`: `[]FitWhileRunning`, under `OneProvisioner` and `OwnInstallations`. The row, the installation, the run and two memories have to be related: **`PhaseInv`** says that an
  import whose installation was not deleted is waiting, offered, ended, noticed or past (`RowPhase`), how far the provisioner and the supervisor are in each phase
  (`WorkPhase`, `HandPhase`, `WritePhase`), and that an installation in `import-in-progress` or `import-complete` has the provisioner of its import (`SitePhase`). A late report may take an import from noticed back to ended and no
  further. Deletions and faults are allowed.
- `LifecycleIsKept`: the refinement `Spec => Lifecycle!Spec`, in addition under `Deletable = {}`: a deletion fails an import in any state, which is no step of `ImportLifecycle`. With
  `PhaseInv` every write maps to a step: the save of a supervisor to `Prepare`, `Offer`, `Notice`, `Revert` or `Conclude`, a late
  report to `Renotice`, `EndImport` to `Run`, and the rest to stuttering.

### Uploads and migrations

`ArchiveUploadProofs`: `UploadTypeCorrect`; `CompleteIsStored` (**`StoredInv`** adds the goroutine that is about to record its success); `AcceptedStored`
(**`FoundInv`** follows a request from the check of the bucket to its insert); `ValidatedByAPI`, under `OneTypeEach` (an
archive is uploaded and requested as one type; `upload_two_types` shows the other case) and `AllValidate` (the default of `awat translation start`, `cmd/awat/translation.go:38`), with
**`ValidInv`**.

`SchemaMigrationProofs`: `MigrationTypeCorrect`; `VersionIsTrue`, under `OneMigrator` (needed, section 8), with
**`AloneInv`**, what the migrator knows at each statement of its transaction; and two theorems about the race of any number of migrators:
`LatestIsServed` (**`RaceInv`**: whatever version is recorded or remembered has been applied up to it, though perhaps twice) and `OnlyRescalingRepeats` (**`OnceInv`**: two
open transactions never migrate to the same version, as both lock its tables, and all migrations but the rescaling of timestamps fail when repeated).

### The whole

`AwatProofs`. For the import half, a step of the API or of a translator is **`Elsewhere`**: it may count a fault, put objects into the bucket
and store one import, and leaves the rest alone. Each inductive invariant of the import side is kept by such a step, so that it holds in the whole by one
more lemma, next to the step lemma that it has already (`PipelineSteps`, with **`PartsTyped`** for the types of all parts):

- `PipelineIsFit`, `PipelineIsReverted`, `PipelineRunsOnce`, `PipelineClaims`, `PipelineSuccess`, `PipelineFailures`, `PipelineRelocks`: the properties of
  `ImportSupervisor` under the hypotheses that they have there.
- `PipelineLifecycle`: `PipelineSpec => Lifecycle!Spec`. The translator's insert is the request; nothing else outside the import half shows.

The lease of the Import table is a statement about some schedules and is not repeated for the whole. The only invariant that does not carry over is
`BundleKeptUntilRun`: in `ImportSupervisor` the bundles are there from the start, and in the whole the translator puts them there, into the bucket of the uploads. What takes its
place relates the three parts:

- `ArchiveReady`: `PipelineSpec => []ArchiveIsReady`, under `OneTranslator`, `OwnInstallations`, `OneTypeEach` and `AllValidate`. Nothing is assumed of the number of import
  supervisors and provisioners, nor of which archives the requests name: uploads, objects from the bucket, or outputs of translations, also of several requests at once.

The archive of an import was made ready long before the import is stored, by statements of other goroutines, and other imports are cleaned up meanwhile. **`ReadyInv`** carries that along:

  - `StartKnown`: the row of a translation says that it was begun exactly from the supervisor's start on, and so does the supervisor's copy;
  - `WorkIsNew`: what is being translated has no import yet. This is what keeps an archive from being replaced after its import. A second translator whose selection is
    stale would do it again (section 8), hence `OneTranslator`;
  - `NotYetStored`: before the translator's upload nothing has been written under the name of the translation;
  - `OutputInOrder`: what the translator has in its hands at each stage is what it will have stored: whole parts until the zip, then the object in the bucket, and at the insert of the import an
    object with all required parts, or the recorded error of an archive that could not be opened. It is `OutputInv` with the deletions of the import supervisor in between;
  - `OutputsWhole`: an output in the bucket that can be read has all required parts, from whichever moment a restart may find and validate it;
  - `ImportsOfStarted`: each stored import is of an accepted and begun translation whose output, if it makes one, was stored whole and is still there or has expired (`OutputKept`).

Two more invariants follow an archive that a request has found: **`FoundInv`**, from the check of the bucket to the import, that it is still there or has `Expired`, and **`CleanupInv`**, that who keeps
import data deletes none. That whatever is gone from the bucket has `Expired` is `DeletionHasCause` with `CauseInv`, for which installations must not be shared. For an uploaded Mattermost archive `ValidInv` of the API is
shown again for its steps in the whole. `Expired(a)` says that the import of the translation that has made the output `a` has run, and that nobody keeps import data: it is no exception for an
upload or for the first import of an output, whose expiry is the end of its own run.

`ReadyInv`, `FoundInv` and `CleanupInv` were checked with TLC on `PipelineSpec` before they were proved, with an export and a restart of its output: with any of four calls failing and no fault
(1.2 million states), and with one fault and no provisioner. `OneTypeEach`, `AllValidate` and `OwnInstallations` are those of the parts.

`PipelineSpec` is not said to implement the specifications of the API and of the translator, and does not: one counter of faults is shared, and the import half deletes from
the bucket, which no step of `ArchiveUpload` or `SlackTranslation` does. Nor can this prover cite theorems of an instance. What is needed of these two parts is therefore
shown for their steps in the whole; what is not needed here (`ImportedIsWhole`, the files on the disk) is proved of `SlackTranslation` alone, where no other part can reach it.

### Only model-checked

- Liveness (`Discovered`, `CompleteIsImported`, `ImportedOrFailed`, `Finished`, `Served`, `RequestsEnd`, `UploadsEnd`, `Migrated`): fairness and `ENABLED` are out of the prover's reach.
- The violations of section 8, which are counterexamples.

Every invariant and every safety property of a step that a passing run checks is stated by a theorem.

## 6. Not modelled

- What is inside an archive beyond its parts, mmetl, which parses and exports it,
  and the library that validates it: validity of an upload is a constant, that of a
  translated archive a choice.
- The disk of the upload handlers, and with it the temporary file that
  `api/upload.go:20` makes before it checks the request and that stays when it refuses it.
- The store's query building; its `Transaction` type, which nothing uses.
- Flags, listeners, routing, logging, authentication, HTTP timeouts, read-only queries
  (what they show of an import is `ImportLifecycle`'s `status`).
- Generated mocks, tests, build files.

## 7. Plan

Done: `WorkLease`, `TranslationSupervisor`, `InstallationConfig`, `ImportSupervisor`, `ArchiveUpload`, `SchemaMigration`, in this
order because the translation's lock is the pattern that the import repeats, and the
import is where the actors are most; then `SlackTranslation` and its proofs, `ImportLifecycle`, and `Awat`, which
composes them.

Proved since: the safety properties of all components (section 5), in the order translation, Slack translator, migration, uploads, import; then those of
the whole.

Left: what two migrators of `SchemaMigration` and two provisioners of `ImportSupervisor` still guarantee beyond what is proved, and liveness, which takes a prover that reaches it.

## 8. Where the code differs from what is said of it

| Run | What TLC shows | Against |
|---|---|---|
| `import_shared_installation` | an import completes with the run of another one | `internal/supervisor/import.go:322` |
| `import_report_lost` | a reported error is overwritten; the import succeeds | `model/import.go:63` |
| `import_stuck_lock` | a claim writes a released lock back; the import hangs | `internal/supervisor/import.go:55` |
| `upload_two_types` | a Mattermost archive accepted without validation | `internal/supervisor/translation.go:114` |

The same modules show more on other instances, each of which gives the reason for a bound
or a condition above:

- `AtMostOneImport` fails for two supervisors: `TryLockTranslation` looks at `LockedBy`
  alone, and one that selected a translation before another finished it does it again.
  Hence one supervisor in `translation_series`, and `OneSupervisor` in its proofs.
- `CompleteIsImported` fails without `faults > 0`: `CompleteAt` is saved before the import is
  created, and a translation that is complete is never selected again.
- `Discovered` fails in the presence of an older translation of an unknown type, which is
  unlocked unstarted and selected again at every round.
- `RunOnce` and `FitWhileRunning` fail for two provisioners: `tryLockImportByProvisioner` looks
  at `ImportBy` alone, and one that selected the import before another ran it claims
  it again, on an installation that is being set back.
- The lease of the Import table fails without `Apart`: a handler that read the row before a supervisor
  locked it writes the empty `LockedBy` back, and a second supervisor takes the lock as well.
- `ArchiveIsReady` fails without `Expired`: `README.md:77-80` of the repository restarts an import by naming its `Resource`, and for a
  Slack export that is the object which `supervisor/import.go:245-253` deletes after the first import has run. A restart that was accepted before
  is then imported without its archive. Only a server that keeps import data (`--keep-import-data`) never does that.
- `ImportedIsStored` fails without `"open" \in failures[t]`: `slack/translator.go:257-260` returns no error when
  the output archive cannot be opened, and the import names an object that is not
  in the bucket (the validator, which reads the same file, may by then succeed).
- `ImportedIsWhole` needs its exception for failed entries: `slack/files.go:122` ignores the error of an
  attachment, and the status of its HTTP answer is not looked at, where the comment at lines 19-23 promises
  "all attached files".
- `ZipRemoved` needs its exceptions: the cleanup is deferred at `supervisor/translation.go:108`, so that an output
  archive stays on the disk when the upload or the update before that line fails.
- `RunOnce` fails for two import supervisors, without any fault: one that acts on a
  listing older than a claim writes every column back and resets the claim.
- `ImplementsLifecycle` needs `Renotice`: a report begun before the notice of the end shows the import as in
  progress once more.
- `Finished` fails with one crash: a lock survives its process, as each start of
  the server has a new owner.
- `VersionIsApplied` and `Migrated` fail for two migrators: the version is read outside of the
  transactions, and the second repeats the rescaling of all timestamps and sets the
  version back.

Run a check with `tlc -config ImportSafety.cfg MCImportSupervisor` and the proofs with
`tlapm ImportSafetyProofs.tla`, and likewise for the other modules.
