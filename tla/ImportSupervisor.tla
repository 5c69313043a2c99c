---------------------------- MODULE ImportSupervisor ---------------------------
(***************************************************************************)
(* The import half of the AWAT: internal/supervisor/import.go and the      *)
(* handlers of internal/api/import.go over the Import table of             *)
(* internal/store/import.go, with the Cloud Provisioner and the            *)
(* installations it manages as the environment.                            *)
(*                                                                         *)
(* supervise() and the handlers are cut at every statement they send to    *)
(* the database and at every call to the Cloud API.  What a supervisor     *)
(* decides from the installation it has just fetched is one step with the  *)
(* fetch.  Timestamps and the Error column are abstracted to whether they  *)
(* are set.                                                                *)
(***************************************************************************)
EXTENDS Naturals, InstallationConfig

CONSTANTS Imports,         \* imports that translations may create
          Translations,
          Archives,        \* the objects that the bucket may hold: t itself
                           \* stands for <t>.zip, the translator's output
          Installations,
          Supervisors,     \* running import supervisors
          Provisioners,    \* clients of the work API
          TranslationOf,   \* TranslationOf[i]: the import's translation
          InstallationOf,  \* InstallationOf[t]: where t is to be imported
          CreateAt,        \* CreateAt[i]: the time of the insert (may tie)
          InitialConfigs,  \* InitialConfigs[n]: those that n may start with
          APISecurityLock, \* APISecurityLock[n]: is n's API locked at first?
          Deletable,       \* installations that may be deleted
          KeepImportData,  \* the server's --keep-import-data
          MayRelease,      \* do provisioners ever release a claim?
          MaxFaults,       \* bound on errors of calls and process deaths
          Nobody, NoImport

ASSUME ConstantsAssumption ==
    /\ Nobody \notin Supervisors \cup Provisioners
    /\ NoImport \notin Imports
    /\ Translations \subseteq Archives
    /\ TranslationOf \in [Imports -> Translations]
    /\ InstallationOf \in [Translations -> Installations]
    /\ CreateAt \in [Imports -> Nat]
    /\ InitialConfigs \in [Installations -> SUBSET Configs]
    /\ APISecurityLock \in [Installations -> BOOLEAN]
    /\ KeepImportData \in BOOLEAN /\ MayRelease \in BOOLEAN
    /\ MaxFaults \in Nat

VARIABLES
  created,       \* the rows of the Import table
  imports,       \* imports[i]: the row of i
  bucket,        \* archives in the bucket
  pc,            \* pc[s]: where do() and supervise() are
  batch,         \* batch[s]: listed imports that s has not come to yet
  copy,          \* copy[s][i]: the model.Import in the memory of s
  cur,           \* cur[s]: the import that s supervises
  patch,         \* patch[s]: the installation patch that s will send
  state,         \* state[n]: the installation's state
  config,        \* config[n]: its configuration
  apiLocked,     \* apiLocked[n]: is its API locked?
  ppc,           \* ppc[p]: what provisioner p and its API call are doing
  work,          \* work[p]: the import it works on
  pcopy,         \* pcopy[p]: the model.Import in its handler's memory
  outcomes,      \* outcomes[i]: how runs of i have ended, "ok" or "error"
  faults         \* errors and deaths so far

table        == <<created, imports>>
session      == <<pc, batch, copy, cur, patch>>
installation == <<state, config, apiLocked>>
provisioner  == <<ppc, work, pcopy, outcomes>>

vars == <<table, bucket, session, installation, provisioner, faults>>

Requested == "import-requested"
PreAdjustment == "installation-pre-adjustment"
InProgress == "import-in-progress"
Complete == "import-complete"
PostAdjustment == "installation-post-adjustment"
Succeeded == "import-succeeded"
Failed == "import-failed"

StatesWithoutAdjustments == {Requested, InProgress, Complete}   \* mutant

AllImportStatesPendingWork ==
    {Requested, PreAdjustment, InProgress, Complete, PostAdjustment}

ImportStates == AllImportStatesPendingWork \cup {Succeeded, Failed}

\* "updating" stands for every state in which the Cloud reconciles a change.
InstallationStates == {"stable", "updating", "import-in-progress",
                       "import-complete", "deleted"}

Row == [State : ImportStates, StartAt : BOOLEAN, CompleteAt : BOOLEAN,
        LockedBy : Supervisors \cup {Nobody},
        ImportBy : Provisioners \cup {Nobody}, Error : BOOLEAN]

NewImport == [State |-> Requested, StartAt |-> FALSE, CompleteAt |-> FALSE,
              LockedBy |-> Nobody, ImportBy |-> Nobody, Error |-> FALSE]

--------------------------------------------------------------------------------

\* Nothing is imported yet and every installation is in use.
AtRest ==
    /\ created = {}
    /\ imports = [i \in Imports |-> NewImport]
    /\ pc = [s \in Supervisors |-> "idle"]
    /\ batch = [s \in Supervisors |-> {}]
    /\ copy = [s \in Supervisors |-> [i \in Imports |-> NewImport]]
    /\ cur = [s \in Supervisors |-> NoImport]
    /\ patch = [s \in Supervisors |-> NilPatch]
    /\ state = [n \in Installations |-> "stable"]
    /\ config \in [Installations -> Configs]
    /\ \A n \in Installations : config[n] \in InitialConfigs[n]
    /\ apiLocked = APISecurityLock
    /\ ppc = [p \in Provisioners |-> "idle"]
    /\ work = [p \in Provisioners |-> NoImport]
    /\ pcopy = [p \in Provisioners |-> NewImport]
    /\ outcomes = [i \in Imports |-> {}]
    /\ faults = 0

\* All translations are done, their output is in the bucket.
Init == AtRest /\ bucket = Translations

\* A translation is complete and its import is stored.
CreateImport(i) ==
    /\ i \notin created
    /\ created' = created \cup {i}
    /\ UNCHANGED <<imports, bucket, session, installation, provisioner, faults>>

Fault == faults < MaxFaults /\ faults' = faults + 1

NoFault == UNCHANGED faults

\* UPDATE Import SET <every column> WHERE ID = i
UpdateImport(i, row) == imports' = [imports EXCEPT ![i] = row]

\* A call that answers with an error may still have taken effect.
UpdateFails(i, row) ==
    /\ Fault
    /\ UpdateImport(i, row) \/ UNCHANGED imports

\* The installation of an import is that of its translation.
SiteOf(i) == InstallationOf[TranslationOf[i]]

Oldest(S) == {i \in S : \A j \in S : CreateAt[i] <= CreateAt[j]}

--------------------------------------------------------------------------------
(* do() and supervise() *)

Goto(s, label) == pc' = [pc EXCEPT ![s] = label]

FinishKeepingCur(s, rest) ==   \* mutant: the session is not forgotten
    /\ Goto(s, IF rest = {} THEN "idle" ELSE "batch")
    /\ batch' = [batch EXCEPT ![s] = rest]
    /\ UNCHANGED <<cur, patch, copy>>

\* supervise() is over: do() goes on with what is left of its list.  (What the
\* memory held of other imports is reset: nothing reads it again.)
FinishSupervise(s, rest) ==
    /\ Goto(s, IF rest = {} THEN "idle" ELSE "batch")
    /\ batch' = [batch EXCEPT ![s] = rest]
    /\ cur' = [cur EXCEPT ![s] = NoImport]
    /\ patch' = [patch EXCEPT ![s] = NilPatch]
    /\ copy' = [copy EXCEPT ![s] =
                   [i \in Imports |-> IF i \in rest THEN @[i] ELSE NewImport]]

PendingWork ==
    {i \in created : /\ imports[i].State \in AllImportStatesPendingWork
                     /\ imports[i].LockedBy = Nobody}

GetUnlockedImportPendingWork(s) ==
    /\ pc[s] = "idle"
    /\ PendingWork # {}
    /\ Goto(s, "batch")
    /\ batch' = [batch EXCEPT ![s] = PendingWork]
    /\ copy' = [copy EXCEPT ![s] =
          [i \in Imports |-> IF i \in PendingWork THEN imports[i] ELSE NewImport]]
    /\ UNCHANGED <<table, bucket, cur, patch, installation, provisioner, faults>>

LockedRow(row, s) == [row EXCEPT !.LockedBy = s]

AlwaysLockable(i) == TRUE   \* mutant: WHERE LockedBy = '' is dropped

\* The lock is won on the LockedBy column alone; the listed row is kept.
Lockable(i) == imports[i].LockedBy = Nobody

WinLock(s) ==
    /\ pc[s] = "batch"
    /\ \E i \in Oldest(batch[s]) :
         /\ Lockable(i)
         /\ UpdateImport(i, LockedRow(imports[i], s))
         /\ copy' = [copy EXCEPT ![s][i] = LockedRow(@, s)]
         /\ cur' = [cur EXCEPT ![s] = i]
         /\ batch' = [batch EXCEPT ![s] = @ \ {i}]
    /\ Goto(s, "locked")
    /\ UNCHANGED <<created, bucket, patch, installation, provisioner, faults>>

LoseLock(s) ==
    /\ pc[s] = "batch"
    /\ \E i \in Oldest(batch[s]) :
         /\ \/ ~Lockable(i) /\ NoFault /\ UNCHANGED imports
            \/ /\ Lockable(i)
               /\ UpdateFails(i, LockedRow(imports[i], s))
         /\ FinishSupervise(s, batch[s] \ {i})
    /\ UNCHANGED <<created, bucket, installation, provisioner>>

\* The translation or its installation could not be read.
FetchFails(s) ==
    /\ pc[s] = "locked"
    /\ Fault
    /\ Goto(s, "unlock")
    /\ UNCHANGED <<table, bucket, batch, copy, cur, patch, installation,
                   provisioner>>

Mine(s) == copy[s][cur[s]]                     \* the import being supervised
Site(s) == SiteOf(cur[s])                      \* its installation

\* The import moves to newState: in memory, and then in the database.
MoveTo(s, newState) ==
    /\ copy' = [copy EXCEPT ![s][cur[s]].State = newState]
    /\ Goto(s, "save")
    /\ UNCHANGED patch

Stay(s) == Goto(s, "unlock") /\ UNCHANGED <<copy, patch>>

\* handleInstallationUpdate() begins.
Adjust(s, request) ==
    /\ patch' = [patch EXCEPT ![s] = request]
    /\ Goto(s, IF apiLocked[Site(s)] THEN "unlockAPI" ELSE "patch")
    /\ UNCHANGED copy

InstallationUnavailable(s) ==   \* mutant: any state but stable is an error
    state[Site(s)] # "stable" /\ MoveTo(s, Failed)

InstallationDeleted(s) == state[Site(s)] = "deleted" /\ MoveTo(s, Failed)

transitionImportRequested(s) ==
    LET request == getPreImportPatch(config[Site(s)])
    IN /\ Mine(s).State = Requested
       /\ \/ state[Site(s)] # "stable" /\ Stay(s)
          \/ /\ state[Site(s)] = "stable" /\ request = NilPatch
             /\ MoveTo(s, InProgress)
          \/ /\ state[Site(s)] = "stable" /\ request # NilPatch
             /\ Adjust(s, request)

transitionImportInstallationPreAdjustment(s) ==
    /\ Mine(s).State = PreAdjustment
    /\ \/ state[Site(s)] # "stable" /\ Stay(s)
       \/ /\ state[Site(s)] = "stable"
          /\ MoveTo(s, IF AdjustedForImport(config[Site(s)]) THEN InProgress
                       ELSE Requested)

NotRunning(n) == state[n] # "import-in-progress"   \* mutant

\* Whether the import has been started is not looked at.
startedImportIsComplete(n) == state[n] = "import-complete"

transitionImportInProgress(s) ==
    /\ Mine(s).State = InProgress
    /\ \/ ~startedImportIsComplete(Site(s)) /\ Stay(s)
       \/ /\ startedImportIsComplete(Site(s))
          /\ copy' = [copy EXCEPT ![s][cur[s]].CompleteAt = TRUE]
          /\ Goto(s, "saveComplete")
          /\ UNCHANGED patch

Verdict(row) == IF row.Error THEN Failed ELSE Succeeded

transitionImportComplete(s) ==
    LET request == getPostImportPatch(config[Site(s)])
    IN /\ Mine(s).State = Complete
       /\ \/ state[Site(s)] # "stable" /\ Stay(s)
          \/ /\ state[Site(s)] = "stable" /\ request = NilPatch
             /\ MoveTo(s, Verdict(Mine(s)))
          \/ /\ state[Site(s)] = "stable" /\ request # NilPatch
             /\ Adjust(s, request)

transitionImportInstallationPostAdjustment(s) ==
    /\ Mine(s).State = PostAdjustment
    /\ \/ state[Site(s)] # "stable" /\ Stay(s)
       \/ /\ state[Site(s)] = "stable"
          /\ MoveTo(s, IF RevertedAfterImport(config[Site(s)])
                       THEN Verdict(Mine(s)) ELSE Complete)

transitionImport(s) ==
    /\ pc[s] = "locked"
    /\ \/ InstallationDeleted(s)
       \/ /\ state[Site(s)] # "deleted"
          /\ \/ transitionImportRequested(s)
             \/ transitionImportInstallationPreAdjustment(s)
             \/ transitionImportInProgress(s)
             \/ transitionImportComplete(s)
             \/ transitionImportInstallationPostAdjustment(s)
    /\ UNCHANGED <<table, bucket, batch, cur, installation, provisioner, faults>>

--------------------------------------------------------------------------------
(* The calls that a transition makes. *)

SetAPILock(n, locked) == apiLocked' = [apiLocked EXCEPT ![n] = locked]

UnlockAPIForInstallation(s) ==
    /\ pc[s] = "unlockAPI"
    /\ \/ SetAPILock(Site(s), FALSE) /\ Goto(s, "lockedPatch") /\ NoFault
       \/ /\ SetAPILock(Site(s), FALSE) \/ UNCHANGED apiLocked
          /\ Goto(s, "unlock")
          /\ Fault
    /\ UNCHANGED <<table, bucket, batch, copy, cur, patch, state, config,
                   provisioner>>

AlwaysPreAdjustment(importState) == PreAdjustment   \* mutant

AfterAdjustment(importState) ==
    IF importState = Requested THEN PreAdjustment ELSE PostAdjustment

\* The patch changes the installation and the Cloud reconciles it (external).
Patched(s) ==
    /\ state' = [state EXCEPT ![Site(s)] = "updating"]
    /\ config' = [config EXCEPT ![Site(s)] = ApplyPatch(@, patch[s])]

NoRelock(s, label, relockLabel) == Goto(s, label)   \* mutant: no defer

\* An API that was unlocked for the patch is locked again, whatever came of it.
AfterPatch(s, label, relockLabel) ==
    Goto(s, IF pc[s] = "patch" THEN label ELSE relockLabel)

\* The Cloud refuses a patch unless the installation is stable.
UpdateInstallation(s) ==
    /\ pc[s] \in {"patch", "lockedPatch"}
    /\ \/ /\ state[Site(s)] = "stable" /\ NoFault
          /\ Patched(s)
          /\ copy' = [copy EXCEPT ![s][cur[s]].State = AfterAdjustment(@)]
          /\ AfterPatch(s, "save", "relockToSave")
       \/ /\ \/ state[Site(s)] # "stable" /\ NoFault /\ UNCHANGED <<state, config>>
             \/ /\ state[Site(s)] = "stable" /\ Fault
                /\ Patched(s) \/ UNCHANGED <<state, config>>
          /\ AfterPatch(s, "unlock", "relockToUnlock")
          /\ UNCHANGED copy
    /\ UNCHANGED <<table, bucket, batch, cur, patch, apiLocked, provisioner>>

\* The deferred relock; its error is only logged.
LockAPIForInstallation(s) ==
    /\ pc[s] \in {"relockToSave", "relockToUnlock"}
    /\ \/ SetAPILock(Site(s), TRUE) /\ NoFault
       \/ UNCHANGED apiLocked /\ Fault
    /\ Goto(s, IF pc[s] = "relockToSave" THEN "save" ELSE "unlock")
    /\ UNCHANGED <<table, bucket, batch, copy, cur, patch, state, config,
                   provisioner>>

\* CompleteAt is saved before the bundle is deleted and the state changed.
SaveCompleteAt(s) ==
    /\ pc[s] = "saveComplete"
    /\ \/ /\ UpdateImport(cur[s], Mine(s)) /\ NoFault
          /\ IF KeepImportData THEN MoveTo(s, Complete)
             ELSE Goto(s, "deleteBundle") /\ UNCHANGED <<copy, patch>>
       \/ UpdateFails(cur[s], Mine(s)) /\ Stay(s)
    /\ UNCHANGED <<created, bucket, batch, cur, installation, provisioner>>

\* The key is that of the translator's output, whatever the import has run
\* with.  An error is only logged: the bundle may stay in the bucket.
DeleteObject(s) ==
    /\ pc[s] = "deleteBundle"
    /\ \/ bucket' = bucket \ {TranslationOf[cur[s]]} /\ NoFault
       \/ UNCHANGED bucket /\ Fault
    /\ MoveTo(s, Complete)
    /\ UNCHANGED <<table, batch, cur, installation, provisioner>>

SaveState(s) ==
    /\ pc[s] = "save"
    /\ \/ UpdateImport(cur[s], Mine(s)) /\ NoFault
       \/ UpdateFails(cur[s], Mine(s))
    /\ Goto(s, "unlock")
    /\ UNCHANGED <<created, bucket, batch, copy, cur, patch, installation,
                   provisioner>>

\* The deferred unlock writes the LockedBy column only.
UnlockImport(s) ==
    LET unlocked == [imports[cur[s]] EXCEPT !.LockedBy = Nobody]
    IN /\ pc[s] = "unlock"
       /\ \/ UpdateImport(cur[s], unlocked) /\ NoFault
          \/ UNCHANGED imports /\ Fault
       /\ FinishSupervise(s, batch[s])
       /\ UNCHANGED <<created, bucket, installation, provisioner>>

\* The process is killed, or exits on SIGTERM without waiting for the
\* supervisor, and is started again.
Crash(s) ==
    /\ pc[s] # "idle"
    /\ Fault
    /\ FinishSupervise(s, {})
    /\ UNCHANGED <<table, bucket, installation, provisioner>>

Supervise(s) ==
    \/ GetUnlockedImportPendingWork(s) \/ WinLock(s) \/ LoseLock(s)
    \/ FetchFails(s) \/ transitionImport(s)
    \/ UnlockAPIForInstallation(s) \/ UpdateInstallation(s)
    \/ LockAPIForInstallation(s)
    \/ SaveCompleteAt(s) \/ DeleteObject(s) \/ SaveState(s)
    \/ UnlockImport(s)

--------------------------------------------------------------------------------
(* The work API, called by the provisioners. *)

PGoto(p, label) == ppc' = [ppc EXCEPT ![p] = label]

\* The call is over and p has no import.
PIdle(p) ==
    /\ PGoto(p, "idle")
    /\ work' = [work EXCEPT ![p] = NoImport]
    /\ pcopy' = [pcopy EXCEPT ![p] = NewImport]

UnclaimedImports == {i \in created : imports[i].ImportBy = Nobody}   \* mutant

ReadyImports ==
    {i \in created : /\ ~imports[i].StartAt /\ ~imports[i].CompleteAt
                     /\ imports[i].ImportBy = Nobody
                     /\ imports[i].State = InProgress}

\* GetAndClaimNextReadyImport(): its SELECT, its lock and its update.
ClaimSelect(p) ==
    /\ ppc[p] = "idle"
    /\ \E i \in Oldest(ReadyImports) :
         /\ work' = [work EXCEPT ![p] = i]
         /\ pcopy' = [pcopy EXCEPT ![p] = imports[i]]
    /\ PGoto(p, "selected")
    /\ UNCHANGED <<table, bucket, session, installation, outcomes, faults>>

ClaimedRow(row, p) == [row EXCEPT !.ImportBy = p]

\* tryLockImportByProvisioner() looks at the ImportBy column alone.
ClaimLock(p) ==
    LET claimed == ClaimedRow(imports[work[p]], p)
    IN /\ ppc[p] = "selected"
       /\ \/ /\ imports[work[p]].ImportBy = Nobody /\ NoFault
             /\ UpdateImport(work[p], claimed)
             /\ pcopy' = [pcopy EXCEPT ![p] = ClaimedRow(@, p)]
             /\ PGoto(p, "won") /\ UNCHANGED work
          \/ /\ imports[work[p]].ImportBy # Nobody /\ NoFault
             /\ PIdle(p) /\ UNCHANGED imports
          \/ /\ imports[work[p]].ImportBy = Nobody
             /\ UpdateFails(work[p], claimed)
             /\ PIdle(p)
       /\ UNCHANGED <<created, bucket, session, installation, outcomes>>

ClaimStart(p) ==
    LET started == [pcopy[p] EXCEPT !.StartAt = TRUE]
    IN /\ ppc[p] = "won"
       /\ \/ UpdateImport(work[p], started) /\ NoFault
             /\ PGoto(p, "claimed") /\ UNCHANGED <<work, pcopy>>
          \/ UpdateFails(work[p], started) /\ PIdle(p)
       /\ UNCHANGED <<created, bucket, session, installation, outcomes>>

\* The handler's GetImport, before the report or the release.
ReadForUpdate(p) ==
    /\ \/ ppc[p] = "claimed" /\ MayRelease /\ PGoto(p, "releasing")
       \/ ppc[p] = "ended" /\ PGoto(p, "completing")
    /\ pcopy' = [pcopy EXCEPT ![p] = imports[work[p]]]
    /\ UNCHANGED <<table, bucket, session, installation, work, outcomes, faults>>

StillClaimed(row) == row   \* mutant: the release does not clear ImportBy

ReleasedRow(row) == [row EXCEPT !.ImportBy = Nobody]

handleReleaseLockOnImport(p) ==
    LET released == ReleasedRow(pcopy[p])
    IN /\ ppc[p] = "releasing"
       /\ \/ UpdateImport(work[p], released) /\ NoFault
          \/ UpdateFails(work[p], released)
       /\ PIdle(p)
       /\ UNCHANGED <<created, bucket, session, installation, outcomes>>

\* The error reported is that of some run of the import; a report that is
\* answered with an error is sent again.
handleCompleteImport(p) ==
    /\ ppc[p] = "completing"
    /\ \E outcome \in outcomes[work[p]] :
         LET completed == [pcopy[p] EXCEPT !.CompleteAt = TRUE,
                                           !.ImportBy = Nobody,
                                           !.Error = (outcome = "error")]
         IN \/ /\ UpdateImport(work[p], completed) /\ NoFault
               /\ PGoto(p, "reported")
            \/ UpdateFails(work[p], completed) /\ PGoto(p, "ended")
    /\ UNCHANGED <<created, bucket, session, installation, work, pcopy, outcomes>>

--------------------------------------------------------------------------------
(* The Cloud (external): the provisioner runs the import it has claimed and  *)
(* shows its progress in the state of the installation.                      *)

SetState(n, from, to) ==
    /\ state[n] = from
    /\ state' = [state EXCEPT ![n] = to]

BeginImport(p) ==
    /\ ppc[p] = "claimed"
    /\ SetState(SiteOf(work[p]), "stable", "import-in-progress")
    /\ PGoto(p, "running")
    /\ UNCHANGED <<table, bucket, session, config, apiLocked, work, pcopy,
                   outcomes, faults>>

EndImport(p, outcome) ==
    /\ ppc[p] = "running"
    /\ outcomes' = [outcomes EXCEPT ![work[p]] = @ \cup {outcome}]
    /\ PGoto(p, "ended")
    /\ UNCHANGED <<table, bucket, session, installation, work, pcopy, faults>>

\* The installation shows the end of the run before or after it is reported.
ShowImportComplete(p) ==
    /\ ppc[p] \in {"ended", "completing", "reported"}
    /\ SetState(SiteOf(work[p]), "import-in-progress", "import-complete")
    /\ UNCHANGED <<table, bucket, session, config, apiLocked, provisioner, faults>>

\* It becomes stable once the AWAT has taken note.
Settle(p) ==
    /\ ppc[p] = "reported"
    /\ imports[work[p]].State # InProgress
    /\ SetState(SiteOf(work[p]), "import-complete", "stable")
    /\ PIdle(p)
    /\ UNCHANGED <<table, bucket, session, config, apiLocked, outcomes, faults>>

Reconcile(n) ==
    /\ SetState(n, "updating", "stable")
    /\ UNCHANGED <<table, bucket, session, config, apiLocked, provisioner, faults>>

Delete(n) ==
    /\ n \in Deletable
    /\ SetState(n, "stable", "deleted")
    /\ UNCHANGED <<table, bucket, session, config, apiLocked, provisioner, faults>>

Provision(p) ==
    \/ ClaimSelect(p) \/ ClaimLock(p) \/ ClaimStart(p)
    \/ ReadForUpdate(p) \/ handleReleaseLockOnImport(p)
    \/ handleCompleteImport(p)
    \/ BeginImport(p) \/ (\E outcome \in {"ok", "error"} : EndImport(p, outcome))
    \/ ShowImportComplete(p) \/ Settle(p)

Next ==
    \/ \E i \in Imports : CreateImport(i)
    \/ \E s \in Supervisors : Supervise(s) \/ Crash(s)
    \/ \E p \in Provisioners : Provision(p)
    \/ \E n \in Installations : Reconcile(n) \/ Delete(n)

Spec == Init /\ [][Next]_vars

\* do() runs at every tick, a provisioner polls for work and its runs end, the
\* Cloud reconciles what it is asked to, and every call returns.
FairSpec ==
    /\ Spec
    /\ \A s \in Supervisors : WF_vars(Supervise(s))
    /\ \A p \in Provisioners : WF_vars(Provision(p))
    /\ \A n \in Installations : WF_vars(Reconcile(n))

\* Where a handler of the work API is between its read and its last write.
Calling == {"selected", "won", "releasing", "completing"}

\* The schedules in which no handler is there while a supervisor is between its
\* listing and its last unlock.
Serial == \/ \A s \in Supervisors : pc[s] = "idle"
          \/ \A p \in Provisioners : ppc[p] \notin Calling

\* The schedules in which no handler is there with an import that a supervisor
\* has in its list or in its hands.
Apart == \A s \in Supervisors, p \in Provisioners :
            ppc[p] \in Calling => work[p] \notin batch[s] \cup {cur[s]}

ApartSpec == Init /\ [][Next /\ Apart']_vars

--------------------------------------------------------------------------------
(* Properties *)

Holds(s) == pc[s] \notin {"idle", "batch"}

Holders(i) == {s \in Supervisors : Holds(s) /\ cur[s] = i}

Labels == {"idle", "batch", "locked", "unlockAPI", "patch", "lockedPatch",
           "relockToSave", "relockToUnlock", "saveComplete", "deleteBundle",
           "save", "unlock"}

PLabels == {"idle", "selected", "won", "claimed", "releasing", "running",
            "ended", "completing", "reported"}

\* The variables have their types; a supervisor has an import in hand exactly
\* while it is in supervise(), a provisioner unless it is idle.
TypeOK ==
    /\ created \subseteq Imports
    /\ imports \in [Imports -> Row]
    /\ bucket \subseteq Archives
    /\ pc \in [Supervisors -> Labels]
    /\ batch \in [Supervisors -> SUBSET Imports]
    /\ copy \in [Supervisors -> [Imports -> Row]]
    /\ cur \in [Supervisors -> Imports \cup {NoImport}]
    /\ patch \in [Supervisors -> Patches]
    /\ state \in [Installations -> InstallationStates]
    /\ config \in [Installations -> Configs]
    /\ apiLocked \in [Installations -> BOOLEAN]
    /\ ppc \in [Provisioners -> PLabels]
    /\ work \in [Provisioners -> Imports \cup {NoImport}]
    /\ pcopy \in [Provisioners -> Row]
    /\ outcomes \in [Imports -> SUBSET {"ok", "error"}]
    /\ faults \in 0..MaxFaults
    /\ \A s \in Supervisors : Holds(s) <=> cur[s] # NoImport
    /\ \A p \in Provisioners : ppc[p] = "idle" <=> work[p] = NoImport

Ran(i) == outcomes[i] # {}

\* An import is complete or succeeded only after a run of it has ended.
SucceededMeansRan ==
    \A i \in Imports :
        imports[i].State \in {Complete, PostAdjustment, Succeeded} => Ran(i)

\* An import fails only if a run of it did or its installation is gone.
FailedForCause ==
    \A i \in Imports :
        imports[i].State = Failed =>
            "error" \in outcomes[i] \/ state[SiteOf(i)] = "deleted"

\* A run whose only outcome is an error never shows as a success: the report
\* is to "mark that an import has finished with or without an error".
ReportedErrorFails ==
    \A i \in Imports : outcomes[i] = {"error"} => imports[i].State # Succeeded

\* The bundle is deleted only after the import that needs it has run.
BundleKeptUntilRun ==
    \A i \in Imports : Ran(i) \/ TranslationOf[i] \in bucket

\* No import runs on an installation that is not adjusted for it, and nothing
\* reverts the adjustment under a run.
FitWhileRunning ==
    \A n \in Installations :
        state[n] = "import-in-progress" => FitForImport(config[n])

\* An installation has its overrides and its size removed before its import
\* succeeds: none is left behind, not even by a patch that was half wanted.
SucceededIsReverted ==
    \A i \in Imports :
        imports[i].State = Succeeded =>
            /\ \A k \in EnvKeys : config[SiteOf(i)].PriorityEnv[k] # ForImport
            /\ config[SiteOf(i)].Size # Size1000

\* The API of a locked installation is unlocked only while a supervisor is
\* between unlocking and relocking it.
APIRelocked ==
    faults = 0 => \A n \in Installations :
        apiLocked[n] # APISecurityLock[n] =>
            \E s \in Supervisors :
                /\ pc[s] \in {"lockedPatch", "relockToSave", "relockToUnlock"}
                /\ Site(s) = n

\* A claim that the table shows on an import that waits for its run is one
\* that its provisioner knows of, unless a call has failed: no release, and no
\* full-row update from an older copy, leaves it claimed by nobody.
ClaimIsHeld ==
    faults = 0 => \A i \in created, p \in Provisioners :
        imports[i].State = InProgress /\ ~imports[i].CompleteAt =>
            (imports[i].ImportBy = p => work[p] = i)

\* No import is started again after a run of it has ended, or while one is on.
RunOnce ==
    [][\A p \in Provisioners :
          ppc[p] = "claimed" /\ ppc'[p] = "running" =>
              /\ ~Ran(work[p])
              /\ \A q \in Provisioners :
                    work[q] = work[p] => ppc[q] # "running"]_vars

\* Every import ends: the supervisor "regularly checks for new import tasks
\* and processes them accordingly".
Finished ==
    \A i \in Imports :
        i \in created ~> imports[i].State \in {Succeeded, Failed}

Lease == INSTANCE WorkLease WITH
    Items   <- Imports,
    Workers <- Supervisors,
    holders <- [i \in Imports |-> Holders(i)],
    lost    <- {i \in Imports : ~(imports[i].LockedBy = Nobody) /\ Holders(i) = {}}

\* The lock of the Import table is a lease, although supervisors and handlers
\* save whole rows, LockedBy included, that they have read before: as long as no
\* handler has read a row that a supervisor goes on to lock or unlock.
ImplementsLease == Lease!Spec

\* What the API answers on an import: nothing on one that is not stored.
Shown == [i \in Imports |-> IF i \in created THEN imports[i].State ELSE "none"]

Lifecycle == INSTANCE ImportLifecycle WITH
    status <- Shown,
    ran    <- {i \in Imports : Ran(i)}

\* One supervisor and one provisioner, each writing whole rows under no common
\* lock, show their clients an import that goes through its states in order,
\* runs once, and never changes its verdict.
ImplementsLifecycle == Lifecycle!Spec
================================================================================
