------------------------ MODULE ImportSupervisorProofs -------------------------
(***************************************************************************)
(* What the import supervisors and the work API guarantee, for any sets of *)
(* imports, supervisors and provisioners and any number of faults.         *)
(***************************************************************************)
EXTENDS ImportSupervisor, TLAPS

USE ConstantsAssumption
USE DEF table, session, installation, provisioner, Goto, PGoto, Fault, NoFault,
        UpdateImport, SiteOf, Mine, Site

--------------------------------------------------------------------------------
(* The patches *)

LEMMA PatchTyped ==
  ASSUME NEW c \in Configs
  PROVE  getPreImportPatch(c) \in Patches /\ getPostImportPatch(c) \in Patches
BY DEF getPreImportPatch, getPostImportPatch, Patches, Configs, ToOverride, Overridden

LEMMA AppliedTyped ==
  ASSUME NEW c \in Configs, NEW q \in Patches
  PROVE  ApplyPatch(c, q) \in Configs
BY DEF ApplyPatch, Patches, Configs, Env, Keep

LEMMA NilPatchTyped == NilPatch \in Patches
BY DEF NilPatch, Patches

--------------------------------------------------------------------------------
(* Types *)

LEMMA NewImportTyped == NewImport \in Row
BY DEF NewImport, Row, ImportStates, AllImportStatesPendingWork

LEMMA RowTyped ==
  ASSUME NEW row \in Row
  PROVE  /\ \A s \in Supervisors \cup {Nobody} : [row EXCEPT !.LockedBy = s] \in Row
         /\ \A p \in Provisioners \cup {Nobody} : [row EXCEPT !.ImportBy = p] \in Row
         /\ \A state_ \in ImportStates : [row EXCEPT !.State = state_] \in Row
         /\ [row EXCEPT !.StartAt = TRUE] \in Row
         /\ [row EXCEPT !.CompleteAt = TRUE] \in Row
         /\ \A error \in BOOLEAN :
              [row EXCEPT !.CompleteAt = TRUE, !.ImportBy = Nobody, !.Error = error] \in Row
BY DEF Row

LEMMA Verdicts == \A row : Verdict(row) \in ImportStates
BY DEF Verdict, ImportStates

TableTyped ==
    /\ created \subseteq Imports
    /\ imports \in [Imports -> Row]
    /\ bucket \subseteq Archives

SessionTyped ==
    /\ pc \in [Supervisors -> Labels]
    /\ batch \in [Supervisors -> SUBSET Imports]
    /\ copy \in [Supervisors -> [Imports -> Row]]
    /\ cur \in [Supervisors -> Imports \cup {NoImport}]
    /\ patch \in [Supervisors -> Patches]
    /\ \A s \in Supervisors : Holds(s) <=> cur[s] # NoImport

SiteTyped ==
    /\ state \in [Installations -> InstallationStates]
    /\ config \in [Installations -> Configs]
    /\ apiLocked \in [Installations -> BOOLEAN]

WorkTyped ==
    /\ ppc \in [Provisioners -> PLabels]
    /\ work \in [Provisioners -> Imports \cup {NoImport}]
    /\ pcopy \in [Provisioners -> Row]
    /\ outcomes \in [Imports -> SUBSET {"ok", "error"}]
    /\ \A p \in Provisioners : ppc[p] = "idle" <=> work[p] = NoImport

CountTyped == faults \in 0..MaxFaults

LEMMA TypeParts ==
  TypeOK <=> TableTyped /\ SessionTyped /\ SiteTyped /\ WorkTyped /\ CountTyped
BY DEF TypeOK, TableTyped, SessionTyped, SiteTyped, WorkTyped, CountTyped

LEMMA PartsKept ==
  /\ TableTyped /\ UNCHANGED <<created, imports, bucket>> => TableTyped'
  /\ SessionTyped /\ UNCHANGED <<pc, batch, copy, cur, patch>> => SessionTyped'
  /\ SiteTyped /\ UNCHANGED <<state, config, apiLocked>> => SiteTyped'
  /\ WorkTyped /\ UNCHANGED <<ppc, work, pcopy, outcomes>> => WorkTyped'
  /\ CountTyped /\ (faults' = faults \/ Fault) => CountTyped'
BY DEF TableTyped, SessionTyped, SiteTyped, WorkTyped, CountTyped, Holds

LEMMA SaveTyped ==
  ASSUME TableTyped, NEW i \in Imports, NEW row \in Row,
         UpdateImport(i, row) \/ UNCHANGED imports, created' = created,
         bucket' \subseteq bucket
  PROVE  TableTyped'
BY DEF TableTyped

\* What a supervisor has in hand.
LEMMA HandTyped ==
  ASSUME TypeOK, NEW s \in Supervisors, Holds(s)
  PROVE  /\ cur[s] \in Imports /\ imports[cur[s]] \in Row
         /\ Mine(s) \in Row /\ Site(s) \in Installations
BY DEF TypeOK

\* The supervisor stays at its import, with label as its next statement.
LEMMA StayTyped ==
  ASSUME SessionTyped, NEW s \in Supervisors, Holds(s),
         NEW label \in Labels \ {"idle", "batch"}, Goto(s, label),
         UNCHANGED <<batch, cur>>, patch' \in [Supervisors -> Patches],
         copy' \in [Supervisors -> [Imports -> Row]]
  PROVE  SessionTyped'
<1>1. pc' \in [Supervisors -> Labels] /\ Holds(s)'
  BY DEF SessionTyped, Holds
<1>2. \A r \in Supervisors \ {s} : pc'[r] = pc[r]
  BY DEF SessionTyped
<1> QED BY <1>1, <1>2 DEF SessionTyped, Holds

LEMMA FinishTyped ==
  ASSUME SessionTyped, NEW s \in Supervisors, NEW rest \in SUBSET Imports,
         FinishSupervise(s, rest)
  PROVE  SessionTyped'
<1>1. pc' \in [Supervisors -> Labels] /\ ~Holds(s)'
  BY DEF FinishSupervise, SessionTyped, Labels, Holds
<1>2. copy' \in [Supervisors -> [Imports -> Row]]
  <2> DEFINE kept == [i \in Imports |-> IF i \in rest THEN copy[s][i] ELSE NewImport]
  <2>1. kept \in [Imports -> Row]
    BY NewImportTyped DEF SessionTyped
  <2>2. copy' = [copy EXCEPT ![s] = kept]
    BY DEF FinishSupervise, SessionTyped
  <2> HIDE DEF kept
  <2> QED BY <2>1, <2>2 DEF SessionTyped
<1>3. patch' \in [Supervisors -> Patches]
  BY NilPatchTyped DEF FinishSupervise, SessionTyped
<1>4. /\ batch' \in [Supervisors -> SUBSET Imports]
      /\ cur' \in [Supervisors -> Imports \cup {NoImport}]
      /\ cur'[s] = NoImport
  BY DEF FinishSupervise, SessionTyped
<1>5. \A r \in Supervisors \ {s} : pc'[r] = pc[r] /\ cur'[r] = cur[r]
  BY DEF FinishSupervise, SessionTyped
<1> QED BY <1>1, <1>2, <1>3, <1>4, <1>5 DEF SessionTyped, Holds

\* What a supervisor changes of the import in its memory.
LEMMA CopyTyped ==
  ASSUME SessionTyped, NEW s \in Supervisors, cur[s] \in Imports
  PROVE  /\ copy \in [Supervisors -> [Imports -> Row]]
         /\ \A new \in ImportStates :
              [copy EXCEPT ![s][cur[s]].State = new] \in [Supervisors -> [Imports -> Row]]
         /\ [copy EXCEPT ![s][cur[s]].CompleteAt = TRUE]
              \in [Supervisors -> [Imports -> Row]]
<1>1. \A row \in Row :
         [copy EXCEPT ![s] = [copy[s] EXCEPT ![cur[s]] = row]]
           \in [Supervisors -> [Imports -> Row]]
  BY DEF SessionTyped
<1>2. copy[s][cur[s]] \in Row
  BY DEF SessionTyped
<1>3. /\ \A new \in ImportStates : [copy[s][cur[s]] EXCEPT !.State = new] \in Row
      /\ [copy[s][cur[s]] EXCEPT !.CompleteAt = TRUE] \in Row
  BY <1>2, RowTyped
<1>4. /\ \A new \in ImportStates :
           [copy EXCEPT ![s][cur[s]].State = new]
             = [copy EXCEPT ![s] = [copy[s] EXCEPT ![cur[s]] =
                   [copy[s][cur[s]] EXCEPT !.State = new]]]
      /\ [copy EXCEPT ![s][cur[s]].CompleteAt = TRUE]
             = [copy EXCEPT ![s] = [copy[s] EXCEPT ![cur[s]] =
                   [copy[s][cur[s]] EXCEPT !.CompleteAt = TRUE]]]
  OBVIOUS
<1> QED BY <1>1, <1>3, <1>4 DEF SessionTyped

LEMMA MoveTyped ==
  ASSUME SessionTyped, NEW s \in Supervisors, Holds(s), cur[s] \in Imports,
         NEW new \in ImportStates, MoveTo(s, new), UNCHANGED <<batch, cur>>
  PROVE  SessionTyped'
BY CopyTyped, StayTyped DEF MoveTo, SessionTyped, Labels

LEMMA TransitionTyped ==
  ASSUME SessionTyped, SiteTyped, NEW s \in Supervisors, transitionImport(s)
  PROVE  SessionTyped'
<1>1. /\ Holds(s) /\ cur[s] \in Imports /\ config[Site(s)] \in Configs
      /\ UNCHANGED <<batch, cur>>
  BY DEF transitionImport, SessionTyped, SiteTyped, Holds
<1>2. ASSUME NEW new \in ImportStates, MoveTo(s, new)
      PROVE  SessionTyped'
  BY <1>1, <1>2, MoveTyped
<1>3. Stay(s) => SessionTyped'
  BY <1>1, StayTyped DEF Stay, SessionTyped, Labels
<1>4. ASSUME NEW request \in Patches, Adjust(s, request)
      PROVE  SessionTyped'
  <2>1. patch' \in [Supervisors -> Patches] /\ copy' = copy
    BY <1>4 DEF Adjust, SessionTyped
  <2>2. Goto(s, "unlockAPI") \/ Goto(s, "patch")
    BY <1>4 DEF Adjust
  <2> QED BY <1>1, <2>1, <2>2, StayTyped DEF Labels, SessionTyped
<1>5. CASE InstallationDeleted(s)
  BY <1>2, <1>5 DEF InstallationDeleted, ImportStates
<1>6. CASE transitionImportRequested(s)
  BY <1>1, <1>2, <1>3, <1>4, <1>6, PatchTyped
     DEF transitionImportRequested, ImportStates, AllImportStatesPendingWork
<1>7. CASE transitionImportInstallationPreAdjustment(s)
  BY <1>2, <1>3, <1>7 DEF transitionImportInstallationPreAdjustment, ImportStates,
     AllImportStatesPendingWork
<1>8. CASE transitionImportInProgress(s)
  <2>1. CASE copy' = [copy EXCEPT ![s][cur[s]].CompleteAt = TRUE]
             /\ Goto(s, "saveComplete") /\ patch' = patch
    <3>1. copy' \in [Supervisors -> [Imports -> Row]]
      BY <1>1, <2>1, CopyTyped
    <3> QED BY <1>1, <2>1, <3>1, StayTyped DEF SessionTyped, Labels
  <2> QED BY <1>3, <1>8, <2>1 DEF transitionImportInProgress
<1>9. CASE transitionImportComplete(s)
  BY <1>1, <1>2, <1>3, <1>4, <1>9, PatchTyped, Verdicts DEF transitionImportComplete
<1>10. CASE transitionImportInstallationPostAdjustment(s)
  BY <1>2, <1>3, <1>10, Verdicts DEF transitionImportInstallationPostAdjustment,
     ImportStates, AllImportStatesPendingWork
<1> QED BY <1>5, <1>6, <1>7, <1>8, <1>9, <1>10 DEF transitionImport

LEMMA SuperviseTyped ==
  ASSUME TypeOK, NEW s \in Supervisors, Supervise(s) \/ Crash(s)
  PROVE  TableTyped' /\ SessionTyped' /\ SiteTyped' /\ WorkTyped' /\ CountTyped'
<1> USE TypeParts, PartsKept
<1>1. CASE GetUnlockedImportPendingWork(s)
  <2>1. /\ pc[s] = "idle" /\ pc' = [pc EXCEPT ![s] = "batch"]
        /\ batch' \in [Supervisors -> SUBSET Imports] /\ UNCHANGED <<cur, patch>>
    BY <1>1 DEF GetUnlockedImportPendingWork, PendingWork, SessionTyped, TableTyped
  <2>2. copy' \in [Supervisors -> [Imports -> Row]]
    <3> DEFINE listed ==
          [i \in Imports |-> IF i \in PendingWork THEN imports[i] ELSE NewImport]
    <3>1. listed \in [Imports -> Row]
      BY NewImportTyped DEF TableTyped
    <3>2. copy' = [copy EXCEPT ![s] = listed]
      BY <1>1 DEF GetUnlockedImportPendingWork
    <3> HIDE DEF listed
    <3> QED BY <3>1, <3>2 DEF SessionTyped
  <2>3. SessionTyped'
    BY <2>1, <2>2 DEF SessionTyped, Labels, Holds
  <2> QED BY <1>1, <2>3 DEF GetUnlockedImportPendingWork
<1>2. CASE WinLock(s)
  <2>1. PICK i \in Oldest(batch[s]) :
          /\ UpdateImport(i, LockedRow(imports[i], s))
          /\ copy' = [copy EXCEPT ![s][i] = LockedRow(@, s)]
          /\ cur' = [cur EXCEPT ![s] = i]
          /\ batch' = [batch EXCEPT ![s] = @ \ {i}]
    BY <1>2 DEF WinLock
  <2>2. /\ i \in Imports /\ imports[i] \in Row /\ copy[s][i] \in Row
    BY DEF Oldest, SessionTyped, TableTyped
  <2>3. /\ LockedRow(imports[i], s) \in Row /\ LockedRow(copy[s][i], s) \in Row
    BY <2>2, RowTyped DEF LockedRow
  <2>4. copy' \in [Supervisors -> [Imports -> Row]]
    BY <2>1, <2>2, <2>3 DEF SessionTyped
  <2>5. /\ pc' = [pc EXCEPT ![s] = "locked"] /\ patch' = patch
        /\ batch' \in [Supervisors -> SUBSET Imports]
    BY <1>2, <2>1 DEF WinLock, SessionTyped
  <2>6. SessionTyped'
    BY <2>1, <2>2, <2>4, <2>5 DEF SessionTyped, Labels, Holds
  <2>7. TableTyped'
    BY <1>2, <2>1, <2>2, <2>3, SaveTyped DEF WinLock
  <2> QED BY <1>2, <2>6, <2>7 DEF WinLock
<1>3. CASE LoseLock(s)
  <2>1. PICK i \in Oldest(batch[s]) :
          /\ UNCHANGED imports \/ UpdateImport(i, LockedRow(imports[i], s))
          /\ faults' = faults \/ Fault
          /\ FinishSupervise(s, batch[s] \ {i})
    BY <1>3 DEF LoseLock, UpdateFails
  <2>2. i \in Imports /\ imports[i] \in Row /\ batch[s] \ {i} \in SUBSET Imports
    BY DEF Oldest, SessionTyped, TableTyped
  <2>3. TableTyped'
    BY <1>3, <2>1, <2>2, RowTyped, SaveTyped DEF LockedRow, LoseLock
  <2> QED BY <1>3, <2>1, <2>2, <2>3, FinishTyped DEF LoseLock
<1>4. CASE FetchFails(s)
  <2>1. SessionTyped'
    BY <1>4, StayTyped DEF FetchFails, Labels, Holds, SessionTyped
  <2> QED BY <1>4, <2>1 DEF FetchFails
<1>5. CASE transitionImport(s)
  BY <1>5, TransitionTyped DEF transitionImport
<1>6. CASE UnlockAPIForInstallation(s) \/ LockAPIForInstallation(s)
  <2>1. SessionTyped'
    BY <1>6, StayTyped DEF UnlockAPIForInstallation, LockAPIForInstallation,
       Labels, Holds, SessionTyped
  <2>2. SiteTyped'
    BY <1>6 DEF UnlockAPIForInstallation, LockAPIForInstallation, SetAPILock, SiteTyped
  <2> QED
    BY <1>6, <2>1, <2>2 DEF UnlockAPIForInstallation, LockAPIForInstallation
<1>7. CASE UpdateInstallation(s)
  <2>1. /\ Holds(s) /\ cur[s] \in Imports /\ Site(s) \in Installations
        /\ config[Site(s)] \in Configs /\ patch[s] \in Patches
    BY <1>7 DEF UpdateInstallation, SessionTyped, SiteTyped, Holds
  <2>2. SiteTyped'
    <3>1. Patched(s) => SiteTyped'
      BY <1>7, <2>1, AppliedTyped DEF UpdateInstallation, Patched, SiteTyped,
         InstallationStates
    <3>2. Patched(s) \/ UNCHANGED <<state, config>>
      BY <1>7 DEF UpdateInstallation
    <3> QED BY <1>7, <3>1, <3>2 DEF UpdateInstallation
  <2>3. copy' \in [Supervisors -> [Imports -> Row]]
    <3>1. AfterAdjustment(Mine(s).State) \in ImportStates
      BY DEF AfterAdjustment, ImportStates, AllImportStatesPendingWork
    <3>2. CASE copy' = copy
      BY <3>2 DEF SessionTyped
    <3>3. ASSUME NEW new \in ImportStates,
                 copy' = [copy EXCEPT ![s][cur[s]].State = new]
          PROVE  copy' \in [Supervisors -> [Imports -> Row]]
      BY <2>1, <3>3, CopyTyped
    <3>4. copy' = copy \/ \E new \in ImportStates :
             copy' = [copy EXCEPT ![s][cur[s]].State = new]
      BY <1>7, <3>1 DEF UpdateInstallation
    <3> QED BY <3>2, <3>3, <3>4
  <2>4. \E label \in {"save", "relockToSave", "unlock", "relockToUnlock"} : Goto(s, label)
    BY <1>7 DEF UpdateInstallation, AfterPatch
  <2>5. SessionTyped'
    BY <1>7, <2>1, <2>3, <2>4, StayTyped DEF UpdateInstallation, SessionTyped, Labels
  <2> QED BY <1>7, <2>2, <2>5 DEF UpdateInstallation
<1>8. CASE SaveCompleteAt(s)
  <2>1. Holds(s) /\ cur[s] \in Imports /\ Mine(s) \in Row
    <3>1. Holds(s)
      BY <1>8 DEF SaveCompleteAt, Holds
    <3> QED BY <3>1, HandTyped
  <2>2. TableTyped'
    <3>1. /\ UpdateImport(cur[s], Mine(s)) \/ UNCHANGED imports
          /\ UNCHANGED <<created, bucket>>
      BY <1>8 DEF SaveCompleteAt, UpdateFails
    <3> QED BY <2>1, <3>1, SaveTyped
  <2>3. SessionTyped'
    <3>1. \/ MoveTo(s, Complete) \/ Stay(s)
          \/ Goto(s, "deleteBundle") /\ UNCHANGED <<copy, patch>>
      BY <1>8 DEF SaveCompleteAt
    <3> QED
      BY <1>8, <2>1, <3>1, MoveTyped, StayTyped DEF SaveCompleteAt, Stay, Labels,
         SessionTyped, ImportStates, AllImportStatesPendingWork
  <2> QED BY <1>8, <2>2, <2>3 DEF SaveCompleteAt, UpdateFails
<1>9. CASE DeleteObject(s)
  <2>1. SessionTyped'
    BY <1>9, MoveTyped DEF DeleteObject, SessionTyped, Holds, ImportStates,
       AllImportStatesPendingWork
  <2>2. TableTyped'
    BY <1>9 DEF DeleteObject, TableTyped
  <2> QED BY <1>9, <2>1, <2>2 DEF DeleteObject
<1>10. CASE SaveState(s)
  <2>1. Holds(s) /\ cur[s] \in Imports /\ Mine(s) \in Row
    BY <1>10 DEF SaveState, SessionTyped, Holds
  <2>2. TableTyped'
    BY <1>10, <2>1, SaveTyped DEF SaveState, UpdateFails
  <2>3. SessionTyped'
    BY <1>10, <2>1, StayTyped DEF SaveState, Labels, SessionTyped
  <2> QED BY <1>10, <2>2, <2>3 DEF SaveState, UpdateFails
<1>11. CASE UnlockImport(s)
  <2>1. cur[s] \in Imports /\ batch[s] \in SUBSET Imports /\ imports[cur[s]] \in Row
    BY <1>11 DEF UnlockImport, SessionTyped, TableTyped, Holds
  <2>2. TableTyped'
    BY <1>11, <2>1, RowTyped, SaveTyped DEF UnlockImport
  <2> QED BY <1>11, <2>1, <2>2, FinishTyped DEF UnlockImport
<1>12. CASE Crash(s)
  BY <1>12, FinishTyped DEF Crash
<1> QED
  BY <1>1, <1>2, <1>3, <1>4, <1>5, <1>6, <1>7, <1>8, <1>9, <1>10, <1>11, <1>12
     DEF Supervise

\* A call of a provisioner, with label as its next statement or the end of it.
LEMMA CallTyped ==
  ASSUME WorkTyped, NEW p \in Provisioners, outcomes' = outcomes,
         \/ PIdle(p)
         \/ /\ work[p] \in Imports /\ work' = work
            /\ pcopy' \in [Provisioners -> Row]
            /\ \E label \in PLabels \ {"idle"} : PGoto(p, label)
  PROVE  WorkTyped'
<1>1. CASE PIdle(p)
  <2>1. ppc' \in [Provisioners -> PLabels] /\ ppc'[p] = "idle"
    BY <1>1 DEF PIdle, WorkTyped, PLabels
  <2>2. pcopy' \in [Provisioners -> Row]
    BY <1>1, NewImportTyped DEF PIdle, WorkTyped
  <2>3. work' \in [Provisioners -> Imports \cup {NoImport}] /\ work'[p] = NoImport
    BY <1>1 DEF PIdle, WorkTyped
  <2>4. \A q \in Provisioners \ {p} : ppc'[q] = ppc[q] /\ work'[q] = work[q]
    BY <1>1 DEF PIdle, WorkTyped
  <2> QED BY <2>1, <2>2, <2>3, <2>4 DEF WorkTyped
<1>2. ASSUME work[p] \in Imports, work' = work, pcopy' \in [Provisioners -> Row],
             NEW label \in PLabels \ {"idle"}, PGoto(p, label)
      PROVE  WorkTyped'
  <2>1. ppc' \in [Provisioners -> PLabels] /\ ppc'[p] # "idle"
    BY <1>2 DEF WorkTyped
  <2>2. \A q \in Provisioners \ {p} : ppc'[q] = ppc[q]
    BY <1>2 DEF WorkTyped
  <2> QED BY <1>2, <2>1, <2>2 DEF WorkTyped
<1> QED BY <1>1, <1>2

LEMMA ProvisionTyped ==
  ASSUME TypeOK, NEW p \in Provisioners, Provision(p)
  PROVE  TableTyped' /\ SessionTyped' /\ SiteTyped' /\ WorkTyped' /\ CountTyped'
<1> USE TypeParts, PartsKept
<1>1. /\ ppc[p] # "idle" => work[p] \in Imports /\ imports[work[p]] \in Row
      /\ pcopy[p] \in Row
  BY DEF TypeOK
<1>2. CASE ClaimSelect(p)
  <2>1. PICK i \in Oldest(ReadyImports) :
          /\ work' = [work EXCEPT ![p] = i]
          /\ pcopy' = [pcopy EXCEPT ![p] = imports[i]]
    BY <1>2 DEF ClaimSelect
  <2>2. i \in Imports /\ imports[i] \in Row
    BY DEF Oldest, ReadyImports, TypeOK
  <2>3. ppc' \in [Provisioners -> PLabels] /\ ppc'[p] # "idle"
    BY <1>2 DEF ClaimSelect, WorkTyped, PLabels
  <2>4. \A q \in Provisioners \ {p} : ppc'[q] = ppc[q]
    BY <1>2 DEF ClaimSelect, WorkTyped
  <2>5. WorkTyped'
    BY <1>2, <2>1, <2>2, <2>3, <2>4 DEF ClaimSelect, WorkTyped
  <2> QED BY <1>2, <2>5 DEF ClaimSelect
<1>3. CASE ClaimLock(p)
  <2>1. /\ work[p] \in Imports
        /\ ClaimedRow(imports[work[p]], p) \in Row /\ ClaimedRow(pcopy[p], p) \in Row
    BY <1>1, <1>3, RowTyped DEF ClaimLock, ClaimedRow
  <2>2. TableTyped'
    BY <1>3, <2>1, SaveTyped DEF ClaimLock, UpdateFails
  <2>3. \/ PIdle(p)
        \/ /\ pcopy' = [pcopy EXCEPT ![p] = ClaimedRow(@, p)]
           /\ PGoto(p, "won") /\ UNCHANGED work
    BY <1>3 DEF ClaimLock
  <2>4. pcopy' = [pcopy EXCEPT ![p] = ClaimedRow(@, p)] =>
           pcopy' \in [Provisioners -> Row]
    BY <2>1 DEF WorkTyped
  <2>5. WorkTyped'
    BY <1>3, <2>1, <2>3, <2>4, CallTyped DEF ClaimLock, PLabels
  <2> QED BY <1>3, <2>2, <2>5 DEF ClaimLock, UpdateFails
<1>4. CASE ClaimStart(p)
  <2>1. work[p] \in Imports /\ [pcopy[p] EXCEPT !.StartAt = TRUE] \in Row
    BY <1>1, <1>4, RowTyped DEF ClaimStart
  <2>2. TableTyped'
    BY <1>4, <2>1, SaveTyped DEF ClaimStart, UpdateFails
  <2>3. WorkTyped'
    BY <1>4, <2>1, CallTyped DEF ClaimStart, WorkTyped, PLabels
  <2> QED BY <1>4, <2>2, <2>3 DEF ClaimStart, UpdateFails
<1>5. CASE ReadForUpdate(p)
  <2>1. work[p] \in Imports /\ imports[work[p]] \in Row
    BY <1>1, <1>5 DEF ReadForUpdate
  <2>2. pcopy' \in [Provisioners -> Row]
    BY <1>5, <2>1 DEF ReadForUpdate, WorkTyped
  <2>3. WorkTyped'
    BY <1>5, <2>1, <2>2, CallTyped DEF ReadForUpdate, PLabels
  <2> QED BY <1>5, <2>3 DEF ReadForUpdate
<1>6. CASE handleReleaseLockOnImport(p)
  <2>1. work[p] \in Imports /\ ReleasedRow(pcopy[p]) \in Row
    BY <1>1, <1>6, RowTyped DEF handleReleaseLockOnImport, ReleasedRow
  <2>2. TableTyped'
    BY <1>6, <2>1, SaveTyped DEF handleReleaseLockOnImport, UpdateFails
  <2>3. WorkTyped'
    BY <1>6, CallTyped DEF handleReleaseLockOnImport
  <2> QED BY <1>6, <2>2, <2>3 DEF handleReleaseLockOnImport, UpdateFails
<1>7. CASE handleCompleteImport(p)
  <2>1. PICK error \in BOOLEAN :
          \/ UpdateImport(work[p], [pcopy[p] EXCEPT !.CompleteAt = TRUE,
                                       !.ImportBy = Nobody, !.Error = error])
          \/ UNCHANGED imports
    BY <1>7 DEF handleCompleteImport, UpdateFails
  <2>2. /\ work[p] \in Imports
        /\ [pcopy[p] EXCEPT !.CompleteAt = TRUE, !.ImportBy = Nobody,
                            !.Error = error] \in Row
    BY <1>1, <1>7, RowTyped DEF handleCompleteImport
  <2>3. TableTyped'
    BY <1>7, <2>1, <2>2, SaveTyped DEF handleCompleteImport
  <2>4. WorkTyped'
    BY <1>7, <2>2, CallTyped DEF handleCompleteImport, WorkTyped, PLabels
  <2> QED BY <1>7, <2>3, <2>4 DEF handleCompleteImport, UpdateFails
<1>8. CASE BeginImport(p) \/ ShowImportComplete(p) \/ Settle(p)
  <2>1. SiteTyped'
    BY <1>8 DEF BeginImport, ShowImportComplete, Settle, SetState, SiteTyped,
       InstallationStates
  <2>2. CASE BeginImport(p)
    <3>1. WorkTyped'
      BY <1>1, <2>2, CallTyped DEF BeginImport, WorkTyped, PLabels
    <3> QED BY <2>1, <2>2, <3>1 DEF BeginImport
  <2>3. CASE ShowImportComplete(p)
    BY <2>1, <2>3 DEF ShowImportComplete
  <2>4. CASE Settle(p)
    BY <2>1, <2>4, CallTyped DEF Settle
  <2> QED BY <1>8, <2>2, <2>3, <2>4
<1>9. ASSUME NEW outcome \in {"ok", "error"}, EndImport(p, outcome)
      PROVE  TableTyped' /\ SessionTyped' /\ SiteTyped' /\ WorkTyped' /\ CountTyped'
  <2>1. outcomes' \in [Imports -> SUBSET {"ok", "error"}]
    BY <1>9 DEF EndImport, WorkTyped
  <2>2. ppc' \in [Provisioners -> PLabels] /\ ppc'[p] # "idle" /\ ppc[p] # "idle"
    BY <1>9 DEF EndImport, WorkTyped, PLabels
  <2>3. \A q \in Provisioners \ {p} : ppc'[q] = ppc[q]
    BY <1>9 DEF EndImport, WorkTyped
  <2>4. WorkTyped'
    BY <1>9, <2>1, <2>2, <2>3 DEF EndImport, WorkTyped
  <2> QED BY <1>9, <2>4 DEF EndImport
<1> QED
  BY <1>2, <1>3, <1>4, <1>5, <1>6, <1>7, <1>8, <1>9 DEF Provision

LEMMA TypeStep ==
  ASSUME TypeOK, [Next]_vars
  PROVE  TypeOK'
<1> DEFINE Typed == /\ TableTyped' /\ SessionTyped' /\ SiteTyped' /\ WorkTyped'
                    /\ CountTyped'
<1>1. ASSUME NEW i \in Imports, CreateImport(i)
      PROVE  Typed
  <2>1. TableTyped'
    BY <1>1, TypeParts DEF CreateImport, TableTyped
  <2> QED BY <1>1, <2>1, TypeParts, PartsKept DEF CreateImport
<1>2. ASSUME NEW n \in Installations, Reconcile(n) \/ Delete(n)
      PROVE  Typed
  <2>1. SiteTyped'
    BY <1>2, TypeParts DEF Reconcile, Delete, SetState, SiteTyped, InstallationStates
  <2> QED BY <1>2, <2>1, TypeParts, PartsKept DEF Reconcile, Delete
<1>3. ASSUME UNCHANGED vars
      PROVE  Typed
  BY <1>3, TypeParts, PartsKept DEF vars
<1>4. ASSUME NEW s \in Supervisors, Supervise(s) \/ Crash(s)
      PROVE  Typed
  BY <1>4, SuperviseTyped
<1>5. ASSUME NEW p \in Provisioners, Provision(p)
      PROVE  Typed
  BY <1>5, ProvisionTyped
<1>6. Typed => TypeOK'
  BY DEF TypeOK, TableTyped, SessionTyped, SiteTyped, WorkTyped, CountTyped
<1> HIDE DEF Typed
<1> QED
  BY <1>1, <1>2, <1>3, <1>4, <1>5, <1>6 DEF Next

LEMMA RestTyped == AtRest /\ bucket \subseteq Archives => TypeOK
<1> SUFFICES ASSUME AtRest, bucket \subseteq Archives
             PROVE  TypeOK
  OBVIOUS
<1>1. TableTyped
  BY NewImportTyped DEF AtRest, TableTyped
<1>2. SessionTyped
  BY NewImportTyped, NilPatchTyped DEF AtRest, SessionTyped, Labels, Holds
<1>3. SiteTyped
  BY DEF AtRest, SiteTyped, InstallationStates
<1>4. WorkTyped
  BY NewImportTyped DEF AtRest, WorkTyped, PLabels
<1>5. CountTyped
  BY DEF AtRest, CountTyped
<1> QED BY <1>1, <1>2, <1>3, <1>4, <1>5, TypeParts

\* The variables have their types, and supervisors and provisioners have an
\* import in hand exactly while they are at one.
THEOREM ImportTypeCorrect == Spec => []TypeOK
<1>1. Init => TypeOK
  BY RestTyped DEF Init
<1> QED BY <1>1, TypeStep, PTL DEF Spec

--------------------------------------------------------------------------------
(* Verdicts and their cause *)

\* A run has ended on the installation of i, of this import or of another.
SiteRan(i) == \E j \in Imports : SiteOf(j) = SiteOf(i) /\ Ran(j)

\* Rows of i whose contents have a cause.
Justified(i) ==
    {row \in Row :
        /\ row.Error => "error" \in outcomes[i]
        /\ row.State = Failed =>
               "error" \in outcomes[i] \/ state[SiteOf(i)] = "deleted"
        /\ row.State \in {Complete, PostAdjustment, Succeeded} => SiteRan(i)}

\* Any of these rows may be the one that is written next.
RowsJustified ==
    /\ \A i \in Imports : imports[i] \in Justified(i)
    /\ \A s \in Supervisors, i \in Imports : copy[s][i] \in Justified(i)
    /\ \A p \in Provisioners, i \in Imports :
         work[p] = i => pcopy[p] \in Justified(i)

\* The states of an installation that follow a run.
RunsShown ==
    /\ \A p \in Provisioners :
         ppc[p] \in {"ended", "completing", "reported"} => Ran(work[p])
    /\ \A n \in Installations :
         state[n] = "import-complete" =>
             \E j \in Imports : SiteOf(j) = n /\ Ran(j)

\* What a supervisor knows at the statements that follow its decision.
Decided(s) ==
    /\ pc[s] \in {"saveComplete", "deleteBundle"} =>
           \A i \in Imports : cur[s] = i => SiteRan(i)
    /\ pc[s] \in {"unlockAPI", "patch", "lockedPatch"} =>
           Mine(s).State \in {Requested, Complete}

CauseInv == RowsJustified /\ RunsShown /\ \A s \in Supervisors : Decided(s)

\* Outcomes are not forgotten, and a deleted installation does not return.
HistoryGrows ==
    /\ \A i \in Imports : outcomes[i] \subseteq outcomes'[i]
    /\ \A n \in Installations : state[n] = "deleted" => state'[n] = "deleted"

LEMMA SuperviseHistory ==
  ASSUME TypeOK, NEW s \in Supervisors, Supervise(s) \/ Crash(s)
  PROVE  HistoryGrows /\ outcomes' = outcomes
<1>1. outcomes' = outcomes
  BY DEF Supervise, GetUnlockedImportPendingWork, WinLock, LoseLock, FetchFails,
     transitionImport, UnlockAPIForInstallation, UpdateInstallation,
     LockAPIForInstallation, SaveCompleteAt, DeleteObject, SaveState, UnlockImport,
     Crash
<1>2. CASE UpdateInstallation(s)
  <2>1. \/ UNCHANGED state
        \/ /\ state[Site(s)] = "stable"
           /\ state' = [state EXCEPT ![Site(s)] = "updating"]
    BY <1>2 DEF UpdateInstallation, Patched
  <2> QED BY <1>1, <2>1 DEF HistoryGrows, TypeOK
<1>3. CASE ~UpdateInstallation(s)
  <2>1. UNCHANGED state
    BY <1>3 DEF Supervise, GetUnlockedImportPendingWork, WinLock, LoseLock,
       FetchFails, transitionImport, UnlockAPIForInstallation,
       LockAPIForInstallation, SaveCompleteAt, DeleteObject, SaveState,
       UnlockImport, Crash
  <2> QED BY <1>1, <2>1 DEF HistoryGrows
<1> QED BY <1>1, <1>2, <1>3

LEMMA ProvisionHistory ==
  ASSUME TypeOK, NEW p \in Provisioners, Provision(p)
  PROVE  HistoryGrows
<1>1. CASE BeginImport(p) \/ ShowImportComplete(p) \/ Settle(p)
  <2>1. \E n \in Installations, from \in {"stable", "import-in-progress",
            "import-complete"}, to \in InstallationStates : SetState(n, from, to)
    <3>1. work[p] \in Imports
      BY <1>1 DEF TypeOK, BeginImport, ShowImportComplete, Settle
    <3>2. SiteOf(work[p]) \in Installations
      BY <3>1
    <3> QED BY <1>1, <3>2 DEF BeginImport, ShowImportComplete, Settle,
               InstallationStates
  <2>2. UNCHANGED outcomes
    BY <1>1 DEF BeginImport, ShowImportComplete, Settle
  <2> QED BY <2>1, <2>2 DEF HistoryGrows, SetState, TypeOK
<1>2. ASSUME NEW outcome \in {"ok", "error"}, EndImport(p, outcome)
      PROVE  HistoryGrows
  BY <1>2 DEF EndImport, HistoryGrows, TypeOK
<1>3. CASE UNCHANGED <<state, outcomes>>
  BY <1>3 DEF HistoryGrows
<1> QED
  BY <1>1, <1>2, <1>3 DEF Provision, ClaimSelect, ClaimLock, ClaimStart,
     ReadForUpdate, handleReleaseLockOnImport, handleCompleteImport

\* What was justified stays justified.
LEMMA CauseKept ==
  ASSUME TypeOK, HistoryGrows
  PROVE  \A i \in Imports : /\ Ran(i) => Ran(i)'
                            /\ SiteRan(i) => SiteRan(i)'
                            /\ Justified(i) \subseteq Justified(i)'
<1>1. \A i \in Imports : Ran(i) => Ran(i)'
  BY DEF HistoryGrows, Ran
<1>2. \A i \in Imports : SiteRan(i) => SiteRan(i)'
  BY <1>1 DEF SiteRan
<1>3. ASSUME NEW i \in Imports, NEW row \in Justified(i)
      PROVE  row \in Justified(i)'
  <2>1. SiteOf(i) \in Installations
    OBVIOUS
  <2> QED BY <1>2, <1>3, <2>1 DEF Justified, HistoryGrows
<1> QED BY <1>1, <1>2, <1>3

\* Locks and claims need no cause; a change of state does.
LEMMA EditJustified ==
  ASSUME NEW i \in Imports, NEW row \in Justified(i)
  PROVE  /\ \A s \in Supervisors \cup {Nobody} :
              [row EXCEPT !.LockedBy = s] \in Justified(i)
         /\ \A p \in Provisioners \cup {Nobody} :
              [row EXCEPT !.ImportBy = p] \in Justified(i)
         /\ [row EXCEPT !.StartAt = TRUE] \in Justified(i)
         /\ [row EXCEPT !.CompleteAt = TRUE] \in Justified(i)
         /\ \A outcome \in outcomes[i] :
              [row EXCEPT !.CompleteAt = TRUE, !.ImportBy = Nobody,
                          !.Error = (outcome = "error")] \in Justified(i)
         /\ \A new \in {Requested, PreAdjustment, InProgress} :
              [row EXCEPT !.State = new] \in Justified(i)
         /\ SiteRan(i) => \A new \in {Complete, PostAdjustment, Succeeded} :
              [row EXCEPT !.State = new] \in Justified(i)
         /\ "error" \in outcomes[i] \/ state[SiteOf(i)] = "deleted" =>
              [row EXCEPT !.State = Failed] \in Justified(i)
BY DEF Justified, Row, Requested, PreAdjustment, InProgress, Complete,
   PostAdjustment, Succeeded, Failed, ImportStates, AllImportStatesPendingWork

LEMMA NewJustified == \A i \in Imports : NewImport \in Justified(i)
BY NewImportTyped DEF NewImport, Justified, Requested, Complete, PostAdjustment,
   Succeeded, Failed

\* The row that a supervisor has in memory, with another state.
LEMMA MoveJustified ==
  ASSUME TypeOK, RowsJustified, NEW s \in Supervisors, cur[s] \in Imports,
         NEW new \in ImportStates, MoveTo(s, new),
         [Mine(s) EXCEPT !.State = new] \in Justified(cur[s])
  PROVE  \A r \in Supervisors, i \in Imports : copy'[r][i] \in Justified(i)
<1>1. /\ copy'[s][cur[s]] = [Mine(s) EXCEPT !.State = new]
      /\ \A i \in Imports \ {cur[s]} : copy'[s][i] = copy[s][i]
      /\ \A r \in Supervisors \ {s} : copy'[r] = copy[r]
  BY DEF MoveTo, TypeOK
<1> QED BY <1>1 DEF RowsJustified

LEMMA FinishJustified ==
  ASSUME TypeOK, RowsJustified, NEW s \in Supervisors, NEW rest,
         FinishSupervise(s, rest)
  PROVE  \A r \in Supervisors, i \in Imports : copy'[r][i] \in Justified(i)
<1>1. /\ \A i \in Imports : copy'[s][i] \in {copy[s][i], NewImport}
      /\ \A r \in Supervisors \ {s} : copy'[r] = copy[r]
  BY DEF FinishSupervise, TypeOK
<1> QED BY <1>1, NewJustified DEF RowsJustified

LEMMA TransitionJustified ==
  ASSUME TypeOK, RowsJustified, RunsShown, NEW s \in Supervisors, transitionImport(s)
  PROVE  /\ \A r \in Supervisors, i \in Imports : copy'[r][i] \in Justified(i)
         /\ pc'[s] \in {"save", "unlock", "unlockAPI", "patch", "saveComplete"}
         /\ pc'[s] \in {"unlockAPI", "patch"} =>
                copy' = copy /\ Mine(s).State \in {Requested, Complete}
         /\ pc'[s] = "saveComplete" => SiteRan(cur[s])
<1> DEFINE Outcome ==
      /\ \A r \in Supervisors, i \in Imports : copy'[r][i] \in Justified(i)
      /\ pc'[s] \in {"save", "unlock", "unlockAPI", "patch", "saveComplete"}
      /\ pc'[s] \in {"unlockAPI", "patch"} =>
             copy' = copy /\ Mine(s).State \in {Requested, Complete}
      /\ pc'[s] = "saveComplete" => SiteRan(cur[s])
<1>1. /\ cur[s] \in Imports /\ Mine(s) \in Justified(cur[s]) /\ pc[s] = "locked"
      /\ Site(s) \in Installations
  BY HandTyped DEF transitionImport, RowsJustified, Holds
<1>2. ASSUME NEW new \in ImportStates, MoveTo(s, new),
             [Mine(s) EXCEPT !.State = new] \in Justified(cur[s])
      PROVE  Outcome
  <2>1. pc'[s] = "save"
    BY <1>2 DEF MoveTo, TypeOK
  <2> QED BY <1>1, <1>2, <2>1, MoveJustified
<1>3. Stay(s) => Outcome
  BY DEF Stay, RowsJustified, TypeOK
<1>4. ASSUME NEW request, Adjust(s, request), Mine(s).State \in {Requested, Complete}
      PROVE  Outcome
  BY <1>4 DEF Adjust, RowsJustified, TypeOK
<1>5. ASSUME Mine(s).State \in {Complete, PostAdjustment}, MoveTo(s, Verdict(Mine(s)))
      PROVE  Outcome
  <2>1. SiteRan(cur[s]) /\ (Mine(s).Error => "error" \in outcomes[cur[s]])
    BY <1>1, <1>5 DEF Justified
  <2>2. PICK new \in {Succeeded, Failed} : new = Verdict(Mine(s))
    BY DEF Verdict
  <2>3. [Mine(s) EXCEPT !.State = new] \in Justified(cur[s])
    BY <1>1, <2>1, <2>2, EditJustified DEF Verdict
  <2>4. MoveTo(s, new)
    BY <1>5, <2>2
  <2>5. new \in ImportStates
    BY <2>2 DEF ImportStates
  <2> QED BY <1>2, <2>3, <2>4, <2>5
<1>6. CASE InstallationDeleted(s)
  BY <1>1, <1>2, <1>6, EditJustified DEF InstallationDeleted, ImportStates
<1>7. CASE transitionImportRequested(s)
  BY <1>1, <1>2, <1>3, <1>4, <1>7, EditJustified
     DEF transitionImportRequested, ImportStates, AllImportStatesPendingWork
<1>8. CASE transitionImportInstallationPreAdjustment(s)
  <2>1. ASSUME NEW new \in {InProgress, Requested}, MoveTo(s, new)
        PROVE  Outcome
    BY <1>1, <1>2, <2>1, EditJustified DEF ImportStates, AllImportStatesPendingWork
  <2> QED BY <1>3, <1>8, <2>1 DEF transitionImportInstallationPreAdjustment
<1>9. CASE transitionImportInProgress(s)
  <2>1. CASE /\ startedImportIsComplete(Site(s))
             /\ copy' = [copy EXCEPT ![s][cur[s]].CompleteAt = TRUE]
             /\ Goto(s, "saveComplete")
    <3>1. SiteRan(cur[s])
      BY <1>1, <2>1 DEF startedImportIsComplete, RunsShown, SiteRan
    <3>2. /\ copy'[s][cur[s]] = [Mine(s) EXCEPT !.CompleteAt = TRUE]
          /\ \A i \in Imports \ {cur[s]} : copy'[s][i] = copy[s][i]
          /\ \A r \in Supervisors \ {s} : copy'[r] = copy[r]
          /\ pc'[s] = "saveComplete"
      BY <1>1, <2>1 DEF TypeOK
    <3>3. [Mine(s) EXCEPT !.CompleteAt = TRUE] \in Justified(cur[s])
      BY <1>1, EditJustified
    <3>4. \A r \in Supervisors, i \in Imports : copy'[r][i] \in Justified(i)
      BY <3>2, <3>3 DEF RowsJustified
    <3> QED BY <3>1, <3>2, <3>4
  <2> QED BY <1>3, <1>9, <2>1 DEF transitionImportInProgress
<1>10. CASE transitionImportComplete(s)
  BY <1>3, <1>4, <1>5, <1>10 DEF transitionImportComplete
<1>11. CASE transitionImportInstallationPostAdjustment(s)
  <2>1. ASSUME Mine(s).State = PostAdjustment, MoveTo(s, Complete)
        PROVE  Outcome
    BY <1>1, <1>2, <2>1, EditJustified DEF Justified, ImportStates,
       AllImportStatesPendingWork
  <2> QED BY <1>3, <1>5, <1>11, <2>1 DEF transitionImportInstallationPostAdjustment
<1> QED
  BY <1>6, <1>7, <1>8, <1>9, <1>10, <1>11 DEF transitionImport

LEMMA SaveJustified ==
  ASSUME TypeOK, RowsJustified, NEW i \in Imports, NEW row \in Justified(i),
         UpdateImport(i, row) \/ UNCHANGED imports
  PROVE  \A j \in Imports : imports'[j] \in Justified(j)
BY DEF UpdateImport, RowsJustified, TypeOK

\* Whatever a supervisor writes, in the table or in its memory, has its cause.
LEMMA SuperviseTable ==
  ASSUME TypeOK, CauseInv, NEW s \in Supervisors, Supervise(s) \/ Crash(s)
  PROVE  \A i \in Imports : imports'[i] \in Justified(i)
<1> USE DEF CauseInv
<1>1. CASE WinLock(s) \/ LoseLock(s)
  <2>1. PICK i \in Imports :
          \/ UpdateImport(i, LockedRow(imports[i], s))
          \/ UNCHANGED imports
    BY <1>1 DEF WinLock, LoseLock, UpdateFails, Oldest, TypeOK
  <2>2. LockedRow(imports[i], s) \in Justified(i)
    BY EditJustified DEF LockedRow, RowsJustified
  <2> QED BY <2>1, <2>2, SaveJustified
<1>2. CASE SaveCompleteAt(s) \/ SaveState(s)
  <2>1. cur[s] \in Imports
    BY <1>2, HandTyped DEF SaveCompleteAt, SaveState, Holds
  <2>2. UpdateImport(cur[s], Mine(s)) \/ UNCHANGED imports
    BY <1>2 DEF SaveCompleteAt, SaveState, UpdateFails
  <2>3. Mine(s) \in Justified(cur[s])
    BY <2>1 DEF Mine, RowsJustified
  <2> QED BY <2>1, <2>2, <2>3, SaveJustified
<1>3. CASE UnlockImport(s)
  <2>1. cur[s] \in Imports
    BY <1>3, HandTyped DEF UnlockImport, Holds
  <2>2. \/ UpdateImport(cur[s], [imports[cur[s]] EXCEPT !.LockedBy = Nobody])
        \/ UNCHANGED imports
    BY <1>3 DEF UnlockImport
  <2>3. [imports[cur[s]] EXCEPT !.LockedBy = Nobody] \in Justified(cur[s])
    BY <2>1, EditJustified DEF RowsJustified
  <2> QED BY <2>1, <2>2, <2>3, SaveJustified
<1>4. CASE UNCHANGED imports
  BY <1>4 DEF RowsJustified
<1> QED
  BY <1>1, <1>2, <1>3, <1>4
     DEF Supervise, Crash, GetUnlockedImportPendingWork, FetchFails,
         transitionImport, UnlockAPIForInstallation, UpdateInstallation,
         LockAPIForInstallation, DeleteObject, table

LEMMA SuperviseMemory ==
  ASSUME TypeOK, CauseInv, NEW s \in Supervisors, Supervise(s) \/ Crash(s)
  PROVE  \A r \in Supervisors, i \in Imports : copy'[r][i] \in Justified(i)
<1> USE DEF CauseInv
<1>1. CASE GetUnlockedImportPendingWork(s)
  <2>1. /\ \A i \in Imports : copy'[s][i] \in {imports[i], NewImport}
        /\ \A r \in Supervisors \ {s} : copy'[r] = copy[r]
    BY <1>1 DEF GetUnlockedImportPendingWork, TypeOK
  <2> QED BY <2>1, NewJustified DEF RowsJustified
<1>2. CASE WinLock(s)
  <2>1. PICK i \in Imports : copy' = [copy EXCEPT ![s][i] = LockedRow(@, s)]
    BY <1>2 DEF WinLock, Oldest, TypeOK
  <2>2. /\ copy'[s][i] = LockedRow(copy[s][i], s)
        /\ \A j \in Imports \ {i} : copy'[s][j] = copy[s][j]
        /\ \A r \in Supervisors \ {s} : copy'[r] = copy[r]
    BY <2>1 DEF TypeOK
  <2>3. LockedRow(copy[s][i], s) \in Justified(i)
    BY EditJustified DEF LockedRow, RowsJustified
  <2> QED BY <2>2, <2>3 DEF RowsJustified
<1>3. CASE LoseLock(s) \/ UnlockImport(s) \/ Crash(s)
  <2>1. PICK rest : FinishSupervise(s, rest)
    BY <1>3 DEF LoseLock, UnlockImport, Crash
  <2> QED BY <2>1, FinishJustified
<1>4. CASE transitionImport(s)
  BY <1>4, TransitionJustified
<1>5. CASE UpdateInstallation(s)
  <2>1. cur[s] \in Imports /\ Mine(s).State \in {Requested, Complete}
    BY <1>5, HandTyped DEF UpdateInstallation, Holds, Decided
  <2>2. PICK new \in {PreAdjustment, PostAdjustment} :
          /\ new = AfterAdjustment(Mine(s).State)
          /\ new = PostAdjustment => Mine(s).State = Complete
    <3>1. CASE Mine(s).State = Requested
      BY <3>1 DEF AfterAdjustment, PreAdjustment, PostAdjustment
    <3>2. CASE Mine(s).State = Complete
      BY <3>2 DEF AfterAdjustment, Requested, Complete
    <3> QED BY <2>1, <3>1, <3>2
  <2>3. [Mine(s) EXCEPT !.State = new] \in Justified(cur[s])
    <3>1. Mine(s) \in Justified(cur[s])
      BY <2>1 DEF Mine, RowsJustified
    <3>2. new = PostAdjustment => SiteRan(cur[s])
      BY <2>2, <3>1 DEF Justified
    <3> QED BY <2>1, <2>2, <3>1, <3>2, EditJustified
  <2>4. \/ copy' = [copy EXCEPT ![s][cur[s]].State = new]
        \/ copy' = copy
    BY <1>5, <2>2 DEF UpdateInstallation, Mine
  <2>5. CASE copy' = [copy EXCEPT ![s][cur[s]].State = new]
    <3>1. /\ copy'[s][cur[s]] = [Mine(s) EXCEPT !.State = new]
          /\ \A i \in Imports \ {cur[s]} : copy'[s][i] = copy[s][i]
          /\ \A r \in Supervisors \ {s} : copy'[r] = copy[r]
      BY <2>1, <2>5 DEF TypeOK, Mine
    <3> QED BY <2>3, <3>1 DEF RowsJustified
  <2> QED BY <2>4, <2>5 DEF RowsJustified
<1>6. CASE SaveCompleteAt(s) \/ DeleteObject(s)
  <2>1. cur[s] \in Imports /\ SiteRan(cur[s])
    BY <1>6, HandTyped DEF SaveCompleteAt, DeleteObject, Holds, Decided
  <2>2. Complete \in ImportStates
    BY DEF ImportStates, AllImportStatesPendingWork
  <2>3. [Mine(s) EXCEPT !.State = Complete] \in Justified(cur[s])
    <3>1. Mine(s) \in Justified(cur[s])
      BY <2>1 DEF Mine, RowsJustified
    <3> QED BY <2>1, <3>1, EditJustified
  <2>4. MoveTo(s, Complete) \/ copy' = copy
    BY <1>6 DEF SaveCompleteAt, DeleteObject, Stay
  <2> QED BY <2>1, <2>2, <2>3, <2>4, MoveJustified DEF RowsJustified
<1>7. CASE UNCHANGED copy
  BY <1>7 DEF RowsJustified
<1> QED
  BY <1>1, <1>2, <1>3, <1>4, <1>5, <1>6, <1>7
     DEF Supervise, FetchFails, UnlockAPIForInstallation, LockAPIForInstallation,
         SaveState

LEMMA SuperviseDecided ==
  ASSUME TypeOK, CauseInv, NEW s \in Supervisors, Supervise(s) \/ Crash(s)
  PROVE  /\ \A r \in Supervisors \ {s} :
              pc'[r] = pc[r] /\ cur'[r] = cur[r] /\ copy'[r] = copy[r]
         /\ pc'[s] \in {"saveComplete", "deleteBundle"} =>
              \A i \in Imports : cur'[s] = i => SiteRan(i)
         /\ pc'[s] \in {"unlockAPI", "patch", "lockedPatch"} =>
              copy'[s][cur'[s]].State \in {Requested, Complete}
<1> USE DEF CauseInv
<1>1. CASE WinLock(s) \/ GetUnlockedImportPendingWork(s)
  BY <1>1 DEF WinLock, GetUnlockedImportPendingWork, Goto, TypeOK
<1>2. CASE LoseLock(s) \/ UnlockImport(s) \/ Crash(s)
  <2>1. PICK rest : FinishSupervise(s, rest)
    BY <1>2 DEF LoseLock, UnlockImport, Crash
  <2> QED BY <2>1 DEF FinishSupervise, Goto, TypeOK
<1>3. CASE transitionImport(s)
  <2>1. /\ cur' = cur
        /\ \A r \in Supervisors \ {s} : pc'[r] = pc[r] /\ copy'[r] = copy[r]
    BY <1>3 DEF transitionImport, InstallationDeleted, transitionImportRequested,
       transitionImportInstallationPreAdjustment, transitionImportInProgress,
       transitionImportComplete, transitionImportInstallationPostAdjustment,
       MoveTo, Stay, Adjust, Goto, TypeOK
  <2>2. cur[s] \in Imports
    BY <1>3, HandTyped DEF transitionImport, Holds
  <2>3. pc'[s] = "saveComplete" => SiteRan(cur[s])
    BY <1>3, TransitionJustified
  <2>4. pc'[s] \in {"unlockAPI", "patch"} =>
            copy' = copy /\ copy[s][cur[s]].State \in {Requested, Complete}
    BY <1>3, TransitionJustified DEF Mine
  <2>5. pc'[s] \notin {"deleteBundle", "lockedPatch"}
    BY <1>3, TransitionJustified
  <2> QED BY <2>1, <2>2, <2>3, <2>4, <2>5
<1>4. CASE UnlockAPIForInstallation(s)
  <2>1. /\ cur' = cur /\ copy' = copy
        /\ \A r \in Supervisors \ {s} : pc'[r] = pc[r]
        /\ pc'[s] \in {"lockedPatch", "unlock"} /\ pc[s] = "unlockAPI"
    BY <1>4 DEF UnlockAPIForInstallation, Goto, TypeOK
  <2>2. copy[s][cur[s]].State \in {Requested, Complete}
    BY <2>1 DEF Decided, Mine
  <2> QED BY <2>1, <2>2
<1>5. CASE UpdateInstallation(s) \/ LockAPIForInstallation(s) \/ SaveState(s)
           \/ FetchFails(s)
  <2>1. pc'[s] \in {"save", "unlock", "relockToSave", "relockToUnlock"}
    BY <1>5 DEF UpdateInstallation, LockAPIForInstallation, SaveState, FetchFails,
       AfterPatch, Goto, TypeOK
  <2>2. /\ cur' = cur
        /\ \A r \in Supervisors \ {s} : pc'[r] = pc[r] /\ copy'[r] = copy[r]
    BY <1>5 DEF UpdateInstallation, LockAPIForInstallation, SaveState, FetchFails,
       AfterPatch, Goto, TypeOK
  <2> QED BY <2>1, <2>2
<1>6. CASE SaveCompleteAt(s) \/ DeleteObject(s)
  <2>1. /\ cur' = cur
        /\ \A r \in Supervisors \ {s} : pc'[r] = pc[r] /\ copy'[r] = copy[r]
        /\ pc'[s] \in {"deleteBundle", "save", "unlock"}
    BY <1>6 DEF SaveCompleteAt, DeleteObject, MoveTo, Stay, Goto, TypeOK
  <2>2. \A i \in Imports : cur[s] = i => SiteRan(i)
    BY <1>6 DEF SaveCompleteAt, DeleteObject, Decided
  <2> QED BY <2>1, <2>2
<1> QED BY <1>1, <1>2, <1>3, <1>4, <1>5, <1>6 DEF Supervise

LEMMA SuperviseCause ==
  ASSUME TypeOK, CauseInv, NEW s \in Supervisors, Supervise(s) \/ Crash(s)
  PROVE  CauseInv'
<1>1. \A i \in Imports : (SiteRan(i) => SiteRan(i)') /\ Justified(i) \subseteq Justified(i)'
  BY SuperviseHistory, CauseKept
<1>2. UNCHANGED <<ppc, work, pcopy, outcomes>>
  BY DEF Supervise, GetUnlockedImportPendingWork, WinLock, LoseLock, FetchFails,
     transitionImport, UnlockAPIForInstallation, UpdateInstallation,
     LockAPIForInstallation, SaveCompleteAt, DeleteObject, SaveState, UnlockImport,
     Crash, provisioner
<1>3. RowsJustified'
  BY <1>1, <1>2, SuperviseTable, SuperviseMemory DEF RowsJustified, CauseInv
<1>4. RunsShown'
  <2>1. \A n \in Installations :
            state'[n] = "import-complete" => state[n] = "import-complete"
    BY DEF Supervise, GetUnlockedImportPendingWork, WinLock, LoseLock, FetchFails,
       transitionImport, UnlockAPIForInstallation, UpdateInstallation, Patched,
       LockAPIForInstallation, SaveCompleteAt, DeleteObject, SaveState,
       UnlockImport, Crash, installation, TypeOK
  <2> QED BY <1>2, <2>1 DEF RunsShown, CauseInv, Ran
<1>5. ASSUME NEW r \in Supervisors
      PROVE  Decided(r)'
  BY <1>1, SuperviseDecided DEF Decided, Mine, CauseInv
<1> QED BY <1>3, <1>4, <1>5 DEF CauseInv

\* So has whatever the work API writes.
LEMMA ProvisionRows ==
  ASSUME TypeOK, CauseInv, NEW p \in Provisioners, Provision(p)
  PROVE  /\ \A i \in Imports : imports'[i] \in Justified(i)
         /\ \A q \in Provisioners, i \in Imports :
              work'[q] = i => pcopy'[q] \in Justified(i)
<1> USE DEF CauseInv
<1> DEFINE Written == \A i \in Imports : imports'[i] \in Justified(i)
           Read == \A q \in Provisioners, i \in Imports :
                     work'[q] = i => pcopy'[q] \in Justified(i)
<1>1. ASSUME PIdle(p)
      PROVE  Read
  BY <1>1 DEF PIdle, TypeOK, RowsJustified
<1>2. ASSUME UNCHANGED <<work, pcopy>>
      PROVE  Read
  BY <1>2 DEF RowsJustified
<1>3. ASSUME UNCHANGED imports
      PROVE  Written
  BY <1>3 DEF RowsJustified
<1>4. ppc[p] # "idle" => work[p] \in Imports /\ pcopy[p] \in Justified(work[p])
  BY DEF TypeOK, RowsJustified
<1>5. ASSUME NEW i \in Imports, NEW row \in Justified(i),
             UpdateImport(i, row) \/ UNCHANGED imports
      PROVE  Written
  BY <1>5, SaveJustified
<1>6. CASE ClaimSelect(p)
  <2>1. PICK i \in Imports : /\ work' = [work EXCEPT ![p] = i]
                             /\ pcopy' = [pcopy EXCEPT ![p] = imports[i]]
    BY <1>6 DEF ClaimSelect, Oldest, ReadyImports, TypeOK
  <2>2. Read
    BY <2>1 DEF TypeOK, RowsJustified
  <2> QED BY <1>3, <1>6, <2>2 DEF ClaimSelect, table
<1>7. CASE ClaimLock(p)
  <2>1. work[p] \in Imports /\ pcopy[p] \in Justified(work[p])
    BY <1>4, <1>7 DEF ClaimLock
  <2>2. ClaimedRow(imports[work[p]], p) \in Justified(work[p])
    BY <2>1, EditJustified DEF RowsJustified, ClaimedRow
  <2>3. Written
    BY <1>5, <1>7, <2>1, <2>2 DEF ClaimLock, UpdateFails
  <2>4. CASE pcopy' = [pcopy EXCEPT ![p] = ClaimedRow(@, p)] /\ UNCHANGED work
    <3>1. ClaimedRow(pcopy[p], p) \in Justified(work[p])
      BY <2>1, EditJustified DEF ClaimedRow
    <3>2. /\ pcopy'[p] = ClaimedRow(pcopy[p], p)
          /\ \A q \in Provisioners \ {p} : pcopy'[q] = pcopy[q]
      BY <2>4 DEF TypeOK
    <3>3. Read
      BY <2>4, <3>1, <3>2 DEF RowsJustified
    <3> QED BY <2>3, <3>3
  <2> QED BY <1>1, <1>7, <2>3, <2>4 DEF ClaimLock
<1>8. CASE ClaimStart(p)
  <2>1. work[p] \in Imports /\ pcopy[p] \in Justified(work[p])
    BY <1>4, <1>8 DEF ClaimStart
  <2>2. [pcopy[p] EXCEPT !.StartAt = TRUE] \in Justified(work[p])
    BY <2>1, EditJustified
  <2>3. Written
    BY <1>5, <1>8, <2>1, <2>2 DEF ClaimStart, UpdateFails
  <2> QED BY <1>1, <1>2, <1>8, <2>3 DEF ClaimStart
<1>9. CASE ReadForUpdate(p)
  <2>1. /\ work' = work /\ pcopy'[p] = imports[work[p]]
        /\ \A q \in Provisioners \ {p} : pcopy'[q] = pcopy[q]
    BY <1>9 DEF ReadForUpdate, TypeOK
  <2>2. Read
    BY <2>1 DEF RowsJustified
  <2> QED BY <1>3, <1>9, <2>2 DEF ReadForUpdate, table
<1>10. CASE handleReleaseLockOnImport(p)
  <2>1. work[p] \in Imports /\ pcopy[p] \in Justified(work[p])
    BY <1>4, <1>10 DEF handleReleaseLockOnImport
  <2>2. ReleasedRow(pcopy[p]) \in Justified(work[p])
    BY <2>1, EditJustified DEF ReleasedRow
  <2>3. Written
    BY <1>5, <1>10, <2>1, <2>2 DEF handleReleaseLockOnImport, UpdateFails
  <2> QED BY <1>1, <1>10, <2>3 DEF handleReleaseLockOnImport
<1>11. CASE handleCompleteImport(p)
  <2>1. work[p] \in Imports /\ pcopy[p] \in Justified(work[p])
    BY <1>4, <1>11 DEF handleCompleteImport
  <2>2. PICK outcome \in outcomes[work[p]] :
          \/ UpdateImport(work[p],
                 [pcopy[p] EXCEPT !.CompleteAt = TRUE, !.ImportBy = Nobody,
                                  !.Error = (outcome = "error")])
          \/ UNCHANGED imports
    BY <1>11 DEF handleCompleteImport, UpdateFails
  <2>3. [pcopy[p] EXCEPT !.CompleteAt = TRUE, !.ImportBy = Nobody,
                         !.Error = (outcome = "error")] \in Justified(work[p])
    BY <2>1, EditJustified
  <2>4. Written
    BY <1>5, <2>1, <2>2, <2>3
  <2> QED BY <1>2, <1>11, <2>4 DEF handleCompleteImport
<1>12. CASE Settle(p)
  BY <1>1, <1>3, <1>12 DEF Settle, table
<1>13. CASE UNCHANGED <<imports, work, pcopy>>
  BY <1>2, <1>3, <1>13
<1> QED
  BY <1>6, <1>7, <1>8, <1>9, <1>10, <1>11, <1>12, <1>13
     DEF Provision, BeginImport, EndImport, ShowImportComplete, table, provisioner

LEMMA ProvisionCause ==
  ASSUME TypeOK, CauseInv, NEW p \in Provisioners, Provision(p)
  PROVE  CauseInv'
<1>1. \A i \in Imports : /\ Ran(i) => Ran(i)'
                         /\ SiteRan(i) => SiteRan(i)'
                         /\ Justified(i) \subseteq Justified(i)'
  BY ProvisionHistory, CauseKept
<1>2. UNCHANGED session
  BY DEF Provision, ClaimSelect, ClaimLock, ClaimStart, ReadForUpdate,
     handleReleaseLockOnImport, handleCompleteImport, BeginImport, EndImport,
     ShowImportComplete, Settle
<1>3. RowsJustified'
  BY <1>1, <1>2, ProvisionRows DEF RowsJustified, CauseInv, session
<1>4. \A s \in Supervisors : Decided(s)'
  BY <1>1, <1>2 DEF Decided, Mine, CauseInv, session
<1>5. \A q \in Provisioners :
         ppc'[q] \in {"ended", "completing", "reported"} => outcomes'[work'[q]] # {}
  <2>1. \A q \in Provisioners \ {p} : ppc'[q] = ppc[q] /\ work'[q] = work[q]
    BY DEF Provision, ClaimSelect, ClaimLock, ClaimStart, ReadForUpdate,
       handleReleaseLockOnImport, handleCompleteImport, BeginImport, EndImport,
       ShowImportComplete, Settle, PIdle, PGoto, provisioner, TypeOK
  <2>2. \A q \in Provisioners :
           ppc[q] \in {"ended", "completing", "reported"} => outcomes'[work[q]] # {}
    <3>1. \A q \in Provisioners :
             ppc[q] \in {"ended", "completing", "reported"} => work[q] \in Imports
      BY DEF TypeOK
    <3> QED BY <1>1, <3>1 DEF RunsShown, CauseInv, Ran
  <2>3. ppc'[p] \in {"ended", "completing", "reported"} => outcomes'[work'[p]] # {}
    <3>1. CASE ReadForUpdate(p) \/ handleCompleteImport(p) \/ ShowImportComplete(p)
      <4>1. /\ work' = work
            /\ ppc'[p] \in {"ended", "completing", "reported"} =>
                   ppc[p] \in {"ended", "completing", "reported"}
        BY <3>1 DEF ReadForUpdate, handleCompleteImport, ShowImportComplete, PGoto,
           provisioner, TypeOK
      <4> QED BY <2>2, <4>1
    <3>2. ASSUME NEW outcome \in {"ok", "error"}, EndImport(p, outcome)
          PROVE  outcomes'[work'[p]] # {}
      <4>1. work[p] \in Imports /\ work' = work
        BY <3>2 DEF EndImport, TypeOK
      <4>2. outcomes'[work[p]] = outcomes[work[p]] \cup {outcome}
        BY <3>2, <4>1 DEF EndImport, TypeOK
      <4> QED BY <4>1, <4>2
    <3>3. ClaimSelect(p) \/ ClaimLock(p) \/ ClaimStart(p)
              \/ handleReleaseLockOnImport(p) \/ BeginImport(p) \/ Settle(p) =>
            ppc'[p] \notin {"ended", "completing", "reported"}
      BY DEF ClaimSelect, ClaimLock, ClaimStart, handleReleaseLockOnImport,
         BeginImport, Settle, PIdle, PGoto, TypeOK
    <3> QED BY <3>1, <3>2, <3>3 DEF Provision
  <2>4. \A q \in Provisioners \ {p} :
           ppc'[q] \in {"ended", "completing", "reported"} => outcomes'[work'[q]] # {}
    BY <2>1, <2>2
  <2> QED BY <2>3, <2>4
<1>6. \A n \in Installations :
         state'[n] = "import-complete" =>
             \E j \in Imports : SiteOf(j) = n /\ Ran(j)'
  <2>1. CASE ShowImportComplete(p)
    <3>1. work[p] \in Imports /\ Ran(work[p])
      BY <2>1 DEF ShowImportComplete, RunsShown, CauseInv, TypeOK
    <3>2. \A n \in Installations : n # SiteOf(work[p]) => state'[n] = state[n]
      BY <2>1 DEF ShowImportComplete, SetState, TypeOK
    <3> QED BY <1>1, <3>1, <3>2 DEF RunsShown, CauseInv
  <2>2. CASE ~ShowImportComplete(p)
    <3>1. \A n \in Installations :
              state'[n] = "import-complete" => state[n] = "import-complete"
      BY <2>2 DEF Provision, ClaimSelect, ClaimLock, ClaimStart, ReadForUpdate,
         handleReleaseLockOnImport, handleCompleteImport, BeginImport, EndImport,
         Settle, SetState, installation, TypeOK
    <3> QED BY <1>1, <3>1 DEF RunsShown, CauseInv
  <2> QED BY <2>1, <2>2
<1>7. RunsShown'
  BY <1>5, <1>6 DEF RunsShown, Ran
<1> QED BY <1>3, <1>4, <1>7 DEF CauseInv

LEMMA CauseStep ==
  ASSUME TypeOK, CauseInv, [Next]_vars
  PROVE  CauseInv'
<1>1. ASSUME HistoryGrows, UNCHANGED <<imports, session, provisioner>>,
             \A n \in Installations :
                 state'[n] = "import-complete" => state[n] = "import-complete"
      PROVE  CauseInv'
  <2>1. \A i \in Imports : /\ Ran(i) => Ran(i)'
                           /\ SiteRan(i) => SiteRan(i)'
                           /\ Justified(i) \subseteq Justified(i)'
    BY <1>1, CauseKept
  <2>2. RowsJustified'
    BY <1>1, <2>1 DEF RowsJustified, CauseInv, session, provisioner
  <2>3. \A s \in Supervisors : Decided(s)'
    BY <1>1, <2>1 DEF Decided, Mine, CauseInv, session
  <2>4. RunsShown'
    BY <1>1 DEF RunsShown, CauseInv, Ran, provisioner
  <2> QED BY <2>2, <2>3, <2>4 DEF CauseInv
<1>2. ASSUME NEW i \in Imports, CreateImport(i)
      PROVE  CauseInv'
  BY <1>1, <1>2 DEF CreateImport, HistoryGrows, installation, provisioner
<1>3. ASSUME NEW n \in Installations, Reconcile(n) \/ Delete(n)
      PROVE  CauseInv'
  <2>1. \E from \in {"updating", "stable"}, to \in {"stable", "deleted"} :
            SetState(n, from, to)
    BY <1>3 DEF Reconcile, Delete
  <2>2. /\ \A m \in Installations : state[m] = "deleted" => state'[m] = "deleted"
        /\ \A m \in Installations :
             state'[m] = "import-complete" => state[m] = "import-complete"
    BY <2>1 DEF SetState, TypeOK
  <2>3. UNCHANGED <<imports, session, provisioner>>
    BY <1>3 DEF Reconcile, Delete, table
  <2> QED BY <1>1, <2>2, <2>3 DEF HistoryGrows, provisioner
<1>4. CASE UNCHANGED vars
  BY <1>1, <1>4 DEF vars, table, installation, provisioner, HistoryGrows
<1> QED
  BY <1>2, <1>3, <1>4, SuperviseCause, ProvisionCause DEF Next

LEMMA CauseInit == AtRest => CauseInv
<1> SUFFICES ASSUME AtRest
             PROVE  CauseInv
  OBVIOUS
<1>1. RowsJustified
  BY NewJustified DEF AtRest, RowsJustified
<1>2. RunsShown /\ \A s \in Supervisors : Decided(s)
  BY DEF AtRest, RunsShown, Decided
<1> QED BY <1>1, <1>2 DEF CauseInv

\* Whatever calls fail and processes die, however many supervisors and
\* provisioners write whole rows over one another: a failure has a cause, and
\* an import shows as run only after a run on its installation has ended.
THEOREM VerdictsHaveCause == Spec => [](TypeOK /\ CauseInv)
<1>1. Init => CauseInv
  BY CauseInit DEF Init
<1>2. TypeOK /\ CauseInv /\ [Next]_vars => CauseInv'
  BY CauseStep
<1> QED BY <1>1, <1>2, ImportTypeCorrect, PTL DEF Spec

\* An import fails only if a run of it did or its installation is gone.
THEOREM FailureHasCause == Spec => []FailedForCause
<1>1. CauseInv => FailedForCause
  BY DEF CauseInv, RowsJustified, Justified, FailedForCause
<1> QED BY <1>1, VerdictsHaveCause, PTL

\* The customer's installation is the target of one import.  (Where two imports
\* share one, the end of a run of one passes for the other's: ImportShared.)
OwnInstallations == \A i, j \in Imports : SiteOf(i) = SiteOf(j) => i = j

\* An import is complete or succeeded only after a run of it has ended.
THEOREM SuccessMeansRan ==
  ASSUME OwnInstallations
  PROVE  Spec => []SucceededMeansRan
<1>1. CauseInv => SucceededMeansRan
  BY DEF CauseInv, RowsJustified, Justified, SucceededMeansRan, SiteRan,
     OwnInstallations
<1> QED BY <1>1, VerdictsHaveCause, PTL

\* A bundle that is gone was that of an import whose run has ended.
BundlesGone ==
    \A t \in Translations \ bucket :
        \E i \in Imports : TranslationOf[i] = t /\ SiteRan(i)

\* Nothing but the cleanup takes a bundle out of the bucket ...
LEMMA Deletion ==
  ASSUME bucket' # bucket,
         \/ \E s \in Supervisors : Supervise(s) \/ Crash(s)
         \/ \E p \in Provisioners : Provision(p)
         \/ \E n \in Installations : Reconcile(n) \/ Delete(n)
         \/ \E i \in Imports : CreateImport(i)
  PROVE  \E s \in Supervisors : DeleteObject(s)
BY DEF Supervise, GetUnlockedImportPendingWork, WinLock, LoseLock, FetchFails,
   transitionImport, UnlockAPIForInstallation, UpdateInstallation,
   LockAPIForInstallation, SaveCompleteAt, SaveState, UnlockImport, Crash,
   Provision, ClaimSelect, ClaimLock, ClaimStart, ReadForUpdate,
   handleReleaseLockOnImport, handleCompleteImport, BeginImport, EndImport,
   ShowImportComplete, Settle, Reconcile, Delete, CreateImport

\* ... and what it takes is that of an import whose run has ended on its
\* installation.
LEMMA DeletionHasCause ==
  ASSUME TypeOK, CauseInv, NEW t \in bucket \ bucket',
         NEW s \in Supervisors, DeleteObject(s)
  PROVE  \E i \in Imports : TranslationOf[i] = t /\ SiteRan(i)
<1>1. cur[s] \in Imports /\ SiteRan(cur[s])
  BY HandTyped DEF DeleteObject, Holds, Decided, CauseInv
<1>2. t = TranslationOf[cur[s]]
  BY DEF DeleteObject
<1> QED BY <1>1, <1>2

LEMMA BundlesStep ==
  ASSUME TypeOK, CauseInv, BundlesGone, [Next]_vars
  PROVE  BundlesGone'
<1>1. \A i \in Imports : SiteRan(i) => SiteRan(i)'
  <2>1. ASSUME HistoryGrows
        PROVE  \A i \in Imports : SiteRan(i) => SiteRan(i)'
    BY <2>1, CauseKept
  <2>2. CASE UNCHANGED outcomes
    BY <2>2 DEF SiteRan, Ran
  <2> QED
    BY <2>1, <2>2, SuperviseHistory, ProvisionHistory
       DEF Next, CreateImport, Reconcile, Delete, provisioner, vars
<1>2. ASSUME NEW t \in bucket \ bucket'
      PROVE  \E i \in Imports : TranslationOf[i] = t /\ SiteRan(i)
  BY <1>2, Deletion, DeletionHasCause DEF Next, vars
<1>3. ASSUME NEW t \in Translations \ bucket'
      PROVE  \E i \in Imports : TranslationOf[i] = t /\ SiteRan(i)
  BY <1>2, <1>3 DEF BundlesGone
<1> QED BY <1>1, <1>3 DEF BundlesGone

\* The bundle is deleted only after the import that needs it has run.
THEOREM BundleKept ==
  ASSUME OwnInstallations
  PROVE  Spec => []BundleKeptUntilRun
<1>1. Init => BundlesGone
  BY DEF Init, BundlesGone
<1>2. TypeOK /\ CauseInv /\ BundlesGone /\ [Next]_vars => BundlesGone'
  BY BundlesStep
<1>3. BundlesGone => BundleKeptUntilRun
  <2> SUFFICES ASSUME BundlesGone, NEW i \in Imports, TranslationOf[i] \notin bucket
               PROVE  Ran(i)
    BY DEF BundleKeptUntilRun
  <2>1. PICK j \in Imports : TranslationOf[j] = TranslationOf[i] /\ SiteRan(j)
    BY DEF BundlesGone
  <2> QED BY <2>1 DEF SiteRan, OwnInstallations, SiteOf
<1> QED BY <1>1, <1>2, <1>3, VerdictsHaveCause, PTL DEF Spec

--------------------------------------------------------------------------------
(* The lock of an installation's API *)

LEMMA OthersStay ==
  ASSUME TypeOK, NEW s \in Supervisors, Supervise(s) \/ Crash(s)
  PROVE  \A r \in Supervisors \ {s} : pc'[r] = pc[r] /\ cur'[r] = cur[r]
BY DEF Supervise, GetUnlockedImportPendingWork, WinLock, LoseLock, FetchFails,
   transitionImport, InstallationDeleted, transitionImportRequested,
   transitionImportInstallationPreAdjustment, transitionImportInProgress,
   transitionImportComplete, transitionImportInstallationPostAdjustment,
   MoveTo, Stay, Adjust, AfterPatch, UnlockAPIForInstallation,
   UpdateInstallation, LockAPIForInstallation, SaveCompleteAt, DeleteObject,
   SaveState, UnlockImport, Crash, FinishSupervise, Goto, TypeOK

\* Only an API that was locked at first is ever unlocked or locked by the AWAT.
APIInv ==
    /\ \A n \in Installations : apiLocked[n] => APISecurityLock[n]
    /\ \A s \in Supervisors :
         pc[s] \in {"unlockAPI", "lockedPatch", "relockToSave", "relockToUnlock"} =>
             APISecurityLock[Site(s)]
    /\ APIRelocked

\* Steps that touch no API's lock.
LEMMA APIKept ==
  ASSUME TypeOK, APIInv, UNCHANGED apiLocked, NEW s \in Supervisors,
         \A r \in Supervisors \ {s} : pc'[r] = pc[r] /\ cur'[r] = cur[r],
         pc'[s] \in {"unlockAPI", "lockedPatch", "relockToSave", "relockToUnlock"} =>
             APISecurityLock[SiteOf(cur'[s])],
         faults' = 0 => /\ faults = 0
                        /\ pc[s] \in {"lockedPatch", "relockToSave", "relockToUnlock"} =>
                             /\ pc'[s] \in {"relockToSave", "relockToUnlock"}
                             /\ cur'[s] = cur[s]
  PROVE  APIInv'
<1>1. \A n \in Installations : apiLocked'[n] => APISecurityLock[n]
  BY DEF APIInv
<1>2. \A r \in Supervisors :
         pc'[r] \in {"unlockAPI", "lockedPatch", "relockToSave", "relockToUnlock"} =>
             APISecurityLock[SiteOf(cur'[r])]
  BY DEF APIInv, Site
<1>3. ASSUME faults' = 0, NEW n \in Installations, apiLocked'[n] # APISecurityLock[n]
      PROVE  \E r \in Supervisors :
                /\ pc'[r] \in {"lockedPatch", "relockToSave", "relockToUnlock"}
                /\ SiteOf(cur'[r]) = n
  <2>1. PICK r \in Supervisors :
          /\ pc[r] \in {"lockedPatch", "relockToSave", "relockToUnlock"}
          /\ Site(r) = n
    BY <1>3 DEF APIInv, APIRelocked
  <2> QED BY <1>3, <2>1 DEF Site
<1> QED BY <1>1, <1>2, <1>3 DEF APIInv, APIRelocked, Site

LEMMA SuperviseAPI ==
  ASSUME TypeOK, APIInv, NEW s \in Supervisors, Supervise(s) \/ Crash(s)
  PROVE  APIInv'
<1>1. faults \in Nat /\ faults' \in {faults, faults + 1}
  <2>1. Fault \/ NoFault
    BY DEF Supervise, GetUnlockedImportPendingWork, WinLock, LoseLock, FetchFails,
       transitionImport, UnlockAPIForInstallation, UpdateInstallation,
       LockAPIForInstallation, SaveCompleteAt, DeleteObject, SaveState,
       UnlockImport, Crash, UpdateFails, NoFault
  <2> QED BY <2>1, ConstantsAssumption DEF Fault, NoFault, TypeOK
<1>2. \A r \in Supervisors \ {s} : pc'[r] = pc[r] /\ cur'[r] = cur[r]
  BY OthersStay
<1>3. CASE UnlockAPIForInstallation(s)
  <2>1. /\ cur[s] \in Imports /\ Site(s) \in Installations /\ cur' = cur
        /\ pc[s] = "unlockAPI"
    BY <1>3, HandTyped DEF UnlockAPIForInstallation, Holds
  <2>2. APISecurityLock[Site(s)]
    BY <2>1 DEF APIInv
  <2>3. CASE SetAPILock(Site(s), FALSE) /\ Goto(s, "lockedPatch") /\ NoFault
    <3>1. /\ apiLocked'[Site(s)] = FALSE /\ pc'[s] = "lockedPatch"
          /\ faults' = faults
          /\ \A n \in Installations \ {Site(s)} : apiLocked'[n] = apiLocked[n]
      BY <2>1, <2>3 DEF SetAPILock, Goto, NoFault, TypeOK
    <3>2. ASSUME faults' = 0, NEW n \in Installations,
                 apiLocked'[n] # APISecurityLock[n]
          PROVE  \E r \in Supervisors :
                    /\ pc'[r] \in {"lockedPatch", "relockToSave", "relockToUnlock"}
                    /\ SiteOf(cur'[r]) = n
      <4>1. CASE n = Site(s)
        BY <2>1, <3>1, <4>1 DEF Site
      <4>2. CASE n # Site(s)
        <5>1. PICK r \in Supervisors :
                /\ pc[r] \in {"lockedPatch", "relockToSave", "relockToUnlock"}
                /\ Site(r) = n
          BY <3>1, <3>2, <4>2 DEF APIInv, APIRelocked
        <5> QED BY <1>2, <2>1, <4>2, <5>1 DEF Site
      <4> QED BY <4>1, <4>2
    <3>3. \A n \in Installations : apiLocked'[n] => APISecurityLock[n]
      BY <2>2, <3>1 DEF APIInv
    <3>4. \A r \in Supervisors :
            pc'[r] \in {"unlockAPI", "lockedPatch", "relockToSave", "relockToUnlock"} =>
                APISecurityLock[SiteOf(cur'[r])]
      BY <1>2, <2>1, <2>2, <3>1 DEF APIInv, Site
    <3> QED BY <3>2, <3>3, <3>4 DEF APIInv, APIRelocked, Site
  <2>4. CASE Fault /\ Goto(s, "unlock")
             /\ (SetAPILock(Site(s), FALSE) \/ UNCHANGED apiLocked)
    <3>1. /\ faults' # 0 /\ pc'[s] = "unlock"
          /\ \A n \in Installations : apiLocked'[n] => apiLocked[n]
      BY <1>1, <2>1, <2>4 DEF SetAPILock, Goto, Fault, TypeOK
    <3> QED BY <1>2, <2>1, <3>1 DEF APIInv, APIRelocked, Site
  <2> QED BY <1>3, <2>3, <2>4 DEF UnlockAPIForInstallation
<1>4. CASE LockAPIForInstallation(s)
  <2>1. /\ cur[s] \in Imports /\ Site(s) \in Installations /\ cur' = cur
        /\ pc[s] \in {"relockToSave", "relockToUnlock"}
        /\ pc'[s] \in {"save", "unlock"}
    BY <1>4, HandTyped DEF LockAPIForInstallation, Holds, Goto, TypeOK
  <2>2. APISecurityLock[Site(s)]
    BY <2>1 DEF APIInv
  <2>3. \/ /\ apiLocked'[Site(s)] = TRUE /\ faults' = faults
           /\ \A n \in Installations \ {Site(s)} : apiLocked'[n] = apiLocked[n]
        \/ apiLocked' = apiLocked /\ faults' # 0
    BY <1>1, <1>4, <2>1 DEF LockAPIForInstallation, SetAPILock, Fault, NoFault, TypeOK
  <2>4. \A n \in Installations : apiLocked'[n] => APISecurityLock[n]
    BY <2>2, <2>3 DEF APIInv
  <2>5. \A r \in Supervisors :
          pc'[r] \in {"unlockAPI", "lockedPatch", "relockToSave", "relockToUnlock"} =>
              APISecurityLock[SiteOf(cur'[r])]
    BY <1>2, <2>1 DEF APIInv, Site
  <2>6. ASSUME faults' = 0, NEW n \in Installations,
               apiLocked'[n] # APISecurityLock[n]
        PROVE  \E r \in Supervisors :
                  /\ pc'[r] \in {"lockedPatch", "relockToSave", "relockToUnlock"}
                  /\ SiteOf(cur'[r]) = n
    <3>1. n # Site(s) /\ apiLocked[n] # APISecurityLock[n] /\ faults = 0
      BY <2>2, <2>3, <2>6, ConstantsAssumption
    <3>2. PICK r \in Supervisors :
            /\ pc[r] \in {"lockedPatch", "relockToSave", "relockToUnlock"}
            /\ Site(r) = n
      BY <3>1 DEF APIInv, APIRelocked
    <3> QED BY <1>2, <3>1, <3>2 DEF Site
  <2> QED BY <2>4, <2>5, <2>6 DEF APIInv, APIRelocked, Site
<1>5. CASE transitionImport(s)
  <2>1. /\ pc[s] = "locked" /\ UNCHANGED <<apiLocked, cur, faults>>
        /\ cur[s] \in Imports
    BY <1>5, HandTyped DEF transitionImport, installation, Holds
  <2>2. /\ pc'[s] \in {"save", "unlock", "unlockAPI", "patch", "saveComplete"}
        /\ pc'[s] = "unlockAPI" => apiLocked[Site(s)]
    BY <1>5 DEF transitionImport, InstallationDeleted, transitionImportRequested,
       transitionImportInstallationPreAdjustment, transitionImportInProgress,
       transitionImportComplete, transitionImportInstallationPostAdjustment,
       MoveTo, Stay, Adjust, Goto, TypeOK
  <2>3. pc'[s] = "unlockAPI" => APISecurityLock[Site(s)]
    BY <2>1, <2>2 DEF APIInv, Site
  <2> QED BY <1>2, <2>1, <2>2, <2>3, APIKept DEF Site
<1>6. CASE UpdateInstallation(s)
  <2>1. /\ UNCHANGED <<apiLocked, cur>> /\ pc[s] \in {"patch", "lockedPatch"}
        /\ IF pc[s] = "patch" THEN pc'[s] \in {"save", "unlock"}
           ELSE pc'[s] \in {"relockToSave", "relockToUnlock"}
    BY <1>6 DEF UpdateInstallation, AfterPatch, Goto, TypeOK
  <2>2. pc[s] = "lockedPatch" => APISecurityLock[SiteOf(cur[s])]
    BY DEF APIInv, Site
  <2> QED BY <1>1, <1>2, <2>1, <2>2, APIKept
<1>7. CASE Crash(s)
  <2>1. UNCHANGED apiLocked /\ pc'[s] = "idle" /\ faults' # 0
    BY <1>1, <1>7 DEF Crash, FinishSupervise, Goto, Fault, installation, TypeOK
  <2> QED BY <1>2, <2>1, APIKept
<1>8. CASE GetUnlockedImportPendingWork(s) \/ WinLock(s) \/ LoseLock(s)
           \/ FetchFails(s) \/ SaveCompleteAt(s) \/ DeleteObject(s)
           \/ SaveState(s) \/ UnlockImport(s)
  <2>1. /\ UNCHANGED apiLocked
        /\ pc[s] \notin {"lockedPatch", "relockToSave", "relockToUnlock"}
        /\ pc'[s] \in {"idle", "batch", "locked", "deleteBundle", "save", "unlock"}
    BY <1>8 DEF GetUnlockedImportPendingWork, WinLock, LoseLock, FetchFails,
       SaveCompleteAt, DeleteObject, SaveState, UnlockImport, FinishSupervise,
       MoveTo, Stay, Goto, installation, TypeOK
  <2> QED BY <1>1, <1>2, <2>1, APIKept
<1> QED BY <1>3, <1>4, <1>5, <1>6, <1>7, <1>8 DEF Supervise

LEMMA APIStep ==
  ASSUME TypeOK, APIInv, [Next]_vars
  PROVE  APIInv'
<1>1. ASSUME UNCHANGED <<pc, cur, apiLocked>>, faults' = 0 => faults = 0
      PROVE  APIInv'
  BY <1>1 DEF APIInv, APIRelocked, Site
<1>2. ASSUME NEW p \in Provisioners, Provision(p)
      PROVE  APIInv'
  <2>1. faults \in Nat /\ faults' \in {faults, faults + 1}
    <3>1. Fault \/ NoFault
      BY <1>2 DEF Provision, ClaimSelect, ClaimLock, ClaimStart, ReadForUpdate,
         handleReleaseLockOnImport, handleCompleteImport, BeginImport, EndImport,
         ShowImportComplete, Settle, UpdateFails, NoFault
    <3> QED BY <3>1, ConstantsAssumption DEF Fault, NoFault, TypeOK
  <2>2. UNCHANGED <<pc, cur, apiLocked>>
    BY <1>2 DEF Provision, ClaimSelect, ClaimLock, ClaimStart, ReadForUpdate,
       handleReleaseLockOnImport, handleCompleteImport, BeginImport, EndImport,
       ShowImportComplete, Settle, session, installation
  <2> QED BY <1>1, <2>1, <2>2
<1>3. ASSUME \/ \E i \in Imports : CreateImport(i)
             \/ \E n \in Installations : Reconcile(n) \/ Delete(n)
             \/ UNCHANGED vars
      PROVE  APIInv'
  BY <1>1, <1>3 DEF CreateImport, Reconcile, Delete, vars, session, installation
<1> QED BY <1>2, <1>3, SuperviseAPI DEF Next

LEMMA APIInit == AtRest => APIInv
BY DEF AtRest, APIInv, APIRelocked

\* However many supervisors share an installation: while no call has failed and
\* no process has died, the API of a locked installation is unlocked only
\* between a supervisor's unlock and its deferred relock.
THEOREM APIIsRelocked == Spec => []APIRelocked
<1>1. Init => TypeOK /\ APIInv
  BY RestTyped, APIInit DEF Init
<1>2. TypeOK /\ APIInv /\ [Next]_vars => (TypeOK /\ APIInv)'
  BY TypeStep, APIStep
<1>3. APIInv => APIRelocked
  BY DEF APIInv
<1> QED BY <1>1, <1>2, <1>3, PTL DEF Spec

--------------------------------------------------------------------------------
(* The lease of the Import table *)

\* The name under which a supervisor works is that in the row, and in its copy.
LockIsOwn ==
    \A s \in Supervisors :
        Holds(s) => /\ imports[cur[s]].LockedBy = s
                    /\ Mine(s).LockedBy = s

holders == [i \in Imports |-> Holders(i)]

lost == {i \in Imports : ~(imports[i].LockedBy = Nobody) /\ Holders(i) = {}}

\* A step that moves nobody into or out of a lock and no lock in the table.
LeaseUntouched ==
    /\ \A r \in Supervisors : /\ Holds(r)' <=> Holds(r)
                              /\ Holds(r) => cur'[r] = cur[r]
    /\ \A i \in Imports : imports'[i].LockedBy = imports[i].LockedBy

LEMMA LeaseStutters ==
  ASSUME LeaseUntouched
  PROVE  UNCHANGED Lease!vars
<1>1. \A i \in Imports : Holders(i)' = Holders(i)
  BY DEF Holders, LeaseUntouched
<1> QED BY <1>1 DEF Lease!vars, LeaseUntouched

LEMMA HoldersOwn ==
  ASSUME TypeOK, LockIsOwn, NEW i \in Imports
  PROVE  /\ imports[i].LockedBy = Nobody => Holders(i) = {}
         /\ \A s \in Supervisors :
               s \in Holders(i) => Holders(i) = {s} /\ imports[i].LockedBy = s
BY ConstantsAssumption DEF LockIsOwn, Holders

\* Only s moves, from no lock to that of i or back to none.
LEMMA HoldersMove ==
  ASSUME NEW s \in Supervisors, NEW i \in Imports,
         \A r \in Supervisors \ {s} : pc'[r] = pc[r] /\ cur'[r] = cur[r]
  PROVE  Holders(i)' = (Holders(i) \ {s})
                       \cup (IF Holds(s)' /\ cur'[s] = i THEN {s} ELSE {})
BY DEF Holders, Holds

\* What each part of do() and supervise() does to the locks.
LeaseMoves(s) ==
    \/ /\ LeaseUntouched
       /\ Holds(s) => Mine(s)'.LockedBy = s
    \/ /\ ~Holds(s) /\ Holds(s)'
       /\ cur'[s] \in Imports /\ imports[cur'[s]].LockedBy = Nobody
       /\ imports'[cur'[s]].LockedBy = s /\ Mine(s)'.LockedBy = s
       /\ \A i \in Imports : i # cur'[s] => imports'[i] = imports[i]
    \/ /\ Holds(s) /\ ~Holds(s)'
       /\ imports'[cur[s]].LockedBy \in {s, Nobody}
       /\ \A i \in Imports : i # cur[s] => imports'[i] = imports[i]
    \/ /\ ~Holds(s) /\ ~Holds(s)'
       /\ \E i \in Imports :
            /\ imports[i].LockedBy = Nobody /\ imports'[i].LockedBy = s
            /\ \A j \in Imports \ {i} : imports'[j] = imports[j]

\* An update under the lock that leaves it alone.
LEMMA HoldingMoves ==
  ASSUME TypeOK, LockIsOwn, NEW s \in Supervisors, Holds(s), Holds(s)', cur' = cur,
         \A r \in Supervisors \ {s} : pc'[r] = pc[r],
         UpdateImport(cur[s], Mine(s)) \/ UNCHANGED imports,
         Mine(s)'.LockedBy = Mine(s).LockedBy
  PROVE  LeaseMoves(s)
<1>1. cur[s] \in Imports /\ imports[cur[s]].LockedBy = s /\ Mine(s).LockedBy = s
  BY HandTyped DEF LockIsOwn
<1>2. \A i \in Imports : imports'[i].LockedBy = imports[i].LockedBy
  BY <1>1 DEF UpdateImport, TypeOK
<1>3. LeaseUntouched
  BY <1>2 DEF LeaseUntouched, Holds
<1> QED BY <1>1, <1>3 DEF LeaseMoves

\* No statement of supervise() changes the owner in its copy.
LEMMA CopyKeepsOwner ==
  ASSUME TypeOK, NEW s \in Supervisors, Holds(s), cur' = cur, NEW new,
         \/ copy' = copy
         \/ copy' = [copy EXCEPT ![s][cur[s]].State = new]
         \/ copy' = [copy EXCEPT ![s][cur[s]].CompleteAt = TRUE]
  PROVE  Mine(s)'.LockedBy = Mine(s).LockedBy
<1>1. cur[s] \in Imports /\ Mine(s) \in Row
  BY HandTyped
<1>2. CASE copy' = copy
  BY <1>2
<1>3. CASE copy' = [copy EXCEPT ![s][cur[s]].State = new]
  <2>1. copy'[s][cur[s]] = [Mine(s) EXCEPT !.State = new]
    BY <1>1, <1>3 DEF TypeOK
  <2> QED BY <1>1, <2>1 DEF Row
<1>4. CASE copy' = [copy EXCEPT ![s][cur[s]].CompleteAt = TRUE]
  <2>1. copy'[s][cur[s]] = [Mine(s) EXCEPT !.CompleteAt = TRUE]
    BY <1>1, <1>4 DEF TypeOK
  <2> QED BY <1>1, <2>1 DEF Row
<1> QED BY <1>2, <1>3, <1>4

LEMMA SuperviseLease ==
  ASSUME TypeOK, LockIsOwn, NEW s \in Supervisors, Supervise(s) \/ Crash(s)
  PROVE  LeaseMoves(s)
<1>1. \A r \in Supervisors \ {s} : pc'[r] = pc[r] /\ cur'[r] = cur[r]
  BY OthersStay
<1>2. Holds(s) => /\ cur[s] \in Imports /\ imports[cur[s]].LockedBy = s
                  /\ Mine(s).LockedBy = s
  BY HandTyped DEF LockIsOwn
<1>3. CASE GetUnlockedImportPendingWork(s)
  <2>1. ~Holds(s) /\ ~Holds(s)' /\ UNCHANGED imports
    BY <1>3 DEF GetUnlockedImportPendingWork, Holds, TypeOK
  <2> QED BY <1>1, <2>1 DEF LeaseMoves, LeaseUntouched, Holds
<1>4. CASE WinLock(s)
  <2>1. PICK i \in Imports :
          /\ Lockable(i) /\ imports' = [imports EXCEPT ![i] = LockedRow(imports[i], s)]
          /\ copy' = [copy EXCEPT ![s][i] = LockedRow(@, s)]
          /\ cur' = [cur EXCEPT ![s] = i]
    BY <1>4 DEF WinLock, Oldest, TypeOK
  <2>2. ~Holds(s) /\ Holds(s)' /\ cur'[s] = i
    BY <1>4, <2>1 DEF WinLock, Holds, TypeOK
  <2>3. copy'[s][i] = LockedRow(copy[s][i], s) /\ imports'[i] = LockedRow(imports[i], s)
    BY <2>1 DEF TypeOK
  <2>4. copy'[s][i].LockedBy = s /\ imports'[i].LockedBy = s
    BY <2>3 DEF LockedRow, TypeOK, Row
  <2>5. \A j \in Imports : j # i => imports'[j] = imports[j]
    BY <2>1 DEF TypeOK
  <2> QED BY <2>1, <2>2, <2>4, <2>5 DEF LeaseMoves, Lockable
<1>5. CASE LoseLock(s)
  <2>1. PICK i \in Imports : \/ UNCHANGED imports
                             \/ /\ Lockable(i)
                                /\ UpdateImport(i, LockedRow(imports[i], s))
    BY <1>5 DEF LoseLock, Oldest, UpdateFails, TypeOK
  <2>2. ~Holds(s) /\ ~Holds(s)'
    BY <1>5 DEF LoseLock, FinishSupervise, Holds, TypeOK
  <2>3. CASE UNCHANGED imports
    BY <1>1, <2>2, <2>3 DEF LeaseMoves, LeaseUntouched, Holds
  <2>4. CASE Lockable(i) /\ UpdateImport(i, LockedRow(imports[i], s))
    <3>1. /\ imports[i].LockedBy = Nobody /\ imports'[i].LockedBy = s
          /\ \A j \in Imports \ {i} : imports'[j] = imports[j]
      BY <2>4 DEF Lockable, LockedRow, TypeOK, Row
    <3> QED BY <2>2, <3>1 DEF LeaseMoves
  <2> QED BY <2>1, <2>3, <2>4
<1>6. CASE UnlockImport(s) \/ Crash(s)
  <2>1. ~Holds(s)'
    BY <1>6 DEF UnlockImport, Crash, FinishSupervise, Holds, TypeOK
  <2>2. CASE Holds(s)
    <3>1. /\ imports'[cur[s]].LockedBy \in {s, Nobody}
          /\ \A i \in Imports : i # cur[s] => imports'[i] = imports[i]
      BY <1>2, <1>6, <2>2 DEF UnlockImport, Crash, TypeOK, Row
    <3> QED BY <2>1, <2>2, <3>1 DEF LeaseMoves
  <2>3. CASE ~Holds(s)
    <3>1. UNCHANGED imports
      BY <1>6, <2>3 DEF UnlockImport, Crash, Holds
    <3> QED BY <1>1, <2>1, <2>3, <3>1 DEF LeaseMoves, LeaseUntouched, Holds
  <2> QED BY <2>2, <2>3
<1>7. CASE \/ FetchFails(s) \/ transitionImport(s) \/ UnlockAPIForInstallation(s)
           \/ UpdateInstallation(s) \/ LockAPIForInstallation(s)
           \/ SaveCompleteAt(s) \/ DeleteObject(s) \/ SaveState(s)
  <2>1. Holds(s) /\ Holds(s)' /\ cur' = cur
    <3>1. Holds(s) /\ cur' = cur
      BY <1>7 DEF FetchFails, transitionImport, UnlockAPIForInstallation,
         UpdateInstallation, LockAPIForInstallation, SaveCompleteAt, DeleteObject,
         SaveState, Holds
    <3>2. pc'[s] \notin {"idle", "batch"}
      <4>1. CASE transitionImport(s)
        BY <4>1 DEF transitionImport, InstallationDeleted,
           transitionImportRequested, transitionImportInstallationPreAdjustment,
           transitionImportInProgress, transitionImportComplete,
           transitionImportInstallationPostAdjustment, MoveTo, Stay, Adjust, TypeOK
      <4>2. CASE ~transitionImport(s)
        BY <1>7, <4>2 DEF FetchFails, MoveTo, Stay, AfterPatch, SaveCompleteAt,
           DeleteObject, UnlockAPIForInstallation, UpdateInstallation,
           LockAPIForInstallation, SaveState, TypeOK
      <4> QED BY <4>1, <4>2
    <3> QED BY <3>1, <3>2 DEF Holds
  <2>2. UpdateImport(cur[s], Mine(s)) \/ UNCHANGED imports
    BY <1>7 DEF FetchFails, transitionImport, UnlockAPIForInstallation,
       UpdateInstallation, LockAPIForInstallation, SaveCompleteAt, DeleteObject,
       SaveState, UpdateFails
  <2>3. PICK new : \/ copy' = copy
                   \/ copy' = [copy EXCEPT ![s][cur[s]].State = new]
                   \/ copy' = [copy EXCEPT ![s][cur[s]].CompleteAt = TRUE]
    BY <1>7 DEF FetchFails, transitionImport, InstallationDeleted,
       transitionImportRequested, transitionImportInstallationPreAdjustment,
       transitionImportInProgress, transitionImportComplete,
       transitionImportInstallationPostAdjustment, MoveTo, Stay, Adjust,
       UnlockAPIForInstallation, UpdateInstallation, LockAPIForInstallation,
       SaveCompleteAt, DeleteObject, SaveState
  <2>4. Mine(s)'.LockedBy = Mine(s).LockedBy
    BY <2>1, <2>3, CopyKeepsOwner
  <2> QED BY <1>1, <2>1, <2>2, <2>4, HoldingMoves
<1> QED BY <1>3, <1>4, <1>5, <1>6, <1>7 DEF Supervise

LEMMA LockIsOwnStep ==
  ASSUME TypeOK, LockIsOwn, NEW s \in Supervisors, LeaseMoves(s),
         \A r \in Supervisors \ {s} :
             pc'[r] = pc[r] /\ cur'[r] = cur[r] /\ copy'[r] = copy[r]
  PROVE  LockIsOwn'
<1> SUFFICES ASSUME NEW r \in Supervisors, Holds(r)'
             PROVE  imports'[cur'[r]].LockedBy = r /\ copy'[r][cur'[r]].LockedBy = r
  BY DEF LockIsOwn
<1>1. Holds(r) => cur[r] \in Imports
  BY HandTyped
<1>2. CASE r # s
  <2>1. /\ Holds(r) /\ cur'[r] = cur[r] /\ copy'[r] = copy[r]
        /\ imports[cur[r]].LockedBy = r /\ copy[r][cur[r]].LockedBy = r
    BY <1>2 DEF Holds, LockIsOwn
  <2>2. imports'[cur[r]].LockedBy = r
    BY <1>1, <1>2, <2>1, ConstantsAssumption DEF LeaseMoves, LeaseUntouched, LockIsOwn
  <2> QED BY <2>1, <2>2
<1>3. CASE r = s
  <2>1. CASE LeaseUntouched /\ (Holds(s) => Mine(s)'.LockedBy = s)
    BY <1>1, <1>3, <2>1 DEF LeaseUntouched, LockIsOwn
  <2>2. CASE imports'[cur'[s]].LockedBy = s /\ Mine(s)'.LockedBy = s
    BY <1>3, <2>2
  <2> QED BY <1>3, <2>1, <2>2 DEF LeaseMoves
<1> QED BY <1>2, <1>3

LEMMA LeaseRefines ==
  ASSUME TypeOK, LockIsOwn, NEW s \in Supervisors, LeaseMoves(s),
         \A r \in Supervisors \ {s} : pc'[r] = pc[r] /\ cur'[r] = cur[r]
  PROVE  \/ UNCHANGED Lease!vars
         \/ \E i \in Imports : \/ Lease!Acquire(s, i) \/ Lease!Release(s, i)
                               \/ Lease!Abandon(s, i) \/ Lease!Misgrant(i)
<1>1. \A i \in Imports :
        Holders(i)' = (Holders(i) \ {s})
                      \cup (IF Holds(s)' /\ cur'[s] = i THEN {s} ELSE {})
  BY HoldersMove
<1>2. CASE LeaseUntouched
  BY <1>2, LeaseStutters
<1>3. CASE /\ ~Holds(s) /\ Holds(s)'
           /\ cur'[s] \in Imports /\ imports[cur'[s]].LockedBy = Nobody
           /\ imports'[cur'[s]].LockedBy = s
           /\ \A i \in Imports : i # cur'[s] => imports'[i] = imports[i]
  <2>1. PICK i \in Imports : i = cur'[s]
    BY <1>3
  <2>2. /\ Holders(i) = {} /\ Holders(i)' = {s}
        /\ \A j \in Imports : s \notin Holders(j)
        /\ \A j \in Imports \ {i} : Holders(j)' = Holders(j)
    BY <1>1, <1>3, <2>1, HoldersOwn DEF Holders
  <2>3. holders' = [holders EXCEPT ![i] = {s}]
    BY <2>2 DEF holders
  <2>4. lost' = lost /\ i \notin lost
    BY <1>3, <2>1, <2>2 DEF lost
  <2>5. Lease!Acquire(s, i)
    BY <2>1, <2>2, <2>3, <2>4 DEF Lease!Acquire, holders, lost
  <2> QED BY <2>5
<1>4. CASE /\ Holds(s) /\ ~Holds(s)'
           /\ imports'[cur[s]].LockedBy \in {s, Nobody}
           /\ \A i \in Imports : i # cur[s] => imports'[i] = imports[i]
  <2>1. PICK i \in Imports : i = cur[s]
    BY <1>4, HandTyped
  <2>2. /\ s \in Holders(i) /\ Holders(i) = {s} /\ Holders(i)' = {}
        /\ \A j \in Imports \ {i} : Holders(j)' = Holders(j)
        /\ ~(imports[i].LockedBy = Nobody)
    BY <1>1, <1>4, <2>1, HoldersOwn, ConstantsAssumption DEF Holders
  <2>3. holders' = [holders EXCEPT ![i] = @ \ {s}]
    BY <2>2 DEF holders
  <2>4. CASE imports'[i].LockedBy = Nobody
    <3>1. lost' = lost
      BY <1>4, <2>1, <2>2, <2>4 DEF lost
    <3>2. Lease!Release(s, i)
      BY <2>2, <2>3, <3>1 DEF Lease!Release, holders, lost
    <3> QED BY <3>2
  <2>5. CASE imports'[i].LockedBy = s
    <3>1. lost' = lost \cup {i}
      BY <1>4, <2>1, <2>2, <2>5, ConstantsAssumption DEF lost
    <3>2. Lease!Abandon(s, i)
      BY <2>2, <2>3, <3>1 DEF Lease!Abandon, holders, lost
    <3> QED BY <3>2
  <2> QED BY <1>4, <2>1, <2>4, <2>5
<1>5. CASE /\ ~Holds(s) /\ ~Holds(s)'
           /\ \E i \in Imports :
                /\ imports[i].LockedBy = Nobody /\ imports'[i].LockedBy = s
                /\ \A j \in Imports \ {i} : imports'[j] = imports[j]
  <2>1. PICK i \in Imports :
          /\ imports[i].LockedBy = Nobody /\ imports'[i].LockedBy = s
          /\ \A j \in Imports \ {i} : imports'[j] = imports[j]
    BY <1>5
  <2>2. Holders(i) = {} /\ \A j \in Imports : Holders(j)' = Holders(j)
    BY <1>1, <1>5, <2>1, HoldersOwn DEF Holders
  <2>3. holders' = holders
    BY <2>2 DEF holders
  <2>4. lost' = lost \cup {i} /\ i \notin lost
    BY <2>1, <2>2, ConstantsAssumption DEF lost
  <2>5. Lease!Misgrant(i)
    BY <2>2, <2>3, <2>4 DEF Lease!Misgrant, holders, lost
  <2> QED BY <2>5
<1> QED BY <1>2, <1>3, <1>4, <1>5 DEF LeaseMoves

LEMMA CopyStays ==
  ASSUME TypeOK, NEW s \in Supervisors, Supervise(s) \/ Crash(s)
  PROVE  \A r \in Supervisors \ {s} : copy'[r] = copy[r]
<1>1. CASE LoseLock(s) \/ UnlockImport(s) \/ Crash(s)
  <2>1. PICK rest : FinishSupervise(s, rest)
    BY <1>1 DEF LoseLock, UnlockImport, Crash
  <2> QED BY <2>1 DEF FinishSupervise, TypeOK
<1>2. CASE GetUnlockedImportPendingWork(s) \/ WinLock(s)
  BY <1>2 DEF GetUnlockedImportPendingWork, WinLock, TypeOK
<1>3. CASE transitionImport(s)
  BY <1>3 DEF transitionImport, InstallationDeleted, transitionImportRequested,
     transitionImportInstallationPreAdjustment, transitionImportInProgress,
     transitionImportComplete, transitionImportInstallationPostAdjustment,
     MoveTo, Stay, Adjust, TypeOK
<1>4. CASE \/ FetchFails(s) \/ UnlockAPIForInstallation(s) \/ UpdateInstallation(s)
           \/ LockAPIForInstallation(s) \/ SaveCompleteAt(s) \/ DeleteObject(s)
           \/ SaveState(s)
  BY <1>4 DEF FetchFails, UnlockAPIForInstallation, UpdateInstallation,
     LockAPIForInstallation, SaveCompleteAt, DeleteObject, SaveState, MoveTo, Stay,
     TypeOK
<1> QED BY <1>1, <1>2, <1>3, <1>4 DEF Supervise

\* The owner changes only in the row of an import in the list or the hands of
\* the supervisor that writes it.
LEMMA OwnerStays ==
  ASSUME TypeOK, NEW s \in Supervisors, Supervise(s) \/ Crash(s),
         NEW i \in Imports, i \notin batch[s] \cup {cur[s]}
  PROVE  imports'[i].LockedBy = imports[i].LockedBy
<1>1. CASE WinLock(s) \/ LoseLock(s)
  <2>1. PICK j \in batch[s] : \/ UpdateImport(j, LockedRow(imports[j], s))
                              \/ UNCHANGED imports
    BY <1>1 DEF WinLock, LoseLock, UpdateFails, Oldest
  <2> QED BY <2>1 DEF UpdateImport, TypeOK
<1>2. CASE SaveCompleteAt(s) \/ SaveState(s)
  <2>1. UpdateImport(cur[s], Mine(s)) \/ UNCHANGED imports
    BY <1>2 DEF SaveCompleteAt, SaveState, UpdateFails
  <2> QED BY <2>1 DEF UpdateImport, TypeOK
<1>3. CASE UnlockImport(s)
  BY <1>3 DEF UnlockImport, UpdateImport, TypeOK
<1>4. CASE UNCHANGED imports
  BY <1>4
<1> QED
  BY <1>1, <1>2, <1>3, <1>4
     DEF Supervise, Crash, GetUnlockedImportPendingWork, FetchFails,
         transitionImport, UnlockAPIForInstallation, UpdateInstallation,
         LockAPIForInstallation, DeleteObject, table

\* What a handler has read of the owner is what the row still says.
CallsFresh ==
    \A p \in Provisioners :
        ppc[p] \in Calling => pcopy[p].LockedBy = imports[work[p]].LockedBy

\* So a handler writes back the owner that it finds.
LEMMA HandlerLease ==
  ASSUME TypeOK, CallsFresh, NEW p \in Provisioners, Provision(p)
  PROVE  /\ UNCHANGED <<pc, cur, copy>> /\ CallsFresh'
         /\ \A i \in Imports : imports'[i].LockedBy = imports[i].LockedBy
<1> USE DEF Calling
<1>1. /\ UNCHANGED <<pc, cur, copy>>
      /\ \A q \in Provisioners \ {p} :
           ppc'[q] = ppc[q] /\ work'[q] = work[q] /\ pcopy'[q] = pcopy[q]
  BY DEF Provision, ClaimSelect, ClaimLock, ClaimStart, ReadForUpdate,
     handleReleaseLockOnImport, handleCompleteImport, BeginImport, EndImport,
     ShowImportComplete, Settle, PGoto, PIdle, session, provisioner, TypeOK
<1>2. /\ ppc[p] # "idle" => work[p] \in Imports
      /\ \A q \in Provisioners : ppc[q] # "idle" => work[q] \in Imports
      /\ pcopy[p] \in Row
      /\ \A i \in Imports : imports[i] \in Row
  BY DEF TypeOK
<1>3. \A i \in Imports : imports'[i].LockedBy = imports[i].LockedBy
  <2>1. ASSUME NEW row \in Row, ppc[p] # "idle",
               row.LockedBy = imports[work[p]].LockedBy,
               UpdateImport(work[p], row) \/ UNCHANGED imports
        PROVE  \A i \in Imports : imports'[i].LockedBy = imports[i].LockedBy
    BY <1>2, <2>1 DEF UpdateImport, TypeOK
  <2>2. CASE ClaimLock(p)
    <3>1. /\ ClaimedRow(imports[work[p]], p) \in Row
          /\ ClaimedRow(imports[work[p]], p).LockedBy = imports[work[p]].LockedBy
      BY <1>2, <2>2 DEF ClaimLock, ClaimedRow, Row
    <3> QED BY <2>1, <2>2, <3>1 DEF ClaimLock, UpdateFails
  <2>3. CASE ClaimStart(p)
    <3>1. /\ [pcopy[p] EXCEPT !.StartAt = TRUE] \in Row
          /\ [pcopy[p] EXCEPT !.StartAt = TRUE].LockedBy = imports[work[p]].LockedBy
      BY <1>2, <2>3 DEF ClaimStart, CallsFresh, Row
    <3> QED BY <2>1, <2>3, <3>1 DEF ClaimStart, UpdateFails
  <2>4. CASE handleReleaseLockOnImport(p)
    <3>1. /\ ReleasedRow(pcopy[p]) \in Row
          /\ ReleasedRow(pcopy[p]).LockedBy = imports[work[p]].LockedBy
      BY <1>2, <2>4 DEF handleReleaseLockOnImport, ReleasedRow, CallsFresh, Row
    <3> QED BY <2>1, <2>4, <3>1 DEF handleReleaseLockOnImport, UpdateFails
  <2>5. CASE handleCompleteImport(p)
    <3> DEFINE completed(outcome) == [pcopy[p] EXCEPT !.CompleteAt = TRUE,
                                        !.ImportBy = Nobody,
                                        !.Error = (outcome = "error")]
    <3>1. \A outcome \in {"ok", "error"} :
             /\ completed(outcome) \in Row
             /\ completed(outcome).LockedBy = imports[work[p]].LockedBy
      BY <1>2, <2>5 DEF handleCompleteImport, CallsFresh, Row
    <3>2. PICK outcome \in {"ok", "error"} :
             UpdateImport(work[p], completed(outcome)) \/ UNCHANGED imports
      BY <1>2, <2>5 DEF handleCompleteImport, UpdateFails, TypeOK
    <3>3. ppc[p] # "idle"
      BY <2>5 DEF handleCompleteImport
    <3> QED BY <2>1, <3>1, <3>2, <3>3
  <2>6. CASE \/ ClaimSelect(p) \/ ReadForUpdate(p) \/ BeginImport(p)
             \/ (\E outcome \in {"ok", "error"} : EndImport(p, outcome))
             \/ ShowImportComplete(p) \/ Settle(p)
    BY <2>6 DEF ClaimSelect, ReadForUpdate, BeginImport, EndImport,
       ShowImportComplete, Settle, table
  <2> QED BY <2>2, <2>3, <2>4, <2>5, <2>6 DEF Provision
<1>4. ppc'[p] \in Calling => pcopy'[p].LockedBy = imports'[work'[p]].LockedBy
  <2>1. CASE ClaimSelect(p)
    <3>1. PICK i \in Imports : work'[p] = i /\ pcopy'[p] = imports[i]
      BY <2>1 DEF ClaimSelect, Oldest, ReadyImports, TypeOK
    <3> QED BY <1>3, <3>1
  <2>2. CASE ReadForUpdate(p)
    <3>1. work' = work /\ pcopy'[p] = imports[work[p]] /\ work[p] \in Imports
      BY <1>2, <2>2 DEF ReadForUpdate, TypeOK
    <3> QED BY <1>3, <3>1
  <2>3. CASE ClaimLock(p)
    <3>1. ppc'[p] \in Calling =>
             /\ work' = work /\ work[p] \in Imports /\ ppc[p] \in Calling
             /\ pcopy'[p] = ClaimedRow(pcopy[p], p)
      BY <1>2, <2>3 DEF ClaimLock, PIdle, PGoto, TypeOK
    <3>2. ClaimedRow(pcopy[p], p).LockedBy = pcopy[p].LockedBy
      BY <1>2 DEF ClaimedRow, Row
    <3> QED BY <1>3, <3>1, <3>2 DEF CallsFresh
  <2>4. CASE \/ ClaimStart(p) \/ handleReleaseLockOnImport(p)
             \/ handleCompleteImport(p) \/ BeginImport(p)
             \/ (\E outcome \in {"ok", "error"} : EndImport(p, outcome)) \/ Settle(p)
    <3>1. \E label \in {"claimed", "running", "ended", "reported", "idle"} :
             PGoto(p, label)
      BY <2>4 DEF ClaimStart, handleReleaseLockOnImport, handleCompleteImport,
         BeginImport, EndImport, Settle, PIdle
    <3>2. ppc'[p] \in {"claimed", "running", "ended", "reported", "idle"}
      BY <3>1 DEF PGoto, TypeOK
    <3> QED BY <3>2
  <2>5. CASE ShowImportComplete(p)
    BY <1>2, <1>3, <2>5 DEF ShowImportComplete, provisioner, CallsFresh
  <2> QED BY <2>1, <2>2, <2>3, <2>4, <2>5 DEF Provision
<1>5. CallsFresh'
  BY <1>1, <1>2, <1>3, <1>4 DEF CallsFresh
<1> QED BY <1>1, <1>3, <1>5

LEMMA LeaseStep ==
  ASSUME TypeOK, LockIsOwn, CallsFresh, Apart, [Next]_vars
  PROVE  (LockIsOwn /\ CallsFresh)' /\ [Lease!Next]_(Lease!vars)
<1>1. ASSUME UNCHANGED <<pc, cur, copy>>,
             \A i \in Imports : imports'[i].LockedBy = imports[i].LockedBy
      PROVE  LockIsOwn' /\ UNCHANGED Lease!vars
  <2>1. LeaseUntouched
    BY <1>1 DEF LeaseUntouched, Holds
  <2>2. \A s \in Supervisors : Holds(s) => cur[s] \in Imports
    BY HandTyped
  <2> QED BY <1>1, <2>1, <2>2, LeaseStutters DEF LockIsOwn, Holds, Mine
<1>2. ASSUME NEW s \in Supervisors, Supervise(s) \/ Crash(s)
      PROVE  (LockIsOwn /\ CallsFresh)' /\ [Lease!Next]_(Lease!vars)
  <2>1. LeaseMoves(s)
    BY <1>2, SuperviseLease
  <2>2. \A r \in Supervisors \ {s} :
            pc'[r] = pc[r] /\ cur'[r] = cur[r] /\ copy'[r] = copy[r]
    BY <1>2, OthersStay, CopyStays
  <2>3. UNCHANGED <<ppc, work, pcopy>>
    BY <1>2 DEF Supervise, GetUnlockedImportPendingWork, WinLock, LoseLock, FetchFails,
       transitionImport, UnlockAPIForInstallation, UpdateInstallation,
       LockAPIForInstallation, SaveCompleteAt, DeleteObject, SaveState, UnlockImport,
       Crash, provisioner
  <2>4. ASSUME NEW p \in Provisioners, ppc[p] \in Calling
        PROVE  imports'[work[p]].LockedBy = imports[work[p]].LockedBy
    <3>1. work[p] \in Imports
      BY <2>4 DEF TypeOK, Calling
    <3>2. work[p] \notin batch[s] \cup {cur[s]}
      BY <2>4 DEF Apart
    <3> QED BY <1>2, <3>1, <3>2, OwnerStays
  <2>5. CallsFresh'
    BY <2>3, <2>4 DEF CallsFresh
  <2> QED BY <2>1, <2>2, <2>5, LockIsOwnStep, LeaseRefines DEF Lease!Next
<1>3. ASSUME NEW p \in Provisioners, Provision(p)
      PROVE  (LockIsOwn /\ CallsFresh)' /\ UNCHANGED Lease!vars
  BY <1>1, <1>3, HandlerLease
<1>4. ASSUME \/ \E i \in Imports : CreateImport(i)
             \/ \E n \in Installations : Reconcile(n) \/ Delete(n)
             \/ UNCHANGED vars
      PROVE  (LockIsOwn /\ CallsFresh)' /\ UNCHANGED Lease!vars
  <2>1. UNCHANGED <<imports, pc, cur, copy, ppc, work, pcopy>>
    BY <1>4 DEF CreateImport, Reconcile, Delete, vars, session, table, provisioner
  <2> QED BY <1>1, <2>1 DEF CallsFresh
<1> QED BY <1>2, <1>3, <1>4 DEF Next

\* Any number of supervisors and of provisioners, through faults and releases:
\* the LockedBy column of the Import table is a lease, granted only when free,
\* to a supervisor that has no other, and once lost by a fault never granted
\* again, as long as no call of the work API is under way on an import that a
\* supervisor has listed or locked.  (Otherwise its update of the whole row
\* writes an owner back that has come or gone meanwhile.)
THEOREM ImportTableLease == ApartSpec => ImplementsLease
<1>1. Init => TypeOK /\ LockIsOwn /\ CallsFresh /\ Apart /\ Lease!Init
  <2> SUFFICES ASSUME Init
               PROVE  TypeOK /\ LockIsOwn /\ CallsFresh /\ Apart /\ Lease!Init
    OBVIOUS
  <2>1. TypeOK
    BY ConstantsAssumption, RestTyped DEF Init
  <2>2. LockIsOwn /\ CallsFresh /\ Apart /\ Lease!Init
    BY DEF Init, AtRest, LockIsOwn, CallsFresh, Apart, Calling, Lease!Init, Holders,
       Holds, NewImport
  <2> QED BY <2>1, <2>2
<1>2. TypeOK /\ LockIsOwn /\ CallsFresh /\ Apart /\ [Next /\ Apart']_vars =>
        /\ (TypeOK /\ LockIsOwn /\ CallsFresh /\ Apart)'
        /\ [Lease!Next]_(Lease!vars)
  <2> SUFFICES ASSUME TypeOK, LockIsOwn, CallsFresh, Apart, [Next /\ Apart']_vars
               PROVE  /\ (TypeOK /\ LockIsOwn /\ CallsFresh /\ Apart)'
                      /\ [Lease!Next]_(Lease!vars)
    OBVIOUS
  <2>1. Apart'
    BY DEF Apart, vars, session, provisioner
  <2> QED BY <2>1, TypeStep, LeaseStep
<1> QED BY <1>1, <1>2, PTL DEF ApartSpec, ImplementsLease, Lease!Spec
================================================================================
