--------------------------- MODULE ImportSafetyProofs --------------------------
(***************************************************************************)
(* What one import supervisor guarantees although it and the work API save *)
(* whole rows that they have read before.  Preparation is private to it    *)
(* (FreshInv), so that it takes no claim away (ClaimInv), gives no import  *)
(* to a second run (SpentInv) and decides on a reversion from what is so   *)
(* (RevertInv).  With one provisioner the table, the installation and the  *)
(* run of an import go through their phases together (PhaseInv): a run is  *)
(* on only where the installation is fit, and the API shows the lifecycle. *)
(***************************************************************************)
EXTENDS ImportSupervisorProofs

USE ConstantsAssumption
USE DEF table, session, installation, provisioner, Goto, PGoto, Fault, NoFault,
        UpdateImport, SiteOf, Mine, Site

OneSupervisor == \A r, s \in Supervisors : r = s

OneProvisioner == \A p, q \in Provisioners : p = q

--------------------------------------------------------------------------------
(* The steps of a supervisor, by what they do to a row and to its copy *)

SameMarks(a, b) ==
    /\ a.StartAt = b.StartAt /\ a.CompleteAt = b.CompleteAt
    /\ a.ImportBy = b.ImportBy /\ a.Error = b.Error

\* Rows that differ in the owner of the lock at most.
Alike(a, b) == a.State = b.State /\ SameMarks(a, b)

SitesKept == UNCHANGED <<state, config>>

Lists(s) ==
    /\ pc[s] = "idle" /\ pc'[s] = "batch"
    /\ imports' = imports /\ cur' = cur /\ cur[s] = NoImport /\ SitesKept
    /\ \A i \in batch'[s] : /\ i \in created /\ copy'[s][i] = imports[i]
                            /\ imports[i].State \in AllImportStatesPendingWork

Wins(s) ==
    /\ pc[s] = "batch" /\ pc'[s] = "locked" /\ SitesKept
    /\ cur'[s] \in batch[s] /\ batch'[s] \subseteq batch[s] \ {cur'[s]}
    /\ \A i \in Imports : Alike(imports'[i], imports[i]) /\ Alike(copy'[s][i], copy[s][i])

Drops(s) ==
    /\ pc'[s] \in {"idle", "batch"} /\ SitesKept
    /\ cur'[s] = NoImport /\ batch'[s] \subseteq batch[s]
    /\ \A i \in batch'[s] : copy'[s][i] = copy[s][i]
    /\ \A i \in Imports : Alike(imports'[i], imports[i])

\* The next statement is at label; only the import of s has changed, if any.
Moves(s, label) ==
    /\ pc'[s] = label /\ UNCHANGED <<cur, batch>>
    /\ \A j \in Imports \ {cur[s]} : /\ imports'[j] = imports[j]
                                     /\ copy'[s][j] = copy[s][j]

RowStays(s) == imports'[cur[s]] = imports[cur[s]]

RowSaved(s) == imports'[cur[s]] = Mine(s)

HandStays(s) == copy'[s][cur[s]] = Mine(s)

\* The import in the memory of s turns to new.
HandTurns(s, new) ==
    copy'[s][cur[s]].State = new /\ SameMarks(copy'[s][cur[s]], Mine(s))

\* Nothing is saved or decided.
Passes(s) ==
    /\ \/ pc'[s] = "unlock"
       \/ pc[s] = "unlockAPI" /\ pc'[s] = "lockedPatch"
       \/ pc[s] = "relockToSave" /\ pc'[s] = "save"
    /\ Moves(s, pc'[s]) /\ RowStays(s) /\ HandStays(s) /\ SitesKept /\ patch' = patch

GivesUp(s) ==
    /\ pc[s] = "locked" /\ state[Site(s)] = "deleted" /\ SitesKept
    /\ Moves(s, "save") /\ RowStays(s) /\ HandTurns(s, Failed)

\* The patch that an adjustment sends.
PatchFor(s) ==
    IF Mine(s).State = Requested THEN getPreImportPatch(config[Site(s)])
    ELSE getPostImportPatch(config[Site(s)])

Asks(s) ==
    /\ pc[s] = "locked" /\ state[Site(s)] = "stable" /\ SitesKept
    /\ Mine(s).State \in {Requested, Complete}
    /\ pc'[s] \in {"unlockAPI", "patch"} /\ Moves(s, pc'[s])
    /\ RowStays(s) /\ HandStays(s) /\ patch'[s] = PatchFor(s)

\* The states that an import may turn to on a stable installation.
Turns(s, new) ==
    \/ /\ Mine(s).State = Requested /\ new = InProgress
       /\ getPreImportPatch(config[Site(s)]) = NilPatch
    \/ /\ Mine(s).State = PreAdjustment
       /\ \/ new = InProgress /\ AdjustedForImport(config[Site(s)])
          \/ new = Requested
    \/ /\ Mine(s).State = Complete /\ new = Verdict(Mine(s))
       /\ getPostImportPatch(config[Site(s)]) = NilPatch
    \/ /\ Mine(s).State = PostAdjustment
       /\ \/ new = Verdict(Mine(s)) /\ RevertedAfterImport(config[Site(s)])
          \/ new = Complete

TurnsTo(s, new) ==
    /\ pc[s] = "locked" /\ state[Site(s)] = "stable" /\ SitesKept /\ Turns(s, new)
    /\ Moves(s, "save") /\ RowStays(s) /\ HandTurns(s, new)

Notices(s) ==
    /\ pc[s] = "locked" /\ state[Site(s)] = "import-complete" /\ SitesKept
    /\ Mine(s).State = InProgress
    /\ Moves(s, "saveComplete") /\ RowStays(s)
    /\ copy'[s][cur[s]].State = InProgress /\ copy'[s][cur[s]].CompleteAt

Adjusts(s) ==
    /\ pc[s] \in {"patch", "lockedPatch"} /\ state[Site(s)] = "stable"
    /\ Patched(s)
    /\ pc'[s] \in {"save", "relockToSave"} /\ Moves(s, pc'[s])
    /\ RowStays(s) /\ HandTurns(s, AfterAdjustment(Mine(s).State))

FailsToAdjust(s) ==
    /\ pc[s] \in {"patch", "lockedPatch"}
    /\ SitesKept \/ (state[Site(s)] = "stable" /\ Patched(s))
    /\ pc'[s] \in {"unlock", "relockToUnlock"} /\ Moves(s, pc'[s])
    /\ RowStays(s) /\ HandStays(s)

Saves(s) ==
    /\ pc[s] \in {"save", "saveComplete"} /\ SitesKept
    /\ Moves(s, "unlock") /\ (RowSaved(s) \/ RowStays(s))
    /\ HandStays(s)

SavesCompleteAt(s) ==
    /\ pc[s] = "saveComplete" /\ SitesKept
    /\ Moves(s, "deleteBundle") /\ RowSaved(s) /\ HandStays(s)

Completes(s) ==
    /\ pc[s] \in {"saveComplete", "deleteBundle"} /\ SitesKept
    /\ Moves(s, "save") /\ (RowSaved(s) \/ (pc[s] = "deleteBundle" /\ RowStays(s)))
    /\ HandTurns(s, Complete)

WithImport(s) ==
    \/ Passes(s) \/ GivesUp(s) \/ Asks(s) \/ (\E new \in ImportStates : TurnsTo(s, new))
    \/ Notices(s) \/ Adjusts(s) \/ FailsToAdjust(s) \/ Saves(s)
    \/ SavesCompleteAt(s) \/ Completes(s)

LEMMA OwnerAlike ==
  ASSUME NEW row \in Row, NEW owner
  PROVE  Alike([row EXCEPT !.LockedBy = owner], row)
BY DEF Alike, SameMarks, Row

\* One import of s changes in its memory.
LEMMA HandEdited ==
  ASSUME TypeOK, NEW s \in Supervisors, cur[s] \in Imports, NEW new
  PROVE  /\ copy' = copy =>
              HandStays(s) /\ \A i \in Imports : copy'[s][i] = copy[s][i]
         /\ copy' = [copy EXCEPT ![s][cur[s]].State = new] =>
              /\ HandTurns(s, new)
              /\ \A i \in Imports \ {cur[s]} : copy'[s][i] = copy[s][i]
         /\ copy' = [copy EXCEPT ![s][cur[s]].CompleteAt = TRUE] =>
              /\ copy'[s][cur[s]].State = Mine(s).State
              /\ copy'[s][cur[s]].CompleteAt
              /\ \A i \in Imports \ {cur[s]} : copy'[s][i] = copy[s][i]
<1>1. Mine(s) \in Row
  BY DEF TypeOK
<1>2. ASSUME copy' = copy
      PROVE  HandStays(s) /\ \A i \in Imports : copy'[s][i] = copy[s][i]
  BY <1>2 DEF HandStays
<1>3. ASSUME copy' = [copy EXCEPT ![s][cur[s]].State = new]
      PROVE  /\ HandTurns(s, new)
             /\ \A i \in Imports \ {cur[s]} : copy'[s][i] = copy[s][i]
  <2>1. copy'[s][cur[s]] = [Mine(s) EXCEPT !.State = new]
    BY <1>1, <1>3 DEF TypeOK
  <2>2. HandTurns(s, new)
    BY <1>1, <2>1 DEF HandTurns, SameMarks, Row
  <2>3. \A i \in Imports \ {cur[s]} : copy'[s][i] = copy[s][i]
    BY <1>3 DEF TypeOK
  <2> QED BY <2>2, <2>3
<1>4. ASSUME copy' = [copy EXCEPT ![s][cur[s]].CompleteAt = TRUE]
      PROVE  /\ copy'[s][cur[s]].State = Mine(s).State
             /\ copy'[s][cur[s]].CompleteAt
             /\ \A i \in Imports \ {cur[s]} : copy'[s][i] = copy[s][i]
  <2>1. copy'[s][cur[s]] = [Mine(s) EXCEPT !.CompleteAt = TRUE]
    BY <1>1, <1>4 DEF TypeOK
  <2>2. copy'[s][cur[s]].State = Mine(s).State /\ copy'[s][cur[s]].CompleteAt
    BY <1>1, <2>1 DEF Row
  <2>3. \A i \in Imports \ {cur[s]} : copy'[s][i] = copy[s][i]
    BY <1>4 DEF TypeOK
  <2> QED BY <2>2, <2>3
<1> QED BY <1>2, <1>3, <1>4

LEMMA TransitionMoves ==
  ASSUME TypeOK, NEW s \in Supervisors, transitionImport(s)
  PROVE  WithImport(s)
<1>1. /\ pc[s] = "locked" /\ cur[s] \in Imports /\ Site(s) \in Installations
      /\ UNCHANGED <<imports, batch, cur>> /\ SitesKept /\ RowStays(s)
  BY HandTyped DEF transitionImport, Holds, SitesKept, RowStays
<1>2. ASSUME NEW new \in ImportStates, MoveTo(s, new)
      PROVE  Moves(s, "save") /\ HandTurns(s, new)
  <2>1. pc'[s] = "save" /\ copy' = [copy EXCEPT ![s][cur[s]].State = new]
    BY <1>2 DEF MoveTo, TypeOK
  <2>2. HandTurns(s, new) /\ \A i \in Imports \ {cur[s]} : copy'[s][i] = copy[s][i]
    BY <1>1, <2>1, HandEdited
  <2> QED BY <1>1, <2>1, <2>2 DEF Moves
<1>3. ASSUME Stay(s)
      PROVE  WithImport(s)
  <2>1. pc'[s] = "unlock" /\ copy' = copy /\ patch' = patch
    BY <1>3 DEF Stay, TypeOK
  <2>2. HandStays(s) /\ Moves(s, "unlock")
    BY <1>1, <2>1 DEF Moves, HandStays
  <2> QED BY <1>1, <2>1, <2>2 DEF Passes, WithImport
<1>4. ASSUME NEW request, Adjust(s, request), state[Site(s)] = "stable",
             Mine(s).State \in {Requested, Complete}, request = PatchFor(s)
      PROVE  WithImport(s)
  <2>1. /\ pc'[s] \in {"unlockAPI", "patch"} /\ copy' = copy
        /\ patch'[s] = request
    BY <1>4 DEF Adjust, TypeOK
  <2>2. HandStays(s) /\ Moves(s, pc'[s])
    BY <1>1, <2>1 DEF Moves, HandStays
  <2> QED BY <1>1, <1>4, <2>1, <2>2 DEF Asks, WithImport
<1>5. ASSUME NEW new \in ImportStates, MoveTo(s, new), state[Site(s)] = "stable",
             Turns(s, new)
      PROVE  WithImport(s)
  BY <1>1, <1>2, <1>5 DEF TurnsTo, WithImport
<1>6. CASE InstallationDeleted(s)
  BY <1>1, <1>2, <1>6 DEF InstallationDeleted, GivesUp, WithImport, ImportStates
<1>7. CASE transitionImportRequested(s)
  BY <1>3, <1>4, <1>5, <1>7 DEF transitionImportRequested, Turns, PatchFor,
     ImportStates, AllImportStatesPendingWork
<1>8. CASE transitionImportInstallationPreAdjustment(s)
  <2>1. ASSUME NEW new \in {InProgress, Requested}, MoveTo(s, new),
               Mine(s).State = PreAdjustment, state[Site(s)] = "stable",
               new = InProgress => AdjustedForImport(config[Site(s)])
        PROVE  WithImport(s)
    BY <1>5, <2>1 DEF Turns, ImportStates, AllImportStatesPendingWork
  <2>2. CASE state[Site(s)] = "stable" /\ AdjustedForImport(config[Site(s)])
    BY <1>8, <2>1, <2>2 DEF transitionImportInstallationPreAdjustment, Stay
  <2>3. CASE state[Site(s)] = "stable" /\ ~AdjustedForImport(config[Site(s)])
    <3>1. MoveTo(s, Requested) /\ Mine(s).State = PreAdjustment
      BY <1>8, <2>3 DEF transitionImportInstallationPreAdjustment, Stay
    <3> QED BY <2>1, <2>3, <3>1 DEF Requested, InProgress
  <2>4. CASE state[Site(s)] # "stable"
    BY <1>3, <1>8, <2>4 DEF transitionImportInstallationPreAdjustment
  <2> QED BY <2>2, <2>3, <2>4
<1>9. CASE transitionImportInProgress(s)
  <2>1. CASE startedImportIsComplete(Site(s))
    <3>1. /\ copy' = [copy EXCEPT ![s][cur[s]].CompleteAt = TRUE]
          /\ pc'[s] = "saveComplete" /\ Mine(s).State = InProgress
      BY <1>9, <2>1 DEF transitionImportInProgress, TypeOK
    <3>2. /\ copy'[s][cur[s]].State = Mine(s).State /\ copy'[s][cur[s]].CompleteAt
          /\ \A i \in Imports \ {cur[s]} : copy'[s][i] = copy[s][i]
      BY <1>1, <3>1, HandEdited
    <3>3. Moves(s, "saveComplete")
      BY <1>1, <3>1, <3>2 DEF Moves
    <3> QED BY <1>1, <2>1, <3>1, <3>2, <3>3 DEF Notices, WithImport,
               startedImportIsComplete
  <2>2. CASE ~startedImportIsComplete(Site(s))
    BY <1>3, <1>9, <2>2 DEF transitionImportInProgress
  <2> QED BY <2>1, <2>2
<1>10. CASE transitionImportComplete(s)
  <2>1. Verdict(Mine(s)) \in ImportStates
    BY Verdicts
  <2>2. Complete # Requested
    BY DEF Complete, Requested
  <2> QED BY <1>3, <1>4, <1>5, <1>10, <2>1, <2>2 DEF transitionImportComplete, Turns,
             PatchFor
<1>11. CASE transitionImportInstallationPostAdjustment(s)
  <2>1. Verdict(Mine(s)) \in ImportStates /\ Complete \in ImportStates
    BY Verdicts DEF ImportStates, AllImportStatesPendingWork
  <2>2. ASSUME NEW new \in ImportStates, MoveTo(s, new),
               Mine(s).State = PostAdjustment, state[Site(s)] = "stable",
               \/ new = Verdict(Mine(s)) /\ RevertedAfterImport(config[Site(s)])
               \/ new = Complete
        PROVE  WithImport(s)
    BY <1>5, <2>2 DEF Turns
  <2>3. CASE state[Site(s)] = "stable"
    BY <1>11, <2>1, <2>2, <2>3 DEF transitionImportInstallationPostAdjustment
  <2>4. CASE state[Site(s)] # "stable"
    BY <1>3, <1>11, <2>4 DEF transitionImportInstallationPostAdjustment
  <2> QED BY <2>3, <2>4
<1> QED
  BY <1>6, <1>7, <1>8, <1>9, <1>10, <1>11 DEF transitionImport

LEMMA SuperviseMoves ==
  ASSUME TypeOK, NEW s \in Supervisors, Supervise(s) \/ Crash(s)
  PROVE  Lists(s) \/ Wins(s) \/ Drops(s) \/ (Holds(s) /\ cur[s] \in Imports /\ WithImport(s))
<1>1. ASSUME Holds(s)
      PROVE  cur[s] \in Imports /\ Mine(s) \in Row /\ imports[cur[s]] \in Row
  BY <1>1, HandTyped
<1>2. ASSUME FinishSupervise(s, batch[s]) \/ FinishSupervise(s, {})
             \/ \E i \in Imports : FinishSupervise(s, batch[s] \ {i})
      PROVE  /\ pc'[s] \in {"idle", "batch"} /\ cur'[s] = NoImport
             /\ batch'[s] \subseteq batch[s]
             /\ \A i \in batch'[s] : copy'[s][i] = copy[s][i]
  <2>1. PICK rest \in SUBSET batch[s] : FinishSupervise(s, rest)
    BY <1>2
  <2>2. rest \in SUBSET Imports
    BY <2>1 DEF TypeOK
  <2> QED BY <2>1, <2>2 DEF FinishSupervise, TypeOK
<1>3. \A i \in Imports : Alike(imports[i], imports[i])
  BY DEF Alike, SameMarks
<1>4. ASSUME NEW i \in Imports, NEW owner,
             \/ imports' = imports
             \/ imports' = [imports EXCEPT ![i] = [imports[i] EXCEPT !.LockedBy = owner]]
      PROVE  \A j \in Imports : Alike(imports'[j], imports[j])
  <2>1. Alike([imports[i] EXCEPT !.LockedBy = owner], imports[i])
    BY OwnerAlike DEF TypeOK
  <2>2. CASE imports' = [imports EXCEPT ![i] = [imports[i] EXCEPT !.LockedBy = owner]]
    <3> DEFINE row == [imports[i] EXCEPT !.LockedBy = owner]
    <3>1. imports' = [imports EXCEPT ![i] = row] /\ Alike(row, imports[i])
      BY <2>1, <2>2
    <3> HIDE DEF row
    <3> QED BY <1>3, <3>1 DEF TypeOK
  <2> QED BY <1>3, <1>4, <2>2
<1>5. CASE GetUnlockedImportPendingWork(s)
  <2>1. /\ pc[s] = "idle" /\ pc'[s] = "batch" /\ UNCHANGED <<imports, cur, state, config>>
        /\ batch'[s] = PendingWork
        /\ \A i \in PendingWork : copy'[s][i] = imports[i]
    BY <1>5 DEF GetUnlockedImportPendingWork, PendingWork, TypeOK
  <2>2. cur[s] = NoImport
    BY <2>1 DEF TypeOK, Holds
  <2> QED BY <2>1, <2>2 DEF Lists, SitesKept, PendingWork
<1>6. CASE WinLock(s)
  <2>1. PICK i \in Oldest(batch[s]) :
          /\ UpdateImport(i, LockedRow(imports[i], s))
          /\ copy' = [copy EXCEPT ![s][i] = LockedRow(@, s)]
          /\ cur' = [cur EXCEPT ![s] = i]
          /\ batch' = [batch EXCEPT ![s] = @ \ {i}]
    BY <1>6 DEF WinLock
  <2>2. i \in batch[s] /\ i \in Imports
    BY DEF Oldest, TypeOK
  <2>3. \A j \in Imports : Alike(imports'[j], imports[j])
    BY <1>4, <2>1, <2>2 DEF LockedRow
  <2>4. \A j \in Imports : Alike(copy'[s][j], copy[s][j])
    <3>1. Alike(LockedRow(copy[s][i], s), copy[s][i])
      <4>1. copy[s][i] \in Row
        BY <2>2 DEF TypeOK
      <4> QED BY <4>1, OwnerAlike DEF LockedRow
    <3>2. copy'[s][i] = LockedRow(copy[s][i], s)
          /\ \A j \in Imports \ {i} : copy'[s][j] = copy[s][j]
      BY <2>1, <2>2 DEF TypeOK
    <3> QED BY <3>1, <3>2 DEF Alike, SameMarks
  <2>5. /\ cur'[s] = i /\ batch'[s] \subseteq batch[s] \ {i}
        /\ pc[s] = "batch" /\ pc'[s] = "locked" /\ SitesKept
    BY <1>6, <2>1 DEF WinLock, TypeOK, SitesKept
  <2> QED BY <2>2, <2>3, <2>4, <2>5 DEF Wins
<1>7. CASE LoseLock(s)
  <2>1. PICK i \in Oldest(batch[s]) :
          /\ imports' = imports \/ UpdateImport(i, LockedRow(imports[i], s))
          /\ FinishSupervise(s, batch[s] \ {i})
    BY <1>7 DEF LoseLock, UpdateFails
  <2>2. i \in Imports
    BY DEF Oldest, TypeOK
  <2>3. \A j \in Imports : Alike(imports'[j], imports[j])
    BY <1>4, <2>1, <2>2 DEF LockedRow
  <2> QED BY <1>2, <1>7, <2>1, <2>2, <2>3 DEF Drops, LoseLock, SitesKept
<1>8. CASE UnlockImport(s)
  <2>1. /\ Holds(s) /\ FinishSupervise(s, batch[s]) /\ SitesKept
        /\ \/ imports' = imports
           \/ imports' = [imports EXCEPT ![cur[s]] =
                              [imports[cur[s]] EXCEPT !.LockedBy = Nobody]]
    BY <1>8 DEF UnlockImport, Holds, SitesKept
  <2>2. \A j \in Imports : Alike(imports'[j], imports[j])
    BY <1>1, <1>4, <2>1
  <2> QED BY <1>2, <2>1, <2>2 DEF Drops
<1>9. CASE Crash(s)
  <2>1. FinishSupervise(s, {}) /\ SitesKept /\ imports' = imports
    BY <1>9 DEF Crash, SitesKept
  <2> QED BY <1>2, <1>3, <2>1 DEF Drops
<1>10. CASE transitionImport(s)
  <2>1. Holds(s)
    BY <1>10 DEF transitionImport, Holds
  <2> QED BY <1>1, <1>10, <2>1, TransitionMoves
<1>11. CASE FetchFails(s) \/ UnlockAPIForInstallation(s) \/ LockAPIForInstallation(s)
  <2>1. /\ Holds(s) /\ UNCHANGED <<imports, batch, copy, cur, patch, state, config>>
        /\ pc'[s] \in {"unlock", "lockedPatch", "save"}
        /\ pc'[s] = "lockedPatch" => pc[s] = "unlockAPI"
        /\ pc'[s] = "save" => pc[s] = "relockToSave"
    BY <1>11 DEF FetchFails, UnlockAPIForInstallation, LockAPIForInstallation, Holds, TypeOK
  <2>2. Passes(s)
    BY <2>1 DEF Passes, Moves, RowStays, HandStays, SitesKept
  <2> QED BY <1>1, <2>1, <2>2 DEF WithImport
<1>12. CASE UpdateInstallation(s)
  <2>1. /\ Holds(s) /\ UNCHANGED <<imports, batch, cur>> /\ pc[s] \in {"patch", "lockedPatch"}
    BY <1>12 DEF UpdateInstallation, Holds
  <2>2. CASE /\ state[Site(s)] = "stable" /\ Patched(s)
             /\ copy' = [copy EXCEPT ![s][cur[s]].State = AfterAdjustment(@)]
             /\ AfterPatch(s, "save", "relockToSave")
    <3>1. copy' = [copy EXCEPT ![s][cur[s]].State = AfterAdjustment(Mine(s).State)]
      BY <1>1, <2>1, <2>2
    <3>2. /\ HandTurns(s, AfterAdjustment(Mine(s).State))
          /\ \A i \in Imports \ {cur[s]} : copy'[s][i] = copy[s][i]
      BY <1>1, <2>1, <3>1, HandEdited
    <3>3. pc'[s] \in {"save", "relockToSave"}
      BY <2>2 DEF AfterPatch, TypeOK
    <3>4. Adjusts(s)
      BY <2>1, <2>2, <3>2, <3>3 DEF Adjusts, Moves, RowStays
    <3> QED BY <1>1, <2>1, <3>4 DEF WithImport
  <2>3. CASE /\ SitesKept \/ (state[Site(s)] = "stable" /\ Patched(s))
             /\ AfterPatch(s, "unlock", "relockToUnlock") /\ copy' = copy
    <3>1. pc'[s] \in {"unlock", "relockToUnlock"}
      BY <2>3 DEF AfterPatch, TypeOK
    <3>2. FailsToAdjust(s)
      BY <2>1, <2>3, <3>1 DEF FailsToAdjust, Moves, RowStays, HandStays
    <3> QED BY <1>1, <2>1, <3>2 DEF WithImport
  <2> QED BY <1>12, <2>2, <2>3 DEF UpdateInstallation, SitesKept
<1>13. ASSUME Holds(s), UNCHANGED <<batch, cur>>, MoveTo(s, Complete),
              RowSaved(s) \/ RowStays(s),
              \A j \in Imports \ {cur[s]} : imports'[j] = imports[j]
       PROVE  Moves(s, "save") /\ HandTurns(s, Complete)
  <2>1. pc'[s] = "save" /\ copy' = [copy EXCEPT ![s][cur[s]].State = Complete]
    BY <1>13 DEF MoveTo, TypeOK
  <2>2. /\ HandTurns(s, Complete)
        /\ \A i \in Imports \ {cur[s]} : copy'[s][i] = copy[s][i]
    BY <1>1, <1>13, <2>1, HandEdited
  <2> QED BY <1>13, <2>1, <2>2 DEF Moves
<1>14. ASSUME Holds(s)
       PROVE  /\ imports' = imports =>
                   RowStays(s) /\ \A j \in Imports : imports'[j] = imports[j]
              /\ UpdateImport(cur[s], Mine(s)) =>
                   RowSaved(s) /\ \A j \in Imports \ {cur[s]} : imports'[j] = imports[j]
  BY <1>1, <1>14 DEF RowStays, RowSaved, TypeOK
<1>15. CASE SaveCompleteAt(s)
  <2>1. Holds(s) /\ pc[s] = "saveComplete" /\ UNCHANGED <<batch, cur>> /\ SitesKept
    BY <1>15 DEF SaveCompleteAt, Holds, SitesKept
  <2>2. CASE UpdateImport(cur[s], Mine(s)) /\ MoveTo(s, Complete)
    <3>1. Completes(s)
      BY <1>13, <1>14, <2>1, <2>2 DEF Completes
    <3> QED BY <1>1, <2>1, <3>1 DEF WithImport
  <2>3. CASE UpdateImport(cur[s], Mine(s)) /\ Goto(s, "deleteBundle") /\ copy' = copy
    <3>1. pc'[s] = "deleteBundle" /\ HandStays(s)
      BY <2>3 DEF HandStays, TypeOK
    <3>2. SavesCompleteAt(s)
      BY <1>14, <2>1, <2>3, <3>1 DEF SavesCompleteAt, Moves
    <3> QED BY <1>1, <2>1, <3>2 DEF WithImport
  <2>4. CASE (UpdateImport(cur[s], Mine(s)) \/ imports' = imports) /\ Stay(s)
    <3>1. pc'[s] = "unlock" /\ HandStays(s) /\ copy' = copy
      BY <2>4 DEF Stay, HandStays, TypeOK
    <3>2. Saves(s)
      BY <1>14, <2>1, <2>4, <3>1 DEF Saves, Moves
    <3> QED BY <1>1, <2>1, <3>2 DEF WithImport
  <2> QED BY <1>15, <2>2, <2>3, <2>4 DEF SaveCompleteAt, UpdateFails
<1>16. CASE DeleteObject(s)
  <2>1. /\ Holds(s) /\ pc[s] = "deleteBundle" /\ UNCHANGED <<batch, cur, imports>>
        /\ SitesKept /\ MoveTo(s, Complete)
    BY <1>16 DEF DeleteObject, Holds, SitesKept
  <2>2. Completes(s)
    BY <1>13, <1>14, <2>1 DEF Completes
  <2> QED BY <1>1, <2>1, <2>2 DEF WithImport
<1>17. CASE SaveState(s)
  <2>1. /\ Holds(s) /\ pc[s] = "save" /\ UNCHANGED <<batch, cur, copy>> /\ SitesKept
        /\ pc'[s] = "unlock" /\ (UpdateImport(cur[s], Mine(s)) \/ imports' = imports)
    BY <1>17 DEF SaveState, UpdateFails, Holds, SitesKept, TypeOK
  <2>2. Saves(s)
    BY <1>14, <2>1 DEF Saves, Moves, HandStays
  <2> QED BY <1>1, <2>1, <2>2 DEF WithImport
<1> QED
  BY <1>5, <1>6, <1>7, <1>8, <1>9, <1>10, <1>11, <1>12, <1>15, <1>16, <1>17
     DEF Supervise

LEMMA SuperviseKeeps ==
  ASSUME TypeOK, NEW s \in Supervisors, Supervise(s) \/ Crash(s)
  PROVE  UNCHANGED <<created, ppc, work, pcopy, outcomes>>
BY DEF Supervise, GetUnlockedImportPendingWork, WinLock, LoseLock, FetchFails,
   transitionImport, UnlockAPIForInstallation, UpdateInstallation,
   LockAPIForInstallation, SaveCompleteAt, DeleteObject, SaveState, UnlockImport,
   Crash

--------------------------------------------------------------------------------
(* The steps of a provisioner, likewise *)

Quits(p) == ppc'[p] = "idle" /\ work'[p] = NoImport /\ pcopy'[p] = NewImport

\* The next statement is at to; what p works on is the same.
Continues(p, to) == ppc'[p] = to /\ work'[p] = work[p]

TableStays(p) == imports'[work[p]] = imports[work[p]]

SameButOwner(a, b) ==
    a.State = b.State /\ a.StartAt = b.StartAt /\ a.CompleteAt = b.CompleteAt

\* What p saves of the import that it works on.
SavesClaim(p) ==
    /\ SameButOwner(imports'[work[p]], imports[work[p]])
    /\ imports'[work[p]].ImportBy = p

SavesStart(p) ==
    /\ imports'[work[p]].State = pcopy[p].State /\ imports'[work[p]].StartAt
    /\ imports'[work[p]].ImportBy = pcopy[p].ImportBy

SavesRelease(p) ==
    /\ SameButOwner(imports'[work[p]], pcopy[p])
    /\ imports'[work[p]].ImportBy = Nobody

SavesReport(p) ==
    /\ imports'[work[p]].State = pcopy[p].State /\ imports'[work[p]].CompleteAt
    /\ imports'[work[p]].ImportBy = Nobody

Selects(p) ==
    /\ ppc[p] = "idle" /\ ppc'[p] = "selected" /\ work[p] = NoImport
    /\ work'[p] \in ReadyImports /\ pcopy'[p] = imports[work'[p]]
    /\ imports' = imports

Claims(p) ==
    /\ ppc[p] = "selected" /\ Continues(p, "won") /\ SavesClaim(p)
    /\ pcopy'[p].State = pcopy[p].State /\ pcopy'[p].ImportBy = p

LosesClaim(p) ==
    /\ ppc[p] = "selected" /\ Quits(p)
    /\ \/ TableStays(p) /\ (imports[work[p]].ImportBy # Nobody \/ faults' # 0)
       \/ SavesClaim(p) /\ faults' # 0

Starts(p) ==
    /\ ppc[p] = "won" /\ SavesStart(p)
    /\ \/ Continues(p, "claimed") /\ pcopy'[p] = pcopy[p]
       \/ Quits(p) /\ faults' # 0

StartFails(p) == ppc[p] = "won" /\ Quits(p) /\ TableStays(p) /\ faults' # 0

Reads(p) ==
    /\ \/ ppc[p] = "claimed" /\ Continues(p, "releasing")
       \/ ppc[p] = "ended" /\ Continues(p, "completing")
    /\ pcopy'[p] = imports[work[p]] /\ TableStays(p)

Releases(p) ==
    /\ ppc[p] = "releasing" /\ Quits(p)
    /\ SavesRelease(p) \/ (TableStays(p) /\ faults' # 0)

Reports(p) ==
    /\ ppc[p] = "completing" /\ pcopy'[p] = pcopy[p]
    /\ \/ SavesReport(p) /\ (Continues(p, "reported") \/ Continues(p, "ended"))
       \/ TableStays(p) /\ Continues(p, "ended")

Begins(p) ==
    /\ ppc[p] = "claimed" /\ Continues(p, "running") /\ TableStays(p)
    /\ pcopy'[p] = pcopy[p]
    /\ SetState(SiteOf(work[p]), "stable", "import-in-progress")

Ends(p) ==
    /\ ppc[p] = "running" /\ Continues(p, "ended") /\ TableStays(p) /\ state' = state
    /\ pcopy'[p] = pcopy[p]
    /\ outcomes'[work[p]] # {}
    /\ \A i \in Imports \ {work[p]} : outcomes'[i] = outcomes[i]

ShowsEnd(p) ==
    /\ ppc[p] \in {"ended", "completing", "reported"} /\ Continues(p, ppc[p])
    /\ pcopy'[p] = pcopy[p] /\ TableStays(p)
    /\ SetState(SiteOf(work[p]), "import-in-progress", "import-complete")

Settles(p) ==
    /\ ppc[p] = "reported" /\ imports[work[p]].State # InProgress /\ Quits(p)
    /\ TableStays(p) /\ SetState(SiteOf(work[p]), "import-complete", "stable")

AtImport(p) ==
    /\ work[p] \in Imports
    /\ \A i \in Imports \ {work[p]} : imports'[i] = imports[i]
    /\ \/ /\ outcomes' = outcomes /\ state' = state
          /\ \/ Claims(p) \/ LosesClaim(p) \/ Starts(p) \/ StartFails(p)
             \/ Reads(p) \/ Releases(p) \/ Reports(p)
       \/ outcomes' = outcomes /\ (Begins(p) \/ ShowsEnd(p) \/ Settles(p))
       \/ Ends(p)

LEMMA RowsSaved ==
  ASSUME NEW row \in Row, NEW by, NEW error
  PROVE  /\ SameButOwner([row EXCEPT !.ImportBy = by], row)
         /\ [row EXCEPT !.ImportBy = by].ImportBy = by
         /\ [row EXCEPT !.StartAt = TRUE].State = row.State
         /\ [row EXCEPT !.StartAt = TRUE].StartAt
         /\ [row EXCEPT !.StartAt = TRUE].ImportBy = row.ImportBy
         /\ LET completed == [row EXCEPT !.CompleteAt = TRUE, !.ImportBy = Nobody,
                                         !.Error = error]
            IN /\ completed.State = row.State /\ completed.CompleteAt
               /\ completed.ImportBy = Nobody
<1>1. /\ SameButOwner([row EXCEPT !.ImportBy = by], row)
      /\ [row EXCEPT !.ImportBy = by].ImportBy = by
  BY DEF SameButOwner, Row
<1>2. /\ [row EXCEPT !.StartAt = TRUE].State = row.State
      /\ [row EXCEPT !.StartAt = TRUE].StartAt
      /\ [row EXCEPT !.StartAt = TRUE].ImportBy = row.ImportBy
  BY DEF Row
<1>3. LET completed == [row EXCEPT !.CompleteAt = TRUE, !.ImportBy = Nobody,
                                   !.Error = error]
      IN /\ completed.State = row.State /\ completed.CompleteAt
         /\ completed.ImportBy = Nobody
  BY DEF Row
<1> QED BY <1>1, <1>2, <1>3

LEMMA OtherProvisioners ==
  ASSUME TypeOK, NEW p \in Provisioners, Provision(p)
  PROVE  /\ \A q \in Provisioners \ {p} :
              ppc'[q] = ppc[q] /\ work'[q] = work[q] /\ pcopy'[q] = pcopy[q]
         /\ UNCHANGED <<created, session, config>>
<1> DEFINE Others == \A q \in Provisioners \ {p} :
                       ppc'[q] = ppc[q] /\ work'[q] = work[q] /\ pcopy'[q] = pcopy[q]
<1>1. PIdle(p) => Others
  BY DEF PIdle, TypeOK
<1>2. CASE ClaimSelect(p)
  BY <1>2 DEF ClaimSelect, TypeOK
<1>3. CASE ClaimLock(p)
  BY <1>1, <1>3 DEF ClaimLock, TypeOK
<1>4. CASE ClaimStart(p)
  BY <1>1, <1>4 DEF ClaimStart, TypeOK
<1>5. CASE ReadForUpdate(p)
  BY <1>5 DEF ReadForUpdate, TypeOK
<1>6. CASE handleReleaseLockOnImport(p)
  BY <1>1, <1>6 DEF handleReleaseLockOnImport
<1>7. CASE handleCompleteImport(p)
  BY <1>7 DEF handleCompleteImport, TypeOK
<1>8. CASE BeginImport(p) \/ (\E outcome \in {"ok", "error"} : EndImport(p, outcome))
  BY <1>8 DEF BeginImport, EndImport, TypeOK
<1>9. CASE ShowImportComplete(p) \/ Settle(p)
  BY <1>1, <1>9 DEF ShowImportComplete, Settle
<1> QED BY <1>2, <1>3, <1>4, <1>5, <1>6, <1>7, <1>8, <1>9 DEF Provision

LEMMA ProvisionMoves ==
  ASSUME TypeOK, NEW p \in Provisioners, Provision(p)
  PROVE  (Selects(p) /\ outcomes' = outcomes /\ state' = state) \/ AtImport(p)
<1>1. ASSUME ppc[p] # "idle"
      PROVE  work[p] \in Imports /\ imports[work[p]] \in Row
  BY <1>1 DEF TypeOK
<1>2. pcopy[p] \in Row /\ faults \in Nat
  BY DEF TypeOK
<1>3. Fault => faults' # 0
  BY <1>2
<1>4. PIdle(p) => Quits(p)
  BY DEF PIdle, Quits, TypeOK
<1>5. \A label : PGoto(p, label) /\ work' = work => Continues(p, label)
  BY DEF Continues, TypeOK
<1>6. ASSUME imports' = imports
      PROVE  TableStays(p) /\ \A i \in Imports \ {work[p]} : imports'[i] = imports[i]
  BY <1>6 DEF TableStays
<1>7. ASSUME NEW row, UpdateImport(work[p], row), work[p] \in Imports
      PROVE  /\ imports'[work[p]] = row
             /\ \A i \in Imports \ {work[p]} : imports'[i] = imports[i]
  BY <1>7 DEF TypeOK
<1>8. CASE ClaimSelect(p)
  <2>1. PICK i \in Oldest(ReadyImports) :
          /\ work' = [work EXCEPT ![p] = i]
          /\ pcopy' = [pcopy EXCEPT ![p] = imports[i]]
    BY <1>8 DEF ClaimSelect
  <2>2. i \in ReadyImports /\ work'[p] = i /\ pcopy'[p] = imports[i]
    BY <2>1 DEF Oldest, TypeOK
  <2>3. /\ ppc[p] = "idle" /\ ppc'[p] = "selected" /\ work[p] = NoImport
        /\ UNCHANGED <<imports, outcomes, state>>
    BY <1>8 DEF ClaimSelect, TypeOK
  <2> QED BY <2>2, <2>3 DEF Selects
<1>9. CASE ClaimLock(p)
  <2>1. /\ work[p] \in Imports /\ imports[work[p]] \in Row /\ ppc[p] = "selected"
        /\ UNCHANGED <<outcomes, state>>
    BY <1>1, <1>9 DEF ClaimLock
  <2>2. UpdateImport(work[p], ClaimedRow(imports[work[p]], p)) =>
          /\ SavesClaim(p)
          /\ \A i \in Imports \ {work[p]} : imports'[i] = imports[i]
    <3> DEFINE claimed == ClaimedRow(imports[work[p]], p)
    <3>1. SameButOwner(claimed, imports[work[p]]) /\ claimed.ImportBy = p
      BY <2>1 DEF ClaimedRow, SameButOwner, Row
    <3> HIDE DEF claimed
    <3>2. UpdateImport(work[p], claimed) =>
            /\ SavesClaim(p)
            /\ \A i \in Imports \ {work[p]} : imports'[i] = imports[i]
      BY <1>7, <2>1, <3>1 DEF SavesClaim
    <3> QED BY <3>2 DEF claimed
  <2>3. CASE /\ UpdateImport(work[p], ClaimedRow(imports[work[p]], p))
             /\ pcopy' = [pcopy EXCEPT ![p] = ClaimedRow(@, p)]
             /\ PGoto(p, "won") /\ UNCHANGED work
    <3>1. pcopy'[p] = ClaimedRow(pcopy[p], p)
      BY <2>3 DEF TypeOK
    <3>2. pcopy'[p].State = pcopy[p].State /\ pcopy'[p].ImportBy = p
      BY <1>2, <3>1, RowsSaved DEF ClaimedRow, SameButOwner
    <3> QED BY <1>5, <2>1, <2>2, <2>3, <3>2 DEF Claims, AtImport
  <2>4. CASE imports[work[p]].ImportBy # Nobody /\ PIdle(p) /\ imports' = imports
    BY <1>4, <1>6, <2>1, <2>4 DEF LosesClaim, AtImport
  <2>5. CASE UpdateFails(work[p], ClaimedRow(imports[work[p]], p)) /\ PIdle(p)
    BY <1>3, <1>4, <1>6, <2>1, <2>2, <2>5 DEF LosesClaim, AtImport, UpdateFails
  <2> QED BY <1>9, <2>3, <2>4, <2>5 DEF ClaimLock
<1>10. CASE ClaimStart(p)
  <2>1. /\ work[p] \in Imports /\ ppc[p] = "won" /\ UNCHANGED <<outcomes, state>>
    BY <1>1, <1>10 DEF ClaimStart
  <2> DEFINE started == [pcopy[p] EXCEPT !.StartAt = TRUE]
  <2>2. started.State = pcopy[p].State /\ started.StartAt
        /\ started.ImportBy = pcopy[p].ImportBy
    BY <1>2, RowsSaved
  <2>3. \/ /\ UpdateImport(work[p], started) /\ PGoto(p, "claimed")
           /\ UNCHANGED <<work, pcopy>>
        \/ UpdateFails(work[p], started) /\ PIdle(p)
    BY <1>10 DEF ClaimStart
  <2> HIDE DEF started
  <2>4. UpdateImport(work[p], started) =>
          /\ SavesStart(p)
          /\ \A i \in Imports \ {work[p]} : imports'[i] = imports[i]
    BY <1>7, <2>1, <2>2 DEF SavesStart
  <2> QED BY <1>3, <1>4, <1>5, <1>6, <2>1, <2>3, <2>4 DEF Starts, StartFails, AtImport,
             UpdateFails
<1>11. CASE ReadForUpdate(p)
  <2>1. /\ ppc[p] \in {"claimed", "ended"} /\ UNCHANGED <<outcomes, state, work, imports>>
        /\ \/ ppc[p] = "claimed" /\ PGoto(p, "releasing")
           \/ ppc[p] = "ended" /\ PGoto(p, "completing")
        /\ pcopy'[p] = imports[work[p]]
    BY <1>11 DEF ReadForUpdate, TypeOK
  <2> QED BY <1>1, <1>5, <1>6, <2>1 DEF Reads, AtImport
<1>12. CASE handleReleaseLockOnImport(p)
  <2>1. /\ work[p] \in Imports /\ ppc[p] = "releasing" /\ UNCHANGED <<outcomes, state>>
        /\ PIdle(p)
        /\ \/ UpdateImport(work[p], ReleasedRow(pcopy[p]))
           \/ imports' = imports /\ Fault
    BY <1>1, <1>12 DEF handleReleaseLockOnImport, UpdateFails
  <2>2. UpdateImport(work[p], ReleasedRow(pcopy[p])) =>
          /\ SavesRelease(p)
          /\ \A i \in Imports \ {work[p]} : imports'[i] = imports[i]
    <3> DEFINE released == ReleasedRow(pcopy[p])
    <3>1. SameButOwner(released, pcopy[p]) /\ released.ImportBy = Nobody
      BY <1>2 DEF ReleasedRow, SameButOwner, Row
    <3> HIDE DEF released
    <3>2. UpdateImport(work[p], released) =>
            /\ SavesRelease(p)
            /\ \A i \in Imports \ {work[p]} : imports'[i] = imports[i]
      BY <1>7, <2>1, <3>1 DEF SavesRelease
    <3> QED BY <3>2 DEF released
  <2> QED BY <1>3, <1>4, <1>6, <2>1, <2>2 DEF Releases, AtImport
<1>13. CASE handleCompleteImport(p)
  <2>1. /\ work[p] \in Imports /\ ppc[p] = "completing"
        /\ UNCHANGED <<outcomes, state, work, pcopy>>
    BY <1>1, <1>13 DEF handleCompleteImport
  <2>2. PICK error :
          LET completed == [pcopy[p] EXCEPT !.CompleteAt = TRUE, !.ImportBy = Nobody,
                                            !.Error = error]
          IN \/ UpdateImport(work[p], completed) /\ PGoto(p, "reported")
             \/ UpdateFails(work[p], completed) /\ PGoto(p, "ended")
    BY <1>13 DEF handleCompleteImport
  <2> DEFINE completed == [pcopy[p] EXCEPT !.CompleteAt = TRUE, !.ImportBy = Nobody,
                                           !.Error = error]
  <2>3. completed.State = pcopy[p].State /\ completed.CompleteAt
        /\ completed.ImportBy = Nobody
    BY <1>2, RowsSaved
  <2>4. \/ UpdateImport(work[p], completed) /\ PGoto(p, "reported")
        \/ UpdateFails(work[p], completed) /\ PGoto(p, "ended")
    BY <2>2
  <2> HIDE DEF completed
  <2>5. UpdateImport(work[p], completed) =>
          /\ SavesReport(p)
          /\ \A i \in Imports \ {work[p]} : imports'[i] = imports[i]
    BY <1>7, <2>1, <2>3 DEF SavesReport
  <2> QED BY <1>5, <1>6, <2>1, <2>4, <2>5 DEF Reports, AtImport, UpdateFails
<1>14. CASE BeginImport(p)
  <2>1. /\ ppc[p] = "claimed" /\ SetState(SiteOf(work[p]), "stable", "import-in-progress")
        /\ PGoto(p, "running") /\ UNCHANGED <<outcomes, work, pcopy, imports>>
    BY <1>14 DEF BeginImport
  <2> QED BY <1>1, <1>5, <1>6, <2>1 DEF Begins, AtImport
<1>15. ASSUME NEW outcome \in {"ok", "error"}, EndImport(p, outcome)
       PROVE  AtImport(p)
  <2>1. /\ ppc[p] = "running" /\ PGoto(p, "ended") /\ UNCHANGED <<work, pcopy, imports, state>>
        /\ outcomes' = [outcomes EXCEPT ![work[p]] = @ \cup {outcome}]
    BY <1>15 DEF EndImport
  <2>2. work[p] \in Imports
    BY <1>1, <2>1
  <2>3. /\ outcomes'[work[p]] # {}
        /\ \A i \in Imports \ {work[p]} : outcomes'[i] = outcomes[i]
    BY <2>1, <2>2 DEF TypeOK
  <2> QED BY <1>5, <1>6, <2>1, <2>2, <2>3 DEF Ends, AtImport
<1>16. CASE ShowImportComplete(p)
  <2>1. /\ ppc[p] \in {"ended", "completing", "reported"}
        /\ SetState(SiteOf(work[p]), "import-in-progress", "import-complete")
        /\ UNCHANGED <<outcomes, work, imports, ppc, pcopy>>
    BY <1>16 DEF ShowImportComplete
  <2> QED BY <1>1, <1>6, <2>1 DEF ShowsEnd, Continues, AtImport
<1>17. CASE Settle(p)
  <2>1. /\ ppc[p] = "reported" /\ imports[work[p]].State # InProgress /\ PIdle(p)
        /\ SetState(SiteOf(work[p]), "import-complete", "stable")
        /\ UNCHANGED <<outcomes, imports>>
    BY <1>17 DEF Settle
  <2> QED BY <1>1, <1>4, <1>6, <2>1 DEF Settles, AtImport
<1> QED
  BY <1>8, <1>9, <1>10, <1>11, <1>12, <1>13, <1>14, <1>15, <1>16, <1>17 DEF Provision

--------------------------------------------------------------------------------
(* Preparation *)

Preparing == {Requested, PreAdjustment}

Untouched(row) ==
    ~row.StartAt /\ ~row.CompleteAt /\ row.ImportBy = Nobody /\ ~row.Error

InHand(s, i) == i \in batch[s] \/ cur[s] = i

RowFresh(i) ==
    /\ imports[i].State \in Preparing =>
          /\ Untouched(imports[i]) /\ ~Ran(i)
          /\ \A p \in Provisioners : work[p] # i
    /\ i \notin created =>
          /\ imports[i].State = Requested
          /\ \A s \in Supervisors : ~InHand(s, i)

\* What s remembers as being prepared is still so.
CopyFresh(s, i) ==
    InHand(s, i) /\ copy[s][i].State \in Preparing =>
        imports[i].State \in Preparing /\ Untouched(copy[s][i])

\* What s has decided of the import that it supervises.
DecisionFresh(s) ==
    /\ pc[s] \in {"unlockAPI", "patch", "lockedPatch"} =>
          Mine(s).State \in {Requested, Complete}
    /\ pc[s] \in {"saveComplete", "deleteBundle"} =>
          Mine(s).State = InProgress /\ Mine(s).CompleteAt
    /\ pc[s] \in {"relockToSave", "save"} /\ Mine(s).State = InProgress =>
          imports[cur[s]].State \in Preparing /\ Untouched(Mine(s))

WorkFresh(p) ==
    ppc[p] \in {"selected", "won", "releasing", "completing"} =>
        pcopy[p].State \notin Preparing

\* The preparation of an import is the supervisor's alone: while the table
\* shows it, nothing else has touched the row, and no one's memory holds the
\* import as being prepared when it no longer is.
FreshInv ==
    /\ \A i \in Imports : RowFresh(i)
    /\ \A s \in Supervisors : (\A i \in Imports : CopyFresh(s, i)) /\ DecisionFresh(s)
    /\ \A p \in Provisioners : WorkFresh(p)

LEMMA StatesDiffer ==
  /\ Preparing \cap {InProgress, Complete, PostAdjustment, Succeeded, Failed} = {}
  /\ InProgress \notin {Complete, PostAdjustment, Succeeded, Failed}
  /\ Complete \notin {PostAdjustment, Succeeded, Failed, Requested, PreAdjustment}
  /\ PostAdjustment \notin {Succeeded, Failed} /\ Succeeded # Failed
  /\ Requested # PreAdjustment
BY DEF Preparing, Requested, PreAdjustment, InProgress, Complete, PostAdjustment,
   Succeeded, Failed

LEMMA WithImportFresh ==
  ASSUME OneSupervisor, TypeOK, FreshInv, NEW s \in Supervisors, cur[s] \in Imports,
         WithImport(s)
  PROVE  /\ imports'[cur[s]].State \in Preparing =>
               imports[cur[s]].State \in Preparing /\ Untouched(imports'[cur[s]])
         /\ copy'[s][cur[s]].State \in Preparing =>
               imports'[cur[s]].State \in Preparing /\ Untouched(copy'[s][cur[s]])
         /\ pc'[s] \in {"unlockAPI", "patch", "lockedPatch"} =>
               copy'[s][cur[s]].State \in {Requested, Complete}
         /\ pc'[s] \in {"saveComplete", "deleteBundle"} =>
               copy'[s][cur[s]].State = InProgress /\ copy'[s][cur[s]].CompleteAt
         /\ pc'[s] \in {"relockToSave", "save"} /\ copy'[s][cur[s]].State = InProgress =>
               imports'[cur[s]].State \in Preparing /\ Untouched(copy'[s][cur[s]])
         /\ UNCHANGED <<cur, batch>>
         /\ \A i \in Imports \ {cur[s]} : /\ imports'[i] = imports[i]
                                          /\ copy'[s][i] = copy[s][i]
<1> DEFINE Goal ==
      /\ imports'[cur[s]].State \in Preparing =>
            imports[cur[s]].State \in Preparing /\ Untouched(imports'[cur[s]])
      /\ copy'[s][cur[s]].State \in Preparing =>
            imports'[cur[s]].State \in Preparing /\ Untouched(copy'[s][cur[s]])
      /\ pc'[s] \in {"unlockAPI", "patch", "lockedPatch"} =>
            copy'[s][cur[s]].State \in {Requested, Complete}
      /\ pc'[s] \in {"saveComplete", "deleteBundle"} =>
            copy'[s][cur[s]].State = InProgress /\ copy'[s][cur[s]].CompleteAt
      /\ pc'[s] \in {"relockToSave", "save"} /\ copy'[s][cur[s]].State = InProgress =>
            imports'[cur[s]].State \in Preparing /\ Untouched(copy'[s][cur[s]])
<1>1. \E label : Moves(s, label)
  BY DEF WithImport, Passes, GivesUp, Asks, TurnsTo, Notices, Adjusts, FailsToAdjust,
     Saves, SavesCompleteAt, Completes
<1>2. /\ imports[cur[s]].State \in Preparing => Untouched(imports[cur[s]])
      /\ Mine(s).State \in Preparing =>
            imports[cur[s]].State \in Preparing /\ Untouched(Mine(s))
      /\ DecisionFresh(s)
  BY DEF FreshInv, RowFresh, CopyFresh, InHand
<1>3. \A new : HandTurns(s, new) /\ Untouched(Mine(s)) => Untouched(copy'[s][cur[s]])
  BY DEF HandTurns, SameMarks, Untouched
<1>4. CASE Passes(s) \/ Asks(s) \/ FailsToAdjust(s)
  BY <1>2, <1>4, StatesDiffer DEF Passes, Asks, FailsToAdjust, Moves, RowStays, HandStays,
     DecisionFresh
<1>5. CASE GivesUp(s)
  BY <1>2, <1>5, StatesDiffer DEF GivesUp, Moves, RowStays, HandTurns
<1>6. ASSUME NEW new \in ImportStates, TurnsTo(s, new)
      PROVE  Goal
  <2>1. /\ pc'[s] = "save" /\ RowStays(s) /\ HandTurns(s, new) /\ Turns(s, new)
    BY <1>6 DEF TurnsTo, Moves
  <2>2. \/ Mine(s).State \in Preparing
        \/ new \in {Complete, Succeeded, Failed}
    BY <2>1 DEF Turns, Verdict, Preparing
  <2> QED BY <1>2, <1>3, <2>1, <2>2, StatesDiffer DEF RowStays, HandTurns
<1>7. CASE Notices(s)
  BY <1>2, <1>7, StatesDiffer DEF Notices, Moves, RowStays
<1>8. ASSUME Adjusts(s)
      PROVE  Goal
  <2>1. /\ pc'[s] \in {"save", "relockToSave"} /\ RowStays(s)
        /\ HandTurns(s, AfterAdjustment(Mine(s).State))
        /\ Mine(s).State \in {Requested, Complete}
    BY <1>2, <1>8 DEF Adjusts, Moves, DecisionFresh
  <2>2. \/ Mine(s).State \in Preparing /\ AfterAdjustment(Mine(s).State) = PreAdjustment
        \/ AfterAdjustment(Mine(s).State) = PostAdjustment
    BY <2>1 DEF AfterAdjustment, Preparing
  <2>3. PreAdjustment \in Preparing
    BY DEF Preparing
  <2> QED BY <1>2, <1>3, <2>1, <2>2, <2>3, StatesDiffer DEF RowStays, HandTurns
<1>9. CASE Saves(s) \/ SavesCompleteAt(s)
  BY <1>2, <1>9, StatesDiffer DEF Saves, SavesCompleteAt, Moves, RowStays, RowSaved,
     HandStays, DecisionFresh
<1>10. CASE Completes(s)
  BY <1>2, <1>10, StatesDiffer DEF Completes, Moves, RowStays, RowSaved, HandTurns,
     DecisionFresh
<1> QED
  BY <1>1, <1>4, <1>5, <1>6, <1>7, <1>8, <1>9, <1>10 DEF WithImport, Moves

LEMMA SuperviseFresh ==
  ASSUME OneSupervisor, TypeOK, FreshInv, NEW s \in Supervisors, Supervise(s) \/ Crash(s)
  PROVE  FreshInv'
<1>1. UNCHANGED <<created, ppc, work, pcopy, outcomes>>
  BY SuperviseKeeps
<1>2. ASSUME \A i \in Imports :
                 /\ imports'[i].State \in Preparing =>
                       imports[i].State \in Preparing /\ Untouched(imports'[i])
                 /\ i \notin created => imports'[i].State = imports[i].State,
             \A i \in Imports : InHand(s, i)' => i \in created,
             \A i \in Imports : CopyFresh(s, i)',
             DecisionFresh(s)'
      PROVE  FreshInv'
  <2>1. \A i \in Imports : RowFresh(i)'
    BY <1>1, <1>2 DEF FreshInv, RowFresh, Ran, OneSupervisor
  <2>2. \A p \in Provisioners : WorkFresh(p)'
    BY <1>1 DEF FreshInv, WorkFresh
  <2> QED BY <1>2, <2>1, <2>2 DEF FreshInv, OneSupervisor
<1>3. \A i \in Imports : /\ InHand(s, i) => i \in created
                         /\ CopyFresh(s, i) /\ RowFresh(i)
  BY DEF FreshInv, RowFresh
<1>4. ASSUME \A i \in Imports : Alike(imports'[i], imports[i])
      PROVE  \A i \in Imports :
                /\ imports'[i].State \in Preparing =>
                      imports[i].State \in Preparing /\ Untouched(imports'[i])
                /\ imports'[i].State = imports[i].State
  BY <1>3, <1>4 DEF RowFresh, Alike, SameMarks, Untouched
<1>5. CASE Lists(s)
  <2>1. \A i \in Imports : InHand(s, i)' =>
            i \in created /\ i \in batch'[s] /\ copy'[s][i] = imports[i]
    BY <1>5, ConstantsAssumption DEF Lists, InHand
  <2>2. \A i \in Imports : Alike(imports'[i], imports[i])
    BY <1>5 DEF Lists, Alike, SameMarks
  <2>3. \A i \in Imports : CopyFresh(s, i)'
    BY <1>3, <1>5, <2>1 DEF Lists, CopyFresh, RowFresh
  <2>4. DecisionFresh(s)'
    BY <1>5 DEF Lists, DecisionFresh
  <2> QED BY <1>2, <1>4, <2>1, <2>2, <2>3, <2>4
<1>6. CASE Wins(s)
  <2>1. \A i \in Imports : /\ Alike(imports'[i], imports[i])
                           /\ Alike(copy'[s][i], copy[s][i])
                           /\ InHand(s, i)' => InHand(s, i)
    BY <1>6 DEF Wins, InHand
  <2>2. \A i \in Imports : CopyFresh(s, i)'
    BY <1>3, <2>1 DEF CopyFresh, Alike, SameMarks, Untouched
  <2>3. DecisionFresh(s)'
    BY <1>6 DEF Wins, DecisionFresh
  <2> QED BY <1>2, <1>3, <1>4, <2>1, <2>2, <2>3
<1>7. CASE Drops(s)
  <2>1. \A i \in Imports : /\ Alike(imports'[i], imports[i])
                           /\ InHand(s, i)' => InHand(s, i) /\ copy'[s][i] = copy[s][i]
    BY <1>7, ConstantsAssumption DEF Drops, InHand
  <2>2. \A i \in Imports : CopyFresh(s, i)'
    BY <1>3, <2>1 DEF CopyFresh, Alike, SameMarks
  <2>3. DecisionFresh(s)'
    BY <1>7 DEF Drops, DecisionFresh
  <2> QED BY <1>2, <1>3, <1>4, <2>1, <2>2, <2>3
<1>8. CASE cur[s] \in Imports /\ WithImport(s)
  <2>1. /\ imports'[cur[s]].State \in Preparing =>
              imports[cur[s]].State \in Preparing /\ Untouched(imports'[cur[s]])
        /\ copy'[s][cur[s]].State \in Preparing =>
              imports'[cur[s]].State \in Preparing /\ Untouched(copy'[s][cur[s]])
        /\ UNCHANGED <<cur, batch>>
        /\ \A i \in Imports \ {cur[s]} : /\ imports'[i] = imports[i]
                                         /\ copy'[s][i] = copy[s][i]
    BY <1>8, WithImportFresh
  <2>2. \A i \in Imports : InHand(s, i)' => InHand(s, i)
    BY <2>1 DEF InHand
  <2>3. \A i \in Imports : CopyFresh(s, i)'
    BY <1>3, <2>1, <2>2 DEF CopyFresh
  <2>4. DecisionFresh(s)'
    BY <1>8, WithImportFresh DEF DecisionFresh
  <2>5. \A i \in Imports :
          /\ imports'[i].State \in Preparing =>
                imports[i].State \in Preparing /\ Untouched(imports'[i])
          /\ i \notin created => imports'[i].State = imports[i].State
    BY <1>3, <1>8, <2>1 DEF RowFresh, InHand
  <2> QED BY <1>2, <1>3, <2>2, <2>3, <2>4, <2>5
<1> QED BY <1>5, <1>6, <1>7, <1>8, SuperviseMoves

\* A provisioner works on no import that is being prepared.
LEMMA ProvisionApart ==
  ASSUME TypeOK, FreshInv, NEW p \in Provisioners, Provision(p)
  PROVE  /\ \A i \in Imports :
              imports[i].State \in Preparing \/ imports'[i].State \in Preparing =>
                 imports'[i] = imports[i] /\ outcomes'[i] = outcomes[i] /\ work'[p] # i
         /\ WorkFresh(p)'
<1>1. CASE Selects(p) /\ outcomes' = outcomes
  <2>1. work'[p] \in Imports /\ imports[work'[p]].State = InProgress
    BY <1>1 DEF Selects, ReadyImports, TypeOK
  <2> QED BY <1>1, <2>1, StatesDiffer DEF Selects, WorkFresh
<1>2. CASE AtImport(p)
  <2>1. /\ work[p] \in Imports /\ imports[work[p]].State \notin Preparing /\ WorkFresh(p)
        /\ \A i \in Imports \ {work[p]} : imports'[i] = imports[i]
    BY <1>2 DEF AtImport, FreshInv, RowFresh
  <2>2. CASE Claims(p) \/ LosesClaim(p) \/ Starts(p) \/ StartFails(p)
    <3>1. imports'[work[p]].State \notin Preparing /\ WorkFresh(p)'
      BY <2>1, <2>2 DEF Claims, LosesClaim, Starts, StartFails, SavesClaim, SavesStart,
         TableStays, SameButOwner, WorkFresh, Continues, Quits
    <3>2. work'[p] \in {work[p], NoImport} /\ outcomes' = outcomes
      BY <1>2, <2>2 DEF AtImport, Claims, LosesClaim, Starts, StartFails, Continues,
         Quits, Ends
    <3> QED BY <2>1, <3>1, <3>2, ConstantsAssumption
  <2>3. CASE Reads(p) \/ Releases(p) \/ Reports(p)
    <3>1. imports'[work[p]].State \notin Preparing /\ WorkFresh(p)'
      BY <2>1, <2>3 DEF Reads, Releases, Reports, SavesRelease, SavesReport,
         TableStays, SameButOwner, WorkFresh, Continues, Quits
    <3>2. work'[p] \in {work[p], NoImport} /\ outcomes' = outcomes
      BY <1>2, <2>3 DEF AtImport, Reads, Releases, Reports, Continues, Quits, Ends
    <3> QED BY <2>1, <3>1, <3>2, ConstantsAssumption
  <2>4. CASE Begins(p) \/ ShowsEnd(p) \/ Settles(p) \/ Ends(p)
    <3>1. imports'[work[p]] = imports[work[p]] /\ WorkFresh(p)'
      BY <2>1, <2>4 DEF Begins, ShowsEnd, Settles, Ends, TableStays, WorkFresh,
         Continues, Quits
    <3>2. work'[p] \in {work[p], NoImport}
      BY <2>4 DEF Begins, ShowsEnd, Settles, Ends, Continues, Quits
    <3>3. \A i \in Imports \ {work[p]} : outcomes'[i] = outcomes[i]
      BY <1>2 DEF AtImport, Ends
    <3> QED BY <2>1, <3>1, <3>2, <3>3, ConstantsAssumption
  <2> QED BY <1>2, <2>2, <2>3, <2>4 DEF AtImport
<1> QED BY <1>1, <1>2, ProvisionMoves

LEMMA ProvisionFresh ==
  ASSUME TypeOK, FreshInv, NEW p \in Provisioners, Provision(p)
  PROVE  FreshInv'
<1>1. /\ \A q \in Provisioners \ {p} :
            ppc'[q] = ppc[q] /\ work'[q] = work[q] /\ pcopy'[q] = pcopy[q]
      /\ UNCHANGED <<created, pc, batch, copy, cur>>
  BY OtherProvisioners
<1>2. /\ \A i \in Imports :
            imports[i].State \in Preparing \/ imports'[i].State \in Preparing =>
               imports'[i] = imports[i] /\ outcomes'[i] = outcomes[i] /\ work'[p] # i
      /\ WorkFresh(p)'
  BY ProvisionApart
<1>3. \A i \in Imports : RowFresh(i)'
  <2> SUFFICES ASSUME NEW i \in Imports
               PROVE  RowFresh(i)'
    OBVIOUS
  <2>1. RowFresh(i)
    BY DEF FreshInv
  <2>2. i \notin created => imports[i].State \in Preparing
    BY <2>1 DEF RowFresh, Preparing
  <2> QED BY <1>1, <1>2, <2>1, <2>2 DEF RowFresh, Ran, InHand
<1>4. \A s \in Supervisors : (\A i \in Imports : CopyFresh(s, i))' /\ DecisionFresh(s)'
  <2> SUFFICES ASSUME NEW s \in Supervisors
               PROVE  (\A i \in Imports : CopyFresh(s, i)') /\ DecisionFresh(s)'
    OBVIOUS
  <2>1. \A i \in Imports : CopyFresh(s, i)'
    BY <1>1, <1>2 DEF FreshInv, CopyFresh, InHand
  <2>2. pc[s] \in {"relockToSave", "save"} => cur[s] \in Imports
    BY DEF TypeOK, Holds
  <2>3. DecisionFresh(s)'
    BY <1>1, <1>2, <2>2 DEF FreshInv, DecisionFresh
  <2> QED BY <2>1, <2>3
<1>5. \A q \in Provisioners : WorkFresh(q)'
  BY <1>1, <1>2 DEF FreshInv, WorkFresh
<1> QED BY <1>3, <1>4, <1>5 DEF FreshInv

LEMMA FreshStep ==
  ASSUME OneSupervisor, TypeOK, FreshInv, [Next]_vars
  PROVE  FreshInv'
<1>1. ASSUME UNCHANGED <<imports, session, ppc, work, pcopy, outcomes>>,
             created \subseteq created'
      PROVE  FreshInv'
  BY <1>1 DEF FreshInv, RowFresh, CopyFresh, DecisionFresh, WorkFresh, InHand, Ran
<1>2. ASSUME NEW i \in Imports, CreateImport(i)
      PROVE  FreshInv'
  BY <1>1, <1>2 DEF CreateImport
<1>3. ASSUME NEW n \in Installations, Reconcile(n) \/ Delete(n)
      PROVE  FreshInv'
  BY <1>1, <1>3 DEF Reconcile, Delete
<1>4. CASE UNCHANGED vars
  BY <1>1, <1>4 DEF vars
<1> QED BY <1>2, <1>3, <1>4, SuperviseFresh, ProvisionFresh DEF Next

LEMMA FreshInit == AtRest => FreshInv
BY ConstantsAssumption DEF AtRest, FreshInv, RowFresh, CopyFresh, DecisionFresh,
   WorkFresh, InHand, Ran, NewImport, Untouched

\* With one supervisor the preparation of an import is private to it, whatever
\* the provisioners write: FreshInv is what the theorems below rest on.
THEOREM PreparationIsPrivate ==
  ASSUME OneSupervisor
  PROVE  Spec => [](TypeOK /\ FreshInv)
<1>1. TypeOK /\ FreshInv /\ [Next]_vars => FreshInv'
  BY FreshStep
<1>2. Init => FreshInv
  BY FreshInit DEF Init
<1> QED BY <1>1, <1>2, ImportTypeCorrect, PTL DEF Spec

--------------------------------------------------------------------------------
(* Claims *)

\* A supervisor leaves the row of i as it is but for its lock, or saves there
\* what it remembers of an import that it prepares, offers, has seen the end
\* of or is past.
RowKept(i) == Alike(imports'[i], imports[i])

RowWritten(s, i) ==
    /\ cur[s] = i /\ imports'[i] = copy[s][i]
    /\ \/ imports[i].State \in Preparing /\ copy[s][i].State \in Preparing
       \/ imports[i].State \in Preparing /\ Untouched(copy[s][i])
       \/ copy[s][i].State = InProgress /\ copy[s][i].CompleteAt
       \/ copy[s][i].State \notin Preparing \cup {InProgress}

LEMMA SuperviseRows ==
  ASSUME TypeOK, FreshInv, NEW s \in Supervisors, Supervise(s) \/ Crash(s)
  PROVE  \A i \in Imports : RowKept(i) \/ RowWritten(s, i)
<1>1. \A a : Alike(a, a)
  BY DEF Alike, SameMarks
<1>2. CASE Lists(s) \/ Wins(s) \/ Drops(s)
  BY <1>1, <1>2 DEF Lists, Wins, Drops, RowKept
<1>3. CASE cur[s] \in Imports /\ WithImport(s)
  <2>1. /\ \A i \in Imports \ {cur[s]} : imports'[i] = imports[i]
        /\ \/ RowStays(s)
           \/ RowSaved(s) /\ pc[s] \in {"save", "saveComplete", "deleteBundle"}
    BY <1>3 DEF WithImport, Passes, GivesUp, Asks, TurnsTo, Notices, Adjusts,
       FailsToAdjust, Saves, SavesCompleteAt, Completes, Moves
  <2>2. CopyFresh(s, cur[s]) /\ DecisionFresh(s)
    BY <1>3 DEF FreshInv
  <2>3. RowSaved(s) /\ pc[s] \in {"save", "saveComplete", "deleteBundle"} =>
          RowWritten(s, cur[s])
    BY <2>2 DEF CopyFresh, DecisionFresh, InHand, RowSaved, RowWritten
  <2>4. RowKept(cur[s]) \/ RowWritten(s, cur[s])
    BY <1>1, <2>1, <2>3 DEF RowStays, RowKept
  <2> QED BY <1>1, <1>3, <2>1, <2>4 DEF RowKept
<1> QED BY <1>2, <1>3, SuperviseMoves

LEMMA FaultsGrow ==
  ASSUME TypeOK, [Next]_vars, faults' = 0
  PROVE  faults = 0
<1>1. faults \in Nat
  BY DEF TypeOK
<1>2. ASSUME NEW s \in Supervisors, Supervise(s) \/ Crash(s)
      PROVE  faults' = faults \/ faults' = faults + 1
  BY <1>2 DEF Supervise, GetUnlockedImportPendingWork, WinLock, LoseLock, FetchFails,
     transitionImport, UnlockAPIForInstallation, UpdateInstallation, UpdateFails,
     LockAPIForInstallation, SaveCompleteAt, DeleteObject, SaveState, UnlockImport,
     Crash
<1>3. ASSUME NEW p \in Provisioners, Provision(p)
      PROVE  faults' = faults \/ faults' = faults + 1
  BY <1>3 DEF Provision, ClaimSelect, ClaimLock, ClaimStart, ReadForUpdate, UpdateFails,
     handleReleaseLockOnImport, handleCompleteImport, BeginImport, EndImport,
     ShowImportComplete, Settle
<1>4. ASSUME \/ \E i \in Imports : CreateImport(i)
             \/ \E n \in Installations : Reconcile(n) \/ Delete(n)
             \/ UNCHANGED vars
      PROVE  faults' = faults
  BY <1>4 DEF CreateImport, Reconcile, Delete, vars
<1>5. faults' = faults \/ faults' = faults + 1
  BY <1>2, <1>3, <1>4 DEF Next
<1> QED BY <1>1, <1>5

\* The row shows a claim of p on an import that waits for its run.
ShowsClaim(row, p) ==
    row.State = InProgress /\ ~row.CompleteAt /\ row.ImportBy = p

ClaimHeld(i, p) ==
    ShowsClaim(imports[i], p) => work[p] = i /\ ppc[p] # "selected"

ClaimMine(p) == ppc[p] = "won" => pcopy[p].ImportBy = p

ClaimInv ==
    faults = 0 => \A p \in Provisioners :
        ClaimMine(p) /\ \A i \in Imports : ClaimHeld(i, p)

LEMMA SuperviseClaim ==
  ASSUME TypeOK, FreshInv, NEW s \in Supervisors, Supervise(s) \/ Crash(s),
         NEW p \in Provisioners, ClaimMine(p), \A i \in Imports : ClaimHeld(i, p)
  PROVE  ClaimMine(p)' /\ \A i \in Imports : ClaimHeld(i, p)'
<1>1. UNCHANGED <<ppc, work, pcopy>>
  BY SuperviseKeeps
<1>2. ASSUME NEW i \in Imports, ShowsClaim(imports'[i], p)
      PROVE  ShowsClaim(imports[i], p)
  <2>1. CASE RowKept(i)
    BY <1>2, <2>1 DEF RowKept, Alike, SameMarks, ShowsClaim
  <2>2. CASE RowWritten(s, i)
    <3>1. p # Nobody
      BY ConstantsAssumption
    <3> QED BY <1>2, <2>2, <3>1, StatesDiffer DEF RowWritten, Untouched, ShowsClaim
  <2> QED BY <2>1, <2>2, SuperviseRows
<1> QED BY <1>1, <1>2 DEF ClaimMine, ClaimHeld

LEMMA ProvisionClaim ==
  ASSUME TypeOK, NEW p \in Provisioners, Provision(p), faults' = 0,
         \A q \in Provisioners : ClaimMine(q) /\ \A i \in Imports : ClaimHeld(i, q)
  PROVE  \A q \in Provisioners : ClaimMine(q)' /\ \A i \in Imports : ClaimHeld(i, q)'
<1>1. \A q \in Provisioners \ {p} :
         ppc'[q] = ppc[q] /\ work'[q] = work[q] /\ pcopy'[q] = pcopy[q]
  BY OtherProvisioners
<1>2. p # Nobody /\ NoImport \notin Imports
  BY ConstantsAssumption
<1>3. CASE Selects(p)
  <2>1. \A i \in Imports : ~ShowsClaim(imports[i], p)
    BY <1>2, <1>3 DEF Selects, ClaimHeld
  <2> QED BY <1>1, <1>3, <2>1 DEF Selects, ClaimMine, ClaimHeld
<1>4. CASE AtImport(p)
  <2>1. /\ work[p] \in Imports
        /\ \A i \in Imports \ {work[p]} : imports'[i] = imports[i]
    BY <1>4 DEF AtImport
  <2>2. \A i \in Imports \ {work[p]} : ~ShowsClaim(imports'[i], p)
    BY <2>1 DEF ClaimHeld
  <2>3. ASSUME ClaimMine(p)',
               ShowsClaim(imports'[work[p]], p) => work'[p] = work[p] /\ ppc'[p] # "selected",
               \A q \in Provisioners \ {p} :
                  ShowsClaim(imports'[work[p]], q) => ShowsClaim(imports[work[p]], q)
        PROVE  \A q \in Provisioners :
                  ClaimMine(q)' /\ \A i \in Imports : ClaimHeld(i, q)'
    BY <1>1, <2>1, <2>2, <2>3 DEF ClaimMine, ClaimHeld
  <2>4. ASSUME imports'[work[p]].ImportBy \in {p, Nobody}
        PROVE  \A q \in Provisioners \ {p} : ~ShowsClaim(imports'[work[p]], q)
    BY <2>4, ConstantsAssumption DEF ShowsClaim
  <2>5. CASE Claims(p)
    BY <2>3, <2>4, <2>5 DEF Claims, SavesClaim, Continues, ClaimMine
  <2>6. CASE LosesClaim(p)
    <3>1. /\ ppc[p] = "selected" /\ ppc'[p] = "idle" /\ TableStays(p)
      BY <2>6 DEF LosesClaim, Quits
    <3>2. ~ShowsClaim(imports[work[p]], p)
      BY <2>1, <3>1 DEF ClaimHeld
    <3> QED BY <2>3, <3>1, <3>2 DEF TableStays, ClaimMine
  <2>7. CASE Starts(p)
    <3>1. ppc'[p] = "claimed" /\ work'[p] = work[p] /\ imports'[work[p]].ImportBy = p
      BY <2>7 DEF Starts, SavesStart, ClaimMine, Continues
    <3> QED BY <2>3, <2>4, <3>1 DEF ClaimMine
  <2>8. CASE Reads(p) \/ Begins(p) \/ ShowsEnd(p) \/ Ends(p)
    <3>1. /\ work'[p] = work[p] /\ TableStays(p)
          /\ ppc'[p] \in {"releasing", "completing", "running", "ended", "reported"}
      BY <2>8 DEF Reads, Begins, ShowsEnd, Ends, Continues
    <3> QED BY <2>3, <3>1 DEF TableStays, ClaimMine
  <2>9. CASE Releases(p)
    <3>1. ppc'[p] = "idle" /\ imports'[work[p]].ImportBy = Nobody
      BY <2>9 DEF Releases, Quits, SavesRelease
    <3> QED BY <1>2, <2>3, <2>4, <3>1 DEF ClaimMine, ShowsClaim
  <2>10. CASE Reports(p)
    <3>1. work'[p] = work[p] /\ ppc'[p] \in {"reported", "ended"}
      BY <2>10 DEF Reports, Continues
    <3>2. TableStays(p) \/ imports'[work[p]].ImportBy = Nobody
      BY <2>10 DEF Reports, SavesReport
    <3> QED BY <2>3, <2>4, <3>1, <3>2 DEF ClaimMine, TableStays
  <2>11. CASE Settles(p)
    <3>1. /\ ppc'[p] = "idle" /\ TableStays(p) /\ imports[work[p]].State # InProgress
      BY <2>11 DEF Settles, Quits
    <3> QED BY <2>3, <3>1 DEF TableStays, ClaimMine, ShowsClaim
  <2>12. ~StartFails(p)
    BY DEF StartFails
  <2> QED
    BY <1>4, <2>5, <2>6, <2>7, <2>8, <2>9, <2>10, <2>11, <2>12 DEF AtImport
<1> QED BY <1>3, <1>4, ProvisionMoves

LEMMA ClaimStep ==
  ASSUME TypeOK, FreshInv, ClaimInv, [Next]_vars
  PROVE  ClaimInv'
<1> SUFFICES ASSUME faults' = 0
             PROVE  \A p \in Provisioners :
                      ClaimMine(p)' /\ \A i \in Imports : ClaimHeld(i, p)'
  BY DEF ClaimInv
<1>1. \A p \in Provisioners : ClaimMine(p) /\ \A i \in Imports : ClaimHeld(i, p)
  BY FaultsGrow DEF ClaimInv
<1>2. ASSUME UNCHANGED <<imports, ppc, work, pcopy>>
      PROVE  \A p \in Provisioners :
                ClaimMine(p)' /\ \A i \in Imports : ClaimHeld(i, p)'
  BY <1>1, <1>2 DEF ClaimMine, ClaimHeld
<1>3. ASSUME \/ \E i \in Imports : CreateImport(i)
             \/ \E n \in Installations : Reconcile(n) \/ Delete(n)
             \/ UNCHANGED vars
      PROVE  UNCHANGED <<imports, ppc, work, pcopy>>
  BY <1>3 DEF CreateImport, Reconcile, Delete, vars
<1> QED BY <1>1, <1>2, <1>3, SuperviseClaim, ProvisionClaim DEF Next

LEMMA ClaimInit == AtRest => ClaimInv
BY StatesDiffer DEF AtRest, ClaimInv, ClaimMine, ClaimHeld, ShowsClaim, NewImport, Preparing

LEMMA ClaimIsOfHolder == TypeOK /\ ClaimInv => ClaimIsHeld
BY DEF TypeOK, ClaimInv, ClaimHeld, ShowsClaim, ClaimIsHeld

\* With one supervisor and any number of provisioners, a claim that the table
\* shows on an import that waits for its run is one that its provisioner knows
\* of, unless a call has failed.
THEOREM ClaimsAreHeld ==
  ASSUME OneSupervisor
  PROVE  Spec => []ClaimIsHeld
<1>1. Init => ClaimInv
  BY ClaimInit DEF Init
<1>2. TypeOK /\ FreshInv /\ ClaimInv /\ [Next]_vars => ClaimInv'
  BY ClaimStep
<1> QED BY <1>1, <1>2, ClaimIsOfHolder, PreparationIsPrivate, PTL DEF Spec

--------------------------------------------------------------------------------
(* Runs *)

\* No run may be claimed for the row any more.
Spent(row) == row.StartAt \/ row.CompleteAt \/ row.State \notin Preparing \cup {InProgress}

RunSpent(i) == Ran(i) => Spent(imports[i])

WorkSpent(p) ==
    /\ ppc[p] \in {"selected", "won", "claimed", "releasing", "running"} => ~Ran(work[p])
    /\ ppc[p] \in {"claimed", "releasing", "running", "ended", "completing", "reported"} =>
          Spent(imports[work[p]])
    /\ ppc[p] \in {"releasing", "completing"} => Spent(pcopy[p])

SpentInv ==
    (\A i \in Imports : RunSpent(i)) /\ \A p \in Provisioners : WorkSpent(p)

LEMMA SuperviseSpent ==
  ASSUME TypeOK, FreshInv, SpentInv, NEW s \in Supervisors, Supervise(s) \/ Crash(s)
  PROVE  SpentInv'
<1>1. UNCHANGED <<ppc, work, pcopy, outcomes>>
  BY SuperviseKeeps
<1>2. ASSUME NEW i \in Imports, Spent(imports[i])
      PROVE  Spent(imports'[i])
  <2>1. imports[i].State \notin Preparing
    BY <1>2 DEF FreshInv, RowFresh, Spent, Untouched
  <2>2. CASE RowKept(i)
    BY <1>2, <2>2 DEF RowKept, Alike, SameMarks, Spent
  <2>3. CASE RowWritten(s, i)
    BY <2>1, <2>3 DEF RowWritten, Spent
  <2> QED BY <2>2, <2>3, SuperviseRows
<1>3. \A p \in Provisioners : ppc[p] # "idle" => work[p] \in Imports
  BY DEF TypeOK
<1> QED BY <1>1, <1>2, <1>3 DEF SpentInv, RunSpent, WorkSpent, Ran

LEMMA ProvisionSpent ==
  ASSUME OneProvisioner, TypeOK, SpentInv, NEW p \in Provisioners, Provision(p)
  PROVE  SpentInv'
<1>1. (\A i \in Imports : RunSpent(i)) /\ WorkSpent(p)
  BY DEF SpentInv
<1>2. ASSUME \A i \in Imports : RunSpent(i)', WorkSpent(p)'
      PROVE  SpentInv'
  BY <1>2 DEF SpentInv, OneProvisioner
<1>3. CASE Selects(p) /\ outcomes' = outcomes
  <2>1. /\ work'[p] \in Imports /\ ~Spent(imports[work'[p]])
        /\ ppc'[p] = "selected" /\ imports' = imports
    BY <1>3, StatesDiffer DEF Selects, ReadyImports, TypeOK, Spent
  <2> QED BY <1>1, <1>2, <1>3, <2>1 DEF RunSpent, WorkSpent, Ran
<1>4. CASE AtImport(p)
  <2>1. /\ work[p] \in Imports /\ RunSpent(work[p])
        /\ \A i \in Imports \ {work[p]} : imports'[i] = imports[i]
        /\ \A i \in Imports \ {work[p]} : outcomes'[i] = outcomes[i]
    BY <1>1, <1>4 DEF AtImport, Ends
  <2>2. ASSUME outcomes'[work[p]] # {} => Spent(imports'[work[p]]), WorkSpent(p)'
        PROVE  SpentInv'
    BY <1>1, <1>2, <2>1, <2>2 DEF RunSpent, Ran
  <2>3. CASE /\ outcomes' = outcomes
             /\ Claims(p) \/ LosesClaim(p) \/ Starts(p) \/ StartFails(p)
    <3>1. Spent(imports[work[p]]) => Spent(imports'[work[p]])
      BY <2>3 DEF Claims, LosesClaim, Starts, StartFails, SavesClaim, SavesStart,
         TableStays, SameButOwner, Spent
    <3>2. outcomes'[work[p]] # {} => Spent(imports'[work[p]])
      BY <2>1, <2>3, <3>1 DEF RunSpent, Ran
    <3>3. Starts(p) => Spent(imports'[work[p]])
      BY DEF Starts, SavesStart, Spent
    <3>4. \/ ppc'[p] = "won" /\ work'[p] = work[p]
          \/ ppc'[p] = "claimed" /\ work'[p] = work[p] /\ Starts(p)
          \/ ppc'[p] = "idle"
      BY <2>3 DEF Claims, LosesClaim, Starts, StartFails, Continues, Quits
    <3>5. ~Ran(work[p])
      BY <1>1, <2>3 DEF WorkSpent, Claims, LosesClaim, Starts, StartFails
    <3>6. WorkSpent(p)'
      BY <2>3, <3>3, <3>4, <3>5 DEF WorkSpent, Ran
    <3> QED BY <2>2, <3>2, <3>6
  <2>4. CASE outcomes' = outcomes /\ (Reads(p) \/ Releases(p) \/ Reports(p))
    <3>1. /\ Spent(imports'[work[p]])
          /\ ppc'[p] \in {"releasing", "completing"} => Spent(pcopy'[p])
      BY <1>1, <2>4 DEF WorkSpent, Reads, Releases, Reports, SavesRelease, SavesReport,
         TableStays, SameButOwner, Spent, Continues, Quits
    <3>2. \/ ppc'[p] = "releasing" /\ work'[p] = work[p] /\ ~Ran(work[p])
          \/ ppc'[p] \in {"completing", "reported", "ended"} /\ work'[p] = work[p]
          \/ ppc'[p] = "idle"
      BY <1>1, <2>4 DEF WorkSpent, Reads, Releases, Reports, Continues, Quits
    <3> QED BY <2>2, <2>4, <3>1, <3>2 DEF WorkSpent, RunSpent, Ran
  <2>5. CASE outcomes' = outcomes /\ (Begins(p) \/ ShowsEnd(p) \/ Settles(p))
    <3>1. imports'[work[p]] = imports[work[p]] /\ Spent(imports[work[p]])
      BY <1>1, <2>5 DEF WorkSpent, Begins, ShowsEnd, Settles, TableStays
    <3>2. \/ ppc'[p] = "running" /\ work'[p] = work[p] /\ ~Ran(work[p])
          \/ /\ ppc'[p] \in {"ended", "completing", "reported"} /\ work'[p] = work[p]
             /\ ppc'[p] = ppc[p] /\ pcopy'[p] = pcopy[p]
          \/ ppc'[p] = "idle"
      BY <1>1, <2>5 DEF WorkSpent, Begins, ShowsEnd, Settles, Continues, Quits
    <3> QED BY <1>1, <2>2, <2>5, <3>1, <3>2 DEF WorkSpent, RunSpent, Ran
  <2>6. CASE Ends(p)
    <3>1. /\ imports'[work[p]] = imports[work[p]] /\ Spent(imports[work[p]])
          /\ ppc'[p] = "ended" /\ work'[p] = work[p]
      BY <1>1, <2>6 DEF WorkSpent, Ends, TableStays, Continues
    <3> QED BY <2>2, <3>1 DEF WorkSpent, RunSpent
  <2> QED BY <1>4, <2>3, <2>4, <2>5, <2>6 DEF AtImport
<1> QED BY <1>3, <1>4, ProvisionMoves

LEMMA SpentStep ==
  ASSUME OneProvisioner, TypeOK, FreshInv, SpentInv, [Next]_vars
  PROVE  SpentInv'
<1>1. ASSUME UNCHANGED <<imports, ppc, work, pcopy, outcomes>>
      PROVE  SpentInv'
  BY <1>1 DEF SpentInv, RunSpent, WorkSpent, Ran
<1>2. ASSUME \/ \E i \in Imports : CreateImport(i)
             \/ \E n \in Installations : Reconcile(n) \/ Delete(n)
             \/ UNCHANGED vars
      PROVE  UNCHANGED <<imports, ppc, work, pcopy, outcomes>>
  BY <1>2 DEF CreateImport, Reconcile, Delete, vars
<1> QED BY <1>1, <1>2, SuperviseSpent, ProvisionSpent DEF Next

LEMMA SpentInit == AtRest => SpentInv
BY DEF AtRest, SpentInv, RunSpent, WorkSpent, Ran

\* With one supervisor and one provisioner no import is started again after a
\* run of it has ended, or while one is on.
THEOREM RunsOnce ==
  ASSUME OneSupervisor, OneProvisioner
  PROVE  Spec => RunOnce
<1>1. Init => SpentInv
  BY SpentInit DEF Init
<1>2. TypeOK /\ FreshInv /\ SpentInv /\ [Next]_vars => SpentInv'
  BY SpentStep
<1>3. SpentInv =>
        \A p \in Provisioners :
           ppc[p] = "claimed" /\ ppc'[p] = "running" =>
               /\ ~Ran(work[p])
               /\ \A q \in Provisioners : work[q] = work[p] => ppc[q] # "running"
  BY DEF SpentInv, WorkSpent, OneProvisioner
<1> QED BY <1>1, <1>2, <1>3, PreparationIsPrivate, PTL DEF Spec, RunOnce

--------------------------------------------------------------------------------
(* Reversion *)

Reverted(c) ==
    (\A k \in EnvKeys : c.PriorityEnv[k] # ForImport) /\ c.Size # Size1000

\* The patch after an import leaves nothing of the adjustment, and there is
\* none only if nothing is left.
LEMMA PostPatchReverts ==
  ASSUME NEW c \in Configs
  PROVE  /\ Reverted(ApplyPatch(c, getPostImportPatch(c)))
         /\ getPostImportPatch(c) = NilPatch => Reverted(c)
<1>1. c.PriorityEnv \in [EnvKeys -> {Unset, ForImport, "custom"}]
  BY DEF Configs, Env
<1>2. /\ getPostImportPatch(c).Clear = Overridden(c)
      /\ getPostImportPatch(c).Override = {}
      /\ getPostImportPatch(c).Size = IF c.Size = Size1000 THEN SizeCloud10 ELSE Keep
  BY DEF getPostImportPatch
<1>3. Reverted(ApplyPatch(c, getPostImportPatch(c)))
  <2> DEFINE q == getPostImportPatch(c)
             d == ApplyPatch(c, q)
  <2>1. d.Size = IF q.Size = Keep THEN c.Size ELSE q.Size
    BY DEF ApplyPatch, Configs
  <2>2. d.PriorityEnv = [k \in EnvKeys |-> IF q.Clear THEN Unset
                            ELSE IF k \in q.Override THEN ForImport ELSE c.PriorityEnv[k]]
    BY DEF ApplyPatch, Configs
  <2>3. d.Size # Size1000
    BY <1>2, <2>1 DEF Size1000, SizeCloud10, Keep
  <2>4. \A k \in EnvKeys : d.PriorityEnv[k] # ForImport
    BY <1>2, <2>2 DEF Overridden, Unset, ForImport
  <2> QED BY <2>3, <2>4 DEF Reverted
<1>4. getPostImportPatch(c) = NilPatch => Reverted(c)
  <2> SUFFICES ASSUME getPostImportPatch(c) = NilPatch
               PROVE  Reverted(c)
    OBVIOUS
  <2>1. getPostImportPatch(c).Clear = FALSE /\ getPostImportPatch(c).Size = Keep
    BY DEF NilPatch
  <2>2. ~Overridden(c)
    BY <1>2, <2>1
  <2>3. c.Size # Size1000
    BY <1>2, <2>1 DEF Keep, SizeCloud10
  <2> QED BY <2>2, <2>3 DEF Reverted, Overridden
<1> QED BY <1>3, <1>4

\* The states of an import whose installation has been reverted.
Over == {PostAdjustment, Succeeded}

RevertedFor(i) == Reverted(config[SiteOf(i)])

RowReverted(i) == imports[i].State \in Over => RevertedFor(i)

CopyReverted(s, i) == InHand(s, i) /\ copy[s][i].State \in Over => RevertedFor(i)

WorkReverted(p) ==
    \A i \in Imports : work[p] = i /\ pcopy[p].State \in Over => RevertedFor(i)

PatchCurrent(s) ==
    pc[s] \in {"unlockAPI", "patch", "lockedPatch"} => patch[s] = PatchFor(s)

RevertInv ==
    /\ \A i \in Imports : RowReverted(i)
    /\ \A s \in Supervisors : (\A i \in Imports : CopyReverted(s, i)) /\ PatchCurrent(s)
    /\ \A p \in Provisioners : WorkReverted(p)

\* A reversion is undone for nothing but the preparation of the same import.
LEMMA ReversionsKept ==
  ASSUME OwnInstallations, TypeOK, FreshInv, RevertInv, NEW s \in Supervisors,
         Supervise(s) \/ Crash(s), NEW i \in Imports
  PROVE  \/ RevertedFor(i) => RevertedFor(i)'
         \/ /\ cur[s] = i /\ imports[i].State \in Preparing
            /\ copy[s][i].State = Requested /\ (Adjusts(s) \/ FailsToAdjust(s))
<1>1. CASE config' = config
  BY <1>1 DEF RevertedFor
<1>2. CASE cur[s] \in Imports /\ (Adjusts(s) \/ FailsToAdjust(s)) /\ config' # config
  <2>1. Patched(s) /\ pc[s] \in {"patch", "lockedPatch"}
    BY <1>2 DEF Adjusts, FailsToAdjust, SitesKept
  <2>2. /\ Site(s) \in Installations /\ config[Site(s)] \in Configs
    BY <1>2 DEF TypeOK
  <2>3. /\ config'[Site(s)] = ApplyPatch(config[Site(s)], patch[s])
        /\ \A n \in Installations \ {Site(s)} : config'[n] = config[n]
    BY <2>1, <2>2 DEF Patched, TypeOK
  <2>4. /\ patch[s] = PatchFor(s) /\ Mine(s).State \in {Requested, Complete}
        /\ Mine(s).State = Requested => imports[cur[s]].State \in Preparing
    BY <1>2, <2>1 DEF RevertInv, PatchCurrent, FreshInv, DecisionFresh, CopyFresh,
       InHand, Preparing
  <2>5. CASE i # cur[s]
    <3>1. SiteOf(i) # Site(s) /\ SiteOf(i) \in Installations
      BY <1>2, <2>5 DEF OwnInstallations
    <3> QED BY <2>3, <3>1 DEF RevertedFor
  <2>6. CASE i = cur[s] /\ Mine(s).State = Complete
    <3>1. config'[Site(s)] = ApplyPatch(config[Site(s)], getPostImportPatch(config[Site(s)]))
      BY <2>3, <2>4, <2>6, StatesDiffer DEF PatchFor
    <3>2. Reverted(config'[Site(s)])
      BY <2>2, <3>1, PostPatchReverts
    <3> QED BY <2>6, <3>2 DEF RevertedFor
  <2> QED BY <1>2, <2>4, <2>5, <2>6
<1>3. config' = config \/ (cur[s] \in Imports /\ (Adjusts(s) \/ FailsToAdjust(s)))
  BY SuperviseMoves DEF Lists, Wins, Drops, WithImport, Passes, GivesUp, Asks, TurnsTo,
     Notices, Saves, SavesCompleteAt, Completes, SitesKept
<1> QED BY <1>1, <1>2, <1>3

LEMMA SuperviseReverted ==
  ASSUME OneSupervisor, OwnInstallations, TypeOK, FreshInv, RevertInv,
         NEW s \in Supervisors, Supervise(s) \/ Crash(s)
  PROVE  RevertInv'
<1>1. UNCHANGED <<work, pcopy>>
  BY SuperviseKeeps
<1>2. ASSUME NEW i \in Imports
      PROVE  /\ RowReverted(i) /\ CopyReverted(s, i)
             /\ \/ RevertedFor(i) => RevertedFor(i)'
                \/ /\ cur[s] = i /\ imports[i].State \in Preparing
                   /\ copy[s][i].State = Requested /\ (Adjusts(s) \/ FailsToAdjust(s))
  BY ReversionsKept DEF RevertInv
<1>3. \A state_ \in Over : state_ \notin Preparing /\ state_ \notin {Complete, InProgress, Failed}
  BY StatesDiffer DEF Over
<1>4. ASSUME NEW i \in Imports
      PROVE  RowReverted(i)'
  <2> SUFFICES ASSUME imports'[i].State \in Over
               PROVE  RevertedFor(i)'
    BY DEF RowReverted
  <2>1. RevertedFor(i)
    <3>1. CASE RowKept(i)
      BY <1>2, <3>1 DEF RowKept, Alike, RowReverted
    <3>2. CASE RowWritten(s, i)
      BY <1>2, <3>2 DEF RowWritten, CopyReverted, InHand
    <3> QED BY <3>1, <3>2, SuperviseRows
  <2>2. CASE /\ cur[s] = i /\ imports[i].State \in Preparing
             /\ Adjusts(s) \/ FailsToAdjust(s)
    BY <1>3, <2>2 DEF Adjusts, FailsToAdjust, RowStays
  <2> QED BY <1>2, <2>1, <2>2
<1>5. ASSUME NEW p \in Provisioners
      PROVE  WorkReverted(p)'
  <2> SUFFICES ASSUME NEW i \in Imports, work[p] = i, pcopy[p].State \in Over
               PROVE  RevertedFor(i)'
    BY <1>1 DEF WorkReverted
  <2>1. RevertedFor(i) /\ imports[i].State \notin Preparing
    BY DEF RevertInv, WorkReverted, FreshInv, RowFresh
  <2> QED BY <1>2, <2>1
<1>6. ASSUME NEW i \in Imports
      PROVE  CopyReverted(s, i)'
  <2> SUFFICES ASSUME InHand(s, i)', copy'[s][i].State \in Over
               PROVE  RevertedFor(i)'
    BY DEF CopyReverted
  <2>1. CASE Lists(s)
    <3>1. copy'[s][i] = imports[i] /\ config' = config
      BY <2>1, ConstantsAssumption DEF Lists, InHand, SitesKept
    <3> QED BY <1>2, <3>1 DEF RowReverted, RevertedFor
  <2>2. CASE Wins(s) \/ Drops(s)
    <3>1. InHand(s, i) /\ copy'[s][i].State = copy[s][i].State /\ config' = config
      BY <2>2, ConstantsAssumption DEF Wins, Drops, InHand, SitesKept, Alike
    <3> QED BY <1>2, <3>1 DEF CopyReverted, RevertedFor
  <2>3. CASE cur[s] \in Imports /\ WithImport(s)
    <3>1. /\ UNCHANGED <<cur, batch>> /\ InHand(s, i)
          /\ i # cur[s] => copy'[s][i] = copy[s][i]
      BY <2>3, WithImportFresh DEF InHand
    <3>2. CASE i # cur[s]
      BY <1>2, <3>1, <3>2 DEF CopyReverted
    <3>3. CASE /\ i = cur[s] /\ HandStays(s)
      <4>1. RevertedFor(i) /\ copy[s][i].State \in Over
        BY <1>2, <3>1, <3>3 DEF HandStays, CopyReverted
      <4>2. copy[s][i].State # Requested
        BY <1>3, <4>1 DEF Preparing
      <4> QED BY <1>2, <4>1, <4>2
    <3>4. CASE i = cur[s] /\ (GivesUp(s) \/ Notices(s) \/ Completes(s))
      BY <1>3, <3>4 DEF GivesUp, Notices, Completes, HandTurns
    <3>5. ASSUME NEW new \in ImportStates, i = cur[s], TurnsTo(s, new)
          PROVE  RevertedFor(i)'
      <4>1. /\ Turns(s, new) /\ new \in Over /\ config' = config
            /\ config[SiteOf(i)] \in Configs
        BY <3>5 DEF TurnsTo, HandTurns, SitesKept, TypeOK
      <4>2. \/ Mine(s).State = PostAdjustment
            \/ getPostImportPatch(config[Site(s)]) = NilPatch
        BY <1>3, <4>1 DEF Turns, Preparing
      <4>3. Mine(s).State = PostAdjustment => RevertedFor(i)
        BY <1>2, <3>1, <3>5 DEF CopyReverted, Over
      <4>4. RevertedFor(i)
        BY <3>5, <4>1, <4>2, <4>3, PostPatchReverts DEF RevertedFor
      <4> QED BY <4>1, <4>4 DEF RevertedFor
    <3>6. CASE i = cur[s] /\ Adjusts(s)
      <4>1. /\ pc[s] \in {"patch", "lockedPatch"} /\ Patched(s)
            /\ AfterAdjustment(Mine(s).State) \in Over
        BY <3>6 DEF Adjusts, HandTurns
      <4>2. /\ Mine(s).State = Complete /\ patch[s] = getPostImportPatch(config[Site(s)])
        BY <1>3, <4>1, StatesDiffer DEF RevertInv, PatchCurrent, FreshInv, DecisionFresh,
           PatchFor, AfterAdjustment, Preparing
      <4>3. Site(s) \in Installations /\ config[Site(s)] \in Configs
        BY <2>3 DEF TypeOK
      <4>4. config'[Site(s)] = ApplyPatch(config[Site(s)], patch[s])
        BY <4>1, <4>3 DEF Patched, TypeOK
      <4> QED BY <3>6, <4>2, <4>3, <4>4, PostPatchReverts DEF RevertedFor
    <3> QED
      BY <2>3, <3>2, <3>3, <3>4, <3>5, <3>6 DEF WithImport, Passes, Asks, FailsToAdjust,
         Saves, SavesCompleteAt
  <2> QED BY <2>1, <2>2, <2>3, SuperviseMoves
<1>7. PatchCurrent(s)'
  <2> SUFFICES ASSUME pc'[s] \in {"unlockAPI", "patch", "lockedPatch"}
               PROVE  patch'[s] = PatchFor(s)'
    BY DEF PatchCurrent
  <2>1. \/ Asks(s)
        \/ Passes(s) /\ pc[s] = "unlockAPI"
    BY SuperviseMoves DEF Lists, Wins, Drops, WithImport, Passes, GivesUp, TurnsTo, Notices,
       Adjusts, FailsToAdjust, Saves, SavesCompleteAt, Completes, Moves
  <2>2. HandStays(s) /\ UNCHANGED <<cur, config>>
    BY <2>1 DEF Asks, Passes, Moves, SitesKept
  <2>3. PatchFor(s)' = PatchFor(s)
    BY <2>2 DEF PatchFor, HandStays
  <2>4. patch'[s] = PatchFor(s)
    BY <2>1 DEF Asks, Passes, RevertInv, PatchCurrent
  <2> QED BY <2>3, <2>4
<1> QED BY <1>4, <1>5, <1>6, <1>7 DEF RevertInv, OneSupervisor

LEMMA ProvisionReverted ==
  ASSUME TypeOK, RevertInv, NEW p \in Provisioners, Provision(p)
  PROVE  RevertInv'
<1>1. /\ \A q \in Provisioners \ {p} : work'[q] = work[q] /\ pcopy'[q] = pcopy[q]
      /\ UNCHANGED <<pc, batch, copy, cur, patch, config>>
  BY OtherProvisioners
<1>2. /\ \A i \in Imports : RowReverted(i)
      /\ WorkReverted(p)
  BY DEF RevertInv
<1>3. NewImport.State \notin Over
  BY DEF NewImport, Over, Requested, PostAdjustment, Succeeded
<1>4. (\A i \in Imports : RowReverted(i)') /\ WorkReverted(p)'
  <2>1. CASE Selects(p)
    BY <1>1, <1>2, <2>1 DEF Selects, RowReverted, WorkReverted, RevertedFor
  <2>2. CASE AtImport(p)
    <3>1. /\ work[p] \in Imports
          /\ \A i \in Imports \ {work[p]} : imports'[i] = imports[i]
      BY <2>2 DEF AtImport
    <3>2. imports'[work[p]].State \in {imports[work[p]].State, pcopy[p].State}
      BY <2>2 DEF AtImport, Claims, LosesClaim, Starts, StartFails, Reads, Releases,
         Reports, Begins, ShowsEnd, Settles, Ends, SavesClaim, SavesStart, SavesRelease,
         SavesReport, TableStays, SameButOwner
    <3>3. \/ work'[p] = NoImport
          \/ /\ work'[p] = work[p]
             /\ pcopy'[p].State \in {imports[work[p]].State, pcopy[p].State}
      BY <2>2 DEF AtImport, Claims, LosesClaim, Starts, StartFails, Reads, Releases,
         Reports, Begins, ShowsEnd, Settles, Ends, Continues, Quits
    <3> QED BY <1>1, <1>2, <3>1, <3>2, <3>3, ConstantsAssumption
            DEF RowReverted, WorkReverted, RevertedFor
  <2> QED BY <2>1, <2>2, ProvisionMoves
<1>5. \A q \in Provisioners : WorkReverted(q)'
  BY <1>1, <1>4 DEF RevertInv, WorkReverted, RevertedFor
<1>6. \A s \in Supervisors : (\A i \in Imports : CopyReverted(s, i)') /\ PatchCurrent(s)'
  BY <1>1 DEF RevertInv, CopyReverted, PatchCurrent, PatchFor, InHand, RevertedFor
<1> QED BY <1>4, <1>5, <1>6 DEF RevertInv

LEMMA RevertStep ==
  ASSUME OneSupervisor, OwnInstallations, TypeOK, FreshInv, RevertInv, [Next]_vars
  PROVE  RevertInv'
<1>1. ASSUME UNCHANGED <<imports, session, config, work, pcopy>>
      PROVE  RevertInv'
  BY <1>1 DEF RevertInv, RowReverted, CopyReverted, WorkReverted, PatchCurrent, PatchFor,
     InHand, RevertedFor
<1>2. ASSUME \/ \E i \in Imports : CreateImport(i)
             \/ \E n \in Installations : Reconcile(n) \/ Delete(n)
             \/ UNCHANGED vars
      PROVE  UNCHANGED <<imports, session, config, work, pcopy>>
  BY <1>2 DEF CreateImport, Reconcile, Delete, vars
<1> QED BY <1>1, <1>2, SuperviseReverted, ProvisionReverted DEF Next

LEMMA RevertInit == AtRest => RevertInv
<1>1. NewImport.State \notin Over
  BY DEF NewImport, Over, Requested, PostAdjustment, Succeeded
<1> QED BY <1>1 DEF AtRest, RevertInv, RowReverted, CopyReverted, WorkReverted,
           PatchCurrent

LEMMA RevertedIsReverted == RevertInv => SucceededIsReverted
BY DEF RevertInv, RowReverted, RevertedFor, Reverted, Over, SucceededIsReverted

\* With one supervisor and installations that are the target of one import
\* each, no override and no enlarged size is left when an import succeeds,
\* whatever the provisioners and the faults.
THEOREM SuccessIsReverted ==
  ASSUME OneSupervisor, OwnInstallations
  PROVE  Spec => []SucceededIsReverted
<1>1. Init => RevertInv
  BY RevertInit DEF Init
<1>2. TypeOK /\ FreshInv /\ RevertInv /\ [Next]_vars => RevertInv'
  BY RevertStep
<1> QED BY <1>1, <1>2, RevertedIsReverted, PreparationIsPrivate, PTL DEF Spec

--------------------------------------------------------------------------------
(* Phases *)

Now(i) == state[SiteOf(i)]

Fit(i) == FitForImport(config[SiteOf(i)])

RestStates == {"stable", "updating"}

RunStates == {"import-in-progress", "import-complete"}

\* The phases of an import whose installation is not deleted: what the table
\* shows of it goes with the state of the installation and with its run.
Waiting(i) == ~Ran(i) /\ imports[i].State \in Preparing /\ Now(i) \in RestStates

Offered(i) == /\ ~Ran(i) /\ imports[i].State = InProgress /\ Fit(i)
              /\ Now(i) \in {"stable", "import-in-progress"}

Ended(i) == Ran(i) /\ imports[i].State = InProgress /\ Fit(i) /\ Now(i) \in RunStates

Noticed(i) == Ran(i) /\ imports[i].State = Complete /\ Fit(i) /\ Now(i) = "import-complete"

Past(i) == /\ Ran(i) /\ imports[i].State \notin Preparing \cup {InProgress}
           /\ Now(i) \in RestStates

RowPhase(i) == Waiting(i) \/ Offered(i) \/ Ended(i) \/ Noticed(i) \/ Past(i)

\* How far a provisioner is with an import.
WorkPhase(p, i) ==
    work[p] = i =>
      /\ ppc[p] \in {"selected", "won", "claimed", "releasing"} =>
            ~Ran(i) /\ imports[i].State = InProgress /\ Now(i) = "stable"
      /\ ppc[p] = "running" =>
            ~Ran(i) /\ imports[i].State = InProgress /\ Now(i) = "import-in-progress"
      /\ ppc[p] \in {"ended", "completing", "reported"} => Ran(i) /\ Now(i) \in RunStates
      /\ ppc[p] \in {"selected", "won", "releasing"} => pcopy[p].State = InProgress
      /\ ppc[p] = "completing" =>
            \/ pcopy[p].State = InProgress
            \/ pcopy[p].State = Complete /\ imports[i].State = Complete

Listed(s, i) ==
    \/ i \in batch[s]
    \/ cur[s] = i /\ pc[s] \in {"locked", "unlockAPI", "patch", "lockedPatch"}

\* What a supervisor has read is still so, but for a report that it overtook.
HandPhase(s, i) ==
    Listed(s, i) =>
      \/ copy[s][i].State \in Preparing
      \/ /\ copy[s][i].State = imports[i].State
         /\ copy[s][i].State \in {InProgress, Complete, PostAdjustment}
      \/ copy[s][i].State = Complete /\ imports[i].State = InProgress /\ Ran(i)

\* What a supervisor is about to save is the next thing that may be shown.
WritePhase(s, i) ==
    cur[s] = i =>
      /\ pc[s] \in {"unlockAPI", "patch", "lockedPatch"} => Now(i) = "stable"
      /\ pc[s] \in {"saveComplete", "deleteBundle"} =>
            imports[i].State = InProgress /\ Now(i) = "import-complete"
      /\ pc[s] \in {"relockToSave", "save"} =>
            \/ copy[s][i].State \in Preparing
            \/ copy[s][i].State = InProgress /\ Now(i) = "stable" /\ Fit(i)
            \/ /\ copy[s][i].State = Complete /\ imports[i].State = InProgress
               /\ Now(i) = "import-complete"
            \/ /\ copy[s][i].State \in {Complete, Succeeded, Failed}
               /\ imports[i].State = PostAdjustment /\ Now(i) \in RestStates
            \/ /\ copy[s][i].State \in {PostAdjustment, Succeeded, Failed}
               /\ imports[i].State = Complete /\ Now(i) \in RestStates

ImportPhase(i) ==
    Now(i) # "deleted" =>
      /\ RowPhase(i)
      /\ \A p \in Provisioners : WorkPhase(p, i)
      /\ \A s \in Supervisors : HandPhase(s, i) /\ WritePhase(s, i)

\* Only the run of its import shows on an installation.
SitePhase(n) ==
    state[n] \in RunStates =>
      \E p \in Provisioners : /\ work[p] \in Imports /\ SiteOf(work[p]) = n
                             /\ ppc[p] \in {"running", "ended", "completing", "reported"}

PhaseInv ==
    /\ \A i \in Imports : ImportPhase(i)
    /\ \A n \in Installations : SitePhase(n)
    /\ \A s \in Supervisors : cur[s] \notin batch[s]

LEMMA AdjustedIsFit ==
  ASSUME NEW c \in Configs
  PROVE  /\ getPreImportPatch(c) = NilPatch => FitForImport(c)
         /\ AdjustedForImport(c) => FitForImport(c)
<1>1. ASSUME getPreImportPatch(c) = NilPatch
      PROVE  FitForImport(c)
  <2>1. ToOverride(c) = {} /\ (IF c.Size # Size1000 THEN Size1000 ELSE Keep) = Keep
    BY <1>1 DEF getPreImportPatch, NilPatch
  <2> QED BY <2>1 DEF ToOverride, FitForImport, Size1000, Keep
<1>2. ASSUME AdjustedForImport(c)
      PROVE  FitForImport(c)
  BY <1>2 DEF AdjustedForImport, FitForImport, getInstallationEnvValue, EnvKeys,
     ForImport, Unset
<1> QED BY <1>1, <1>2

\* A step that is not about i.
LEMMA PhaseStays ==
  ASSUME NEW i \in Imports, ImportPhase(i),
         imports'[i].State = imports[i].State, outcomes'[i] = outcomes[i],
         Now(i)' = Now(i), config'[SiteOf(i)] = config[SiteOf(i)],
         \A p \in Provisioners : work'[p] = i =>
            work[p] = i /\ ppc'[p] = ppc[p] /\ pcopy'[p] = pcopy[p],
         \A s \in Supervisors :
            /\ Listed(s, i)' => Listed(s, i) /\ copy'[s][i].State = copy[s][i].State
            /\ cur'[s] = i => \/ pc'[s] = "locked"
                              \/ /\ cur[s] = i /\ pc'[s] = pc[s]
                                 /\ copy'[s][i].State = copy[s][i].State
  PROVE  ImportPhase(i)'
<1> SUFFICES ASSUME Now(i)' # "deleted"
             PROVE  /\ RowPhase(i)'
                    /\ \A p \in Provisioners : WorkPhase(p, i)'
                    /\ \A s \in Supervisors : HandPhase(s, i)' /\ WritePhase(s, i)'
  BY DEF ImportPhase
<1>1. /\ RowPhase(i)
      /\ \A p \in Provisioners : WorkPhase(p, i)
      /\ \A s \in Supervisors : HandPhase(s, i) /\ WritePhase(s, i)
  BY DEF ImportPhase
<1>2. (Ran(i)' <=> Ran(i)) /\ (Fit(i)' <=> Fit(i))
  BY DEF Ran, Fit
<1>3. RowPhase(i)'
  BY <1>1, <1>2 DEF RowPhase, Waiting, Offered, Ended, Noticed, Past
<1>4. \A p \in Provisioners : WorkPhase(p, i)'
  BY <1>1, <1>2 DEF WorkPhase
<1>5. \A s \in Supervisors : HandPhase(s, i)'
  BY <1>1, <1>2 DEF HandPhase
<1>6. \A s \in Supervisors : WritePhase(s, i)'
  BY <1>1, <1>2 DEF WritePhase
<1> QED BY <1>3, <1>4, <1>5, <1>6

\* The row, the site and the work on i stay, whatever a supervisor decides.
LEMMA RowPhaseStays ==
  ASSUME NEW i \in Imports, RowPhase(i), \A p \in Provisioners : WorkPhase(p, i),
         imports'[i].State = imports[i].State, UNCHANGED <<ppc, work, pcopy, outcomes>>,
         SitesKept
  PROVE  RowPhase(i)' /\ \A p \in Provisioners : WorkPhase(p, i)'
<1>1. (Ran(i)' <=> Ran(i)) /\ (Fit(i)' <=> Fit(i)) /\ Now(i)' = Now(i)
  BY DEF Ran, Fit, Now, SitesKept
<1>2. RowPhase(i)'
  BY <1>1 DEF RowPhase, Waiting, Offered, Ended, Noticed, Past
<1>3. \A p \in Provisioners : WorkPhase(p, i)'
  BY <1>1 DEF WorkPhase
<1> QED BY <1>2, <1>3

\* A supervisor saves what the phase of the import lets it save.
LEMMA SavedPhase ==
  ASSUME TypeOK, FreshInv, NEW s \in Supervisors, NEW i \in Imports, cur[s] = i,
         RowPhase(i), \A p \in Provisioners : WorkPhase(p, i), WritePhase(s, i),
         pc[s] \in {"save", "saveComplete", "deleteBundle"}, RowSaved(s),
         UNCHANGED <<ppc, work, pcopy, outcomes>>, SitesKept
  PROVE  /\ RowPhase(i)' /\ \A p \in Provisioners : WorkPhase(p, i)'
         /\ pc[s] \in {"saveComplete", "deleteBundle"} => imports'[i].State = InProgress
<1>1. (Ran(i)' <=> Ran(i)) /\ (Fit(i)' <=> Fit(i)) /\ Now(i)' = Now(i)
  BY DEF Ran, Fit, Now, SitesKept
<1>2. /\ imports'[i].State = copy[s][i].State
      /\ copy[s][i].State \in Preparing => imports[i].State \in Preparing
      /\ DecisionFresh(s)
  BY DEF RowSaved, FreshInv, CopyFresh, InHand
<1>3. CASE pc[s] \in {"saveComplete", "deleteBundle"}
  <2>1. imports'[i].State = InProgress /\ imports[i].State = InProgress
    BY <1>2, <1>3 DEF DecisionFresh, WritePhase
  <2> QED BY <2>1, RowPhaseStays
<1>4. CASE pc[s] = "save"
  <2>1. RowPhase(i)'
    BY <1>1, <1>2, <1>4, StatesDiffer DEF RowPhase, Waiting, Offered, Ended, Noticed,
       Past, WritePhase, DecisionFresh, RestStates, RunStates
  <2>2. ASSUME NEW p \in Provisioners, work[p] = i
        PROVE  WorkPhase(p, i)'
    <3>1. /\ imports[i].State \notin Preparing /\ ppc[p] \in PLabels \ {"idle"}
      BY <2>2 DEF FreshInv, RowFresh, TypeOK
    <3>2. /\ imports[i].State = InProgress /\ copy[s][i].State = Complete
          /\ Now(i) = "import-complete"
      BY <1>2, <1>4, <2>2, <3>1, StatesDiffer DEF WritePhase, WorkPhase, DecisionFresh,
         PLabels, RestStates, RunStates
    <3> QED BY <1>1, <1>2, <2>2, <3>2, StatesDiffer DEF WorkPhase, RunStates
  <2>3. \A p \in Provisioners : WorkPhase(p, i)'
    <3>1. \A p \in Provisioners : work'[p] # i => WorkPhase(p, i)'
      BY DEF WorkPhase
    <3> QED BY <2>2, <3>1
  <2> QED BY <1>4, <2>1, <2>3
<1> QED BY <1>3, <1>4

\* A patch changes one installation, which is that of no other import.
LEMMA PatchedSite ==
  ASSUME OwnInstallations, TypeOK, NEW s \in Supervisors, NEW i \in Imports, cur[s] = i,
         Patched(s)
  PROVE  /\ Now(i)' = "updating"
         /\ \A j \in Imports \ {i} :
               Now(j)' = Now(j) /\ config'[SiteOf(j)] = config[SiteOf(j)]
         /\ \A n \in Installations : state'[n] # "updating" => state'[n] = state[n]
<1>1. /\ SiteOf(i) \in Installations /\ SiteOf(i) = Site(s)
      /\ \A j \in Imports \ {i} : SiteOf(j) # SiteOf(i) /\ SiteOf(j) \in Installations
  BY DEF OwnInstallations
<1>2. /\ state'[SiteOf(i)] = "updating"
      /\ \A n \in Installations \ {SiteOf(i)} : state'[n] = state[n] /\ config'[n] = config[n]
  BY <1>1 DEF Patched, TypeOK
<1> QED BY <1>1, <1>2 DEF Now

\* The import that a supervisor has in hand.
LEMMA WithImportPhase ==
  ASSUME OneSupervisor, OwnInstallations, TypeOK, FreshInv, PhaseInv,
         NEW s \in Supervisors, NEW i \in Imports, cur[s] = i, WithImport(s),
         UNCHANGED <<ppc, work, pcopy, outcomes>>
  PROVE  ImportPhase(i)'
<1> DEFINE Rows == RowPhase(i)' /\ \A p \in Provisioners : WorkPhase(p, i)'
           Hand == HandPhase(s, i)' /\ WritePhase(s, i)'
<1> SUFFICES ASSUME Now(i)' # "deleted"
             PROVE  Rows /\ Hand
  BY DEF ImportPhase, OneSupervisor
<1>1. SitesKept \/ (state[Site(s)] = "stable" /\ Patched(s))
  BY DEF WithImport, Passes, GivesUp, Asks, TurnsTo, Notices, Adjusts, FailsToAdjust,
     Saves, SavesCompleteAt, Completes
<1>2. /\ RowPhase(i) /\ HandPhase(s, i) /\ WritePhase(s, i)
      /\ \A p \in Provisioners : WorkPhase(p, i)
      /\ i \notin batch[s]
  <2>1. Now(i) # "deleted"
    BY <1>1 DEF Now, SitesKept
  <2> QED BY <2>1 DEF PhaseInv, ImportPhase
<1>3. /\ cur'[s] = i /\ UNCHANGED batch
  BY WithImportFresh
<1>4. /\ Listed(s, i) <=> pc[s] \in {"locked", "unlockAPI", "patch", "lockedPatch"}
      /\ Listed(s, i)' <=> pc'[s] \in {"locked", "unlockAPI", "patch", "lockedPatch"}
  BY <1>2, <1>3 DEF Listed
<1>5. SitesKept => (Fit(i)' <=> Fit(i)) /\ Now(i)' = Now(i) /\ Now(i) = state[Site(s)]
  BY DEF Fit, Now, SitesKept
<1>6. Ran(i)' <=> Ran(i)
  BY DEF Ran
<1>7. DecisionFresh(s) /\ CopyFresh(s, i) /\ RowFresh(i)
  BY DEF FreshInv
<1>8. SitesKept /\ RowStays(s) => Rows
  BY <1>2, RowPhaseStays DEF RowStays
<1>9. pc'[s] \in {"unlock", "relockToUnlock"} => Hand
  BY <1>4 DEF HandPhase, WritePhase
<1>10. CASE Passes(s)
  <2>1. /\ copy'[s][i] = copy[s][i] /\ imports'[i] = imports[i] /\ SitesKept /\ RowStays(s)
        /\ \/ pc'[s] = "unlock"
           \/ pc[s] = "unlockAPI" /\ pc'[s] = "lockedPatch"
           \/ pc[s] = "relockToSave" /\ pc'[s] = "save"
    BY <1>10 DEF Passes, RowStays, HandStays
  <2>2. HandPhase(s, i)'
    BY <1>2, <1>4, <1>6, <2>1 DEF HandPhase
  <2>3. WritePhase(s, i)'
    BY <1>2, <1>3, <1>5, <2>1 DEF WritePhase
  <2> QED BY <1>8, <2>1, <2>2, <2>3
<1>11. ~GivesUp(s)
  BY <1>5 DEF GivesUp
<1>12. CASE Asks(s)
  <2>1. /\ copy'[s][i] = copy[s][i] /\ imports'[i] = imports[i] /\ SitesKept /\ RowStays(s)
        /\ pc[s] = "locked" /\ pc'[s] \in {"unlockAPI", "patch"} /\ Now(i) = "stable"
    BY <1>12 DEF Asks, RowStays, HandStays, Now
  <2>2. HandPhase(s, i)'
    BY <1>2, <1>4, <1>6, <2>1 DEF HandPhase
  <2>3. WritePhase(s, i)'
    BY <1>5, <2>1 DEF WritePhase
  <2> QED BY <1>8, <2>1, <2>2, <2>3
<1>13. ASSUME NEW new \in ImportStates, TurnsTo(s, new)
       PROVE  Rows /\ Hand
  <2>1. /\ copy'[s][i].State = new /\ imports'[i] = imports[i] /\ SitesKept /\ RowStays(s)
        /\ pc[s] = "locked" /\ pc'[s] = "save" /\ Now(i) = "stable" /\ Turns(s, new)
    BY <1>13 DEF TurnsTo, RowStays, HandTurns, Moves, Now
  <2>2. HandPhase(s, i)'
    BY <1>4, <2>1 DEF HandPhase
  <2>3. \/ copy[s][i].State \in Preparing
        \/ /\ copy[s][i].State \in {Complete, PostAdjustment}
           /\ imports[i].State = copy[s][i].State
        \/ copy[s][i].State = InProgress
    <3>1. ~(imports[i].State = InProgress /\ Ran(i))
      BY <1>2, <2>1, StatesDiffer DEF RowPhase, Waiting, Offered, Ended, Noticed, Past,
         RunStates
    <3> QED BY <1>2, <1>4, <2>1, <3>1 DEF HandPhase
  <2>4. new = InProgress => Fit(i)
    <3>1. config[Site(s)] \in Configs /\ config[Site(s)] = config[SiteOf(i)]
      BY DEF TypeOK
    <3>2. new = InProgress => \/ getPreImportPatch(config[Site(s)]) = NilPatch
                             \/ AdjustedForImport(config[Site(s)])
      BY <2>1, StatesDiffer DEF Turns, Verdict, Preparing
    <3> QED BY <3>1, <3>2, AdjustedIsFit DEF Fit
  <2>5. \/ new \in Preparing
        \/ new = InProgress
        \/ new \in {Complete, Succeeded, Failed} /\ imports[i].State = PostAdjustment
        \/ new \in {Succeeded, Failed} /\ imports[i].State = Complete
    BY <2>1, <2>3, StatesDiffer DEF Turns, Verdict, Preparing
  <2>6. WritePhase(s, i)'
    BY <1>5, <2>1, <2>4, <2>5 DEF WritePhase, RestStates
  <2> QED BY <1>8, <2>1, <2>2, <2>6
<1>14. CASE Notices(s)
  <2>1. /\ pc[s] = "locked" /\ pc'[s] = "saveComplete" /\ imports'[i] = imports[i]
        /\ SitesKept /\ RowStays(s) /\ copy[s][i].State = InProgress
        /\ Now(i) = "import-complete"
    BY <1>14 DEF Notices, RowStays, Moves, Now
  <2>2. imports[i].State = InProgress
    BY <1>2, <1>4, <2>1, StatesDiffer DEF HandPhase
  <2>3. HandPhase(s, i)'
    BY <1>4, <2>1 DEF HandPhase
  <2>4. WritePhase(s, i)'
    BY <1>5, <2>1, <2>2 DEF WritePhase
  <2> QED BY <1>8, <2>1, <2>3, <2>4
<1>15. ASSUME Patched(s), state[Site(s)] = "stable", RowStays(s),
              pc[s] \in {"patch", "lockedPatch"}
       PROVE  /\ Rows /\ Now(i)' = "updating"
              /\ copy[s][i].State = Requested \/
                    (copy[s][i].State = Complete /\ imports[i].State = Complete)
  <2>1. /\ Now(i)' = "updating" /\ Now(i) = "stable" /\ imports'[i] = imports[i]
    BY <1>15, PatchedSite DEF Now, RowStays
  <2>2. \/ copy[s][i].State = Requested /\ imports[i].State \in Preparing
        \/ copy[s][i].State = Complete /\ imports[i].State \in {InProgress, Complete}
    BY <1>2, <1>4, <1>7, <1>15, StatesDiffer DEF DecisionFresh, CopyFresh, InHand,
       HandPhase, Preparing
  <2>3. \/ Waiting(i) /\ copy[s][i].State = Requested
        \/ Past(i) /\ copy[s][i].State = Complete /\ imports[i].State = Complete
    <3>1. copy[s][i].State = Complete /\ imports[i].State = InProgress => Ran(i)
      BY <1>2, <1>4, <1>15, StatesDiffer DEF HandPhase
    <3> QED BY <1>2, <2>1, <2>2, <3>1, StatesDiffer DEF RowPhase, Waiting, Offered,
               Ended, Noticed, Past, RunStates
  <2>4. RowPhase(i)'
    BY <1>6, <2>1, <2>3 DEF RowPhase, Waiting, Past, RestStates
  <2>5. \A p \in Provisioners : work[p] # i
    <3>1. ASSUME NEW p \in Provisioners, work[p] = i
          PROVE  ppc[p] \in PLabels \ {"idle"}
      BY <3>1 DEF TypeOK
    <3> QED BY <1>2, <2>1, <2>2, <2>3, <3>1, StatesDiffer DEF WorkPhase, PLabels,
               RunStates, Waiting, Past
  <2>6. \A p \in Provisioners : WorkPhase(p, i)'
    BY <2>5 DEF WorkPhase
  <2> QED BY <2>1, <2>3, <2>4, <2>6 DEF Past
<1>16. CASE Adjusts(s)
  <2>1. /\ pc'[s] \in {"save", "relockToSave"} /\ imports'[i] = imports[i]
        /\ copy'[s][i].State = AfterAdjustment(copy[s][i].State)
        /\ Patched(s) /\ state[Site(s)] = "stable" /\ RowStays(s)
        /\ pc[s] \in {"patch", "lockedPatch"}
    BY <1>16 DEF Adjusts, RowStays, HandTurns
  <2>2. \/ copy'[s][i].State = PreAdjustment
        \/ copy'[s][i].State = PostAdjustment /\ imports[i].State = Complete
    BY <1>15, <2>1, StatesDiffer DEF AfterAdjustment
  <2>3. HandPhase(s, i)'
    BY <1>4, <2>1 DEF HandPhase
  <2>4. WritePhase(s, i)'
    BY <1>15, <2>1, <2>2 DEF WritePhase, RestStates, Preparing
  <2> QED BY <1>15, <2>1, <2>3, <2>4
<1>17. CASE FailsToAdjust(s)
  <2>1. /\ pc'[s] \in {"unlock", "relockToUnlock"} /\ RowStays(s)
        /\ pc[s] \in {"patch", "lockedPatch"}
        /\ SitesKept \/ (state[Site(s)] = "stable" /\ Patched(s))
    BY <1>17 DEF FailsToAdjust
  <2> QED BY <1>8, <1>9, <1>15, <2>1
<1>18. CASE Saves(s) \/ SavesCompleteAt(s) \/ Completes(s)
  <2>1. /\ SitesKept /\ pc[s] \in {"save", "saveComplete", "deleteBundle"}
        /\ RowSaved(s) \/ (RowStays(s) /\ (pc[s] # "saveComplete" \/ pc'[s] = "unlock"))
        /\ \/ pc'[s] = "unlock"
           \/ pc[s] = "saveComplete" /\ pc'[s] = "deleteBundle"
           \/ /\ pc[s] \in {"saveComplete", "deleteBundle"} /\ pc'[s] = "save"
              /\ copy'[s][i].State = Complete
    BY <1>18 DEF Saves, SavesCompleteAt, Completes, Moves, HandTurns
  <2>2. /\ Rows
        /\ pc[s] \in {"saveComplete", "deleteBundle"} => imports'[i].State = InProgress
    <3>1. CASE RowSaved(s)
      BY <1>2, <2>1, <3>1, SavedPhase
    <3>2. CASE RowStays(s)
      BY <1>2, <1>8, <2>1, <3>2 DEF RowStays, WritePhase
    <3> QED BY <2>1, <3>1, <3>2
  <2>3. pc[s] \in {"saveComplete", "deleteBundle"} => Now(i)' = "import-complete"
    BY <1>2, <1>5, <2>1 DEF WritePhase
  <2>4. HandPhase(s, i)'
    BY <1>4, <2>1 DEF HandPhase
  <2>5. WritePhase(s, i)'
    BY <2>1, <2>2, <2>3 DEF WritePhase
  <2> QED BY <2>2, <2>4, <2>5
<1> HIDE DEF Rows, Hand
<1> QED
  BY <1>10, <1>11, <1>12, <1>13, <1>14, <1>16, <1>17, <1>18 DEF WithImport

LEMMA SupervisePhase ==
  ASSUME OneSupervisor, OwnInstallations, TypeOK, FreshInv, PhaseInv,
         NEW s \in Supervisors, Supervise(s) \/ Crash(s)
  PROVE  PhaseInv'
<1>1. UNCHANGED <<ppc, work, pcopy, outcomes>>
  BY SuperviseKeeps
<1>2. ASSUME \A n \in Installations : state'[n] \in RunStates => state'[n] = state[n],
             \A i \in Imports : ImportPhase(i)', cur'[s] \notin batch'[s]
      PROVE  PhaseInv'
  BY <1>1, <1>2 DEF PhaseInv, SitePhase, OneSupervisor
<1>3. SitesKept => /\ \A n \in Installations : state'[n] \in RunStates => state'[n] = state[n]
                   /\ \A i \in Imports : Now(i)' = Now(i)
                                       /\ config'[SiteOf(i)] = config[SiteOf(i)]
  BY DEF SitesKept, Now
<1>4. cur[s] \notin batch[s] /\ \A i \in Imports : ImportPhase(i)
  BY DEF PhaseInv
<1>5. CASE Lists(s)
  <2>1. /\ SitesKept /\ imports' = imports /\ pc'[s] = "batch" /\ cur'[s] = NoImport
        /\ \A i \in batch'[s] : /\ copy'[s][i] = imports[i]
                                /\ imports[i].State \in AllImportStatesPendingWork
    BY <1>5 DEF Lists
  <2>2. batch'[s] \subseteq Imports
    BY TypeStep DEF Next, TypeOK
  <2>3. NoImport \notin Imports
    BY ConstantsAssumption
  <2>4. ASSUME NEW i \in Imports
        PROVE  ImportPhase(i)'
    <3> SUFFICES ASSUME Now(i)' # "deleted"
                 PROVE  /\ RowPhase(i)' /\ \A p \in Provisioners : WorkPhase(p, i)'
                        /\ HandPhase(s, i)' /\ WritePhase(s, i)'
      BY DEF ImportPhase, OneSupervisor
    <3>1. RowPhase(i) /\ \A p \in Provisioners : WorkPhase(p, i)
      BY <1>3, <1>4, <2>1 DEF ImportPhase
    <3>2. RowPhase(i)' /\ \A p \in Provisioners : WorkPhase(p, i)'
      BY <1>1, <2>1, <3>1, RowPhaseStays
    <3>3. HandPhase(s, i)'
      BY <2>1, <2>3 DEF HandPhase, Listed, AllImportStatesPendingWork, Preparing
    <3>4. WritePhase(s, i)'
      BY <2>1, <2>3 DEF WritePhase
    <3> QED BY <3>2, <3>3, <3>4
  <2> QED BY <1>2, <1>3, <2>1, <2>2, <2>3, <2>4
<1>6. CASE Wins(s) \/ Drops(s)
  <2>1. /\ SitesKept /\ \A i \in Imports : imports'[i].State = imports[i].State
        /\ cur'[s] \notin batch'[s]
    <3>1. batch[s] \subseteq Imports /\ NoImport \notin Imports
      BY ConstantsAssumption DEF TypeOK
    <3> QED BY <1>6, <3>1 DEF Wins, Drops, Alike
  <2>2. \A i \in Imports : /\ Listed(s, i)' => Listed(s, i) /\ copy'[s][i].State = copy[s][i].State
                           /\ cur'[s] = i => pc'[s] = "locked"
    BY <1>6, ConstantsAssumption DEF Wins, Drops, Listed, Alike
  <2>3. \A i \in Imports : ImportPhase(i)'
    BY <1>1, <1>3, <1>4, <2>1, <2>2, PhaseStays DEF OneSupervisor
  <2> QED BY <1>2, <1>3, <2>1, <2>3
<1>7. CASE cur[s] \in Imports /\ WithImport(s)
  <2> PICK i \in Imports : cur[s] = i
    BY <1>7
  <2>1. /\ UNCHANGED <<cur, batch>>
        /\ \A j \in Imports \ {i} : imports'[j] = imports[j] /\ copy'[s][j] = copy[s][j]
    BY <1>7, WithImportFresh
  <2>2. SitesKept \/ Patched(s)
    BY <1>7 DEF WithImport, Passes, GivesUp, Asks, TurnsTo, Notices, Adjusts,
       FailsToAdjust, Saves, SavesCompleteAt, Completes
  <2>3. /\ \A j \in Imports \ {i} :
              Now(j)' = Now(j) /\ config'[SiteOf(j)] = config[SiteOf(j)]
        /\ \A n \in Installations : state'[n] \in RunStates => state'[n] = state[n]
    <3>1. CASE Patched(s)
      BY <3>1, PatchedSite DEF RunStates
    <3> QED BY <1>3, <2>2, <3>1
  <2>4. ImportPhase(i)'
    BY <1>1, <1>7, WithImportPhase
  <2>5. \A j \in Imports \ {i} : Listed(s, j)' => Listed(s, j)
    BY <2>1 DEF Listed
  <2>6. \A j \in Imports \ {i} : ImportPhase(j)'
    BY <1>1, <1>4, <2>1, <2>3, <2>5, PhaseStays DEF OneSupervisor
  <2> QED BY <1>2, <1>4, <2>1, <2>3, <2>4, <2>6
<1> QED BY <1>5, <1>6, <1>7, SuperviseMoves

\* A step of the Cloud at one installation.
LEMMA SiteStep ==
  ASSUME TypeOK, FreshInv, PhaseInv, NEW n \in Installations, Reconcile(n) \/ Delete(n)
  PROVE  PhaseInv'
<1>1. UNCHANGED <<imports, pc, batch, copy, cur, config, ppc, work, pcopy, outcomes>>
  BY DEF Reconcile, Delete
<1>2. /\ \/ state[n] = "updating" /\ state'[n] = "stable"
         \/ state'[n] = "deleted"
      /\ \A m \in Installations \ {n} : state'[m] = state[m]
  BY DEF Reconcile, Delete, SetState, TypeOK
<1>3. \A m \in Installations : SitePhase(m)'
  BY <1>1, <1>2 DEF PhaseInv, SitePhase, RunStates
<1>4. ASSUME NEW i \in Imports
      PROVE  ImportPhase(i)'
  <2>1. SiteOf(i) \in Installations /\ ImportPhase(i)
    BY DEF PhaseInv
  <2>2. CASE SiteOf(i) # n
    <3>1. Now(i)' = Now(i)
      BY <1>2, <2>1, <2>2 DEF Now
    <3>2. \A s \in Supervisors : Listed(s, i)' => Listed(s, i)
      BY <1>1 DEF Listed
    <3> QED BY <1>1, <2>1, <3>1, <3>2, PhaseStays
  <2>3. CASE state'[n] = "deleted" /\ SiteOf(i) = n
    BY <2>3 DEF ImportPhase, Now
  <2>4. CASE state[n] = "updating" /\ state'[n] = "stable" /\ SiteOf(i) = n
    <3>1. Now(i) = "updating" /\ Now(i)' = "stable"
      BY <2>4 DEF Now
    <3>2. /\ RowPhase(i) /\ \A p \in Provisioners : WorkPhase(p, i)
          /\ \A s \in Supervisors : HandPhase(s, i) /\ WritePhase(s, i)
      BY <2>1, <3>1 DEF ImportPhase
    <3>3. (Ran(i)' <=> Ran(i)) /\ (Fit(i)' <=> Fit(i))
      BY <1>1 DEF Ran, Fit
    <3>4. RowPhase(i)'
      BY <1>1, <3>1, <3>2, <3>3 DEF RowPhase, Waiting, Offered, Ended, Noticed, Past,
         RestStates, RunStates
    <3>5. \A p \in Provisioners : WorkPhase(p, i)'
      BY <1>1, <3>1, <3>2, <3>3 DEF WorkPhase, RunStates
    <3>6. \A s \in Supervisors : HandPhase(s, i)'
      BY <1>1, <3>2, <3>3 DEF HandPhase, Listed
    <3>7. \A s \in Supervisors : WritePhase(s, i)'
      BY <1>1, <3>1, <3>2, <3>3 DEF WritePhase, RestStates
    <3> QED BY <3>4, <3>5, <3>6, <3>7 DEF ImportPhase
  <2> QED BY <1>2, <2>2, <2>3, <2>4
<1> QED BY <1>1, <1>3, <1>4 DEF PhaseInv

\* What a supervisor has in hand goes on being true of i.
LEMMA HandsStay ==
  ASSUME NEW i \in Imports, UNCHANGED <<session, config>>,
         imports'[i].State = imports[i].State, Now(i)' = Now(i), Ran(i) => Ran(i)',
         NEW s \in Supervisors, HandPhase(s, i), WritePhase(s, i)
  PROVE  HandPhase(s, i)' /\ WritePhase(s, i)'
<1>1. (Listed(s, i)' <=> Listed(s, i)) /\ (Fit(i)' <=> Fit(i))
  BY DEF Listed, Fit
<1>2. HandPhase(s, i)'
  BY <1>1 DEF HandPhase
<1>3. WritePhase(s, i)'
  BY <1>1 DEF WritePhase
<1> QED BY <1>2, <1>3

\* A provisioner selects the one import that waits for its run.
LEMMA SelectsPhase ==
  ASSUME OneProvisioner, TypeOK, SpentInv, PhaseInv, NEW p \in Provisioners,
         Selects(p), UNCHANGED <<session, config, outcomes, state>>
  PROVE  PhaseInv'
<1> PICK i \in Imports : i = work'[p] /\ i \in ReadyImports
  BY DEF Selects, ReadyImports, TypeOK
<1>1. /\ imports' = imports /\ ppc[p] = "idle" /\ ppc'[p] = "selected"
      /\ work[p] = NoImport /\ pcopy'[p] = imports[i]
  BY DEF Selects
<1>2. \A q \in Provisioners : q = p
  BY DEF OneProvisioner
<1>3. \A n \in Installations : state[n] \notin RunStates
  BY <1>1, <1>2, ConstantsAssumption DEF PhaseInv, SitePhase
<1>4. /\ \A n \in Installations : SitePhase(n)'
      /\ \A s \in Supervisors : cur'[s] \notin batch'[s]
  BY <1>3 DEF PhaseInv, SitePhase
<1>5. \A j \in Imports : ImportPhase(j)
  BY DEF PhaseInv
<1>6. \A j \in Imports \ {i} : ImportPhase(j)'
  <2> SUFFICES ASSUME NEW j \in Imports, j # i
               PROVE  ImportPhase(j)'
    OBVIOUS
  <2>1. Now(j)' = Now(j) /\ \A s \in Supervisors : Listed(s, j)' => Listed(s, j)
    BY DEF Now, Listed
  <2> QED BY <1>1, <1>2, <1>5, <2>1, PhaseStays
<1>7. ImportPhase(i)'
  <2> SUFFICES ASSUME Now(i)' # "deleted"
               PROVE  /\ RowPhase(i)' /\ WorkPhase(p, i)'
                      /\ \A s \in Supervisors : HandPhase(s, i)' /\ WritePhase(s, i)'
    BY <1>2 DEF ImportPhase
  <2>1. Now(i)' = Now(i) /\ (Ran(i)' <=> Ran(i)) /\ (Fit(i)' <=> Fit(i))
    BY DEF Now, Ran, Fit
  <2>2. RowPhase(i) /\ \A s \in Supervisors : HandPhase(s, i) /\ WritePhase(s, i)
    BY <1>5, <2>1 DEF ImportPhase
  <2>3. RowPhase(i)'
    BY <1>1, <2>1, <2>2 DEF RowPhase, Waiting, Offered, Ended, Noticed, Past
  <2>4. \A s \in Supervisors : HandPhase(s, i)' /\ WritePhase(s, i)'
    BY <1>1, <2>1, <2>2, HandsStay
  <2>5. imports[i].State = InProgress /\ ~Ran(i)
    BY StatesDiffer DEF ReadyImports, SpentInv, RunSpent, Spent
  <2>6. Now(i) = "stable"
    <3>1. Now(i) \notin RunStates
      BY <1>3 DEF Now
    <3> QED BY <2>2, <2>5, <3>1, StatesDiffer DEF RowPhase, Waiting, Offered, Ended,
               Noticed, Past, RunStates
  <2>7. WorkPhase(p, i)'
    BY <1>1, <2>1, <2>5, <2>6 DEF WorkPhase
  <2> QED BY <2>3, <2>4, <2>7
<1> QED BY <1>4, <1>6, <1>7 DEF PhaseInv

\* The claim of an import, its start, its release and the reading of its row
\* leave it in its phase.
LEMMA ClaimPhase ==
  ASSUME TypeOK, NEW p \in Provisioners, NEW i \in Imports, work[p] = i,
         UNCHANGED <<session, config, outcomes, state>>,
         Claims(p) \/ LosesClaim(p) \/ Starts(p) \/ StartFails(p) \/ Reads(p) \/ Releases(p),
         RowPhase(i), WorkPhase(p, i),
         \A s \in Supervisors : HandPhase(s, i) /\ WritePhase(s, i)
  PROVE  /\ RowPhase(i)' /\ WorkPhase(p, i)'
         /\ \A s \in Supervisors : HandPhase(s, i)' /\ WritePhase(s, i)'
<1>1. Now(i)' = Now(i) /\ (Ran(i)' <=> Ran(i)) /\ (Fit(i)' <=> Fit(i))
  BY DEF Now, Ran, Fit
<1>2. imports'[i].State = imports[i].State
  BY DEF Claims, LosesClaim, Starts, StartFails, Reads, Releases, SavesClaim, SavesStart,
     SavesRelease, TableStays, SameButOwner, WorkPhase
<1>3. RowPhase(i)'
  BY <1>1, <1>2 DEF RowPhase, Waiting, Offered, Ended, Noticed, Past
<1>4. \A s \in Supervisors : HandPhase(s, i)' /\ WritePhase(s, i)'
  BY <1>1, <1>2, HandsStay
<1>5. WorkPhase(p, i)'
  <2>1. CASE work'[p] # i
    BY <2>1 DEF WorkPhase
  <2>2. CASE Claims(p) \/ (Starts(p) /\ ppc'[p] = "claimed")
    <3>1. /\ ~Ran(i)' /\ imports'[i].State = InProgress /\ Now(i)' = "stable"
          /\ pcopy'[p].State = InProgress /\ ppc'[p] \in {"won", "claimed"}
      BY <1>1, <1>2, <2>2 DEF WorkPhase, Claims, Starts, Continues, Quits
    <3> QED BY <3>1 DEF WorkPhase
  <2>3. CASE Reads(p) /\ ppc'[p] = "releasing"
    <3>1. /\ ~Ran(i)' /\ imports'[i].State = InProgress /\ Now(i)' = "stable"
          /\ pcopy'[p].State = InProgress
      BY <1>1, <1>2, <2>3 DEF WorkPhase, Reads, Continues
    <3> QED BY <2>3, <3>1 DEF WorkPhase
  <2>4. CASE Reads(p) /\ ppc'[p] = "completing"
    <3>1. /\ Ran(i)' /\ Now(i)' \in RunStates /\ pcopy'[p] = imports[i]
      BY <1>1, <2>4 DEF WorkPhase, Reads, Continues
    <3>2. imports[i].State \in {InProgress, Complete}
      BY <1>1, <3>1 DEF RowPhase, Waiting, Offered, Ended, Noticed, Past, RestStates,
         RunStates
    <3> QED BY <1>2, <2>4, <3>1, <3>2 DEF WorkPhase
  <2> QED
    BY <2>1, <2>2, <2>3, <2>4, ConstantsAssumption DEF LosesClaim, Starts, StartFails,
       Reads, Releases, Continues, Quits
<1> QED BY <1>3, <1>4, <1>5

\* A report is saved over a row that the supervisor may have turned to complete.
LEMMA ReportPhase ==
  ASSUME TypeOK, NEW p \in Provisioners, NEW i \in Imports, work[p] = i,
         UNCHANGED <<session, config, outcomes, state>>, Reports(p),
         RowPhase(i), WorkPhase(p, i),
         \A s \in Supervisors : HandPhase(s, i) /\ WritePhase(s, i)
  PROVE  /\ RowPhase(i)' /\ WorkPhase(p, i)'
         /\ \A s \in Supervisors : HandPhase(s, i)' /\ WritePhase(s, i)'
<1>1. Now(i)' = Now(i) /\ (Ran(i)' <=> Ran(i)) /\ (Fit(i)' <=> Fit(i))
  BY DEF Now, Ran, Fit
<1>2. /\ ppc[p] = "completing" /\ ppc'[p] \in {"reported", "ended"}
      /\ Ran(i) /\ Now(i) \in RunStates
  BY DEF Reports, Continues, WorkPhase
<1>3. Ended(i) \/ Noticed(i)
  BY <1>2 DEF RowPhase, Waiting, Offered, Past, RestStates, RunStates
<1>4. \/ imports'[i].State = imports[i].State
      \/ imports'[i].State = InProgress /\ Noticed(i)
  BY <1>2, <1>3 DEF Reports, SavesReport, TableStays, WorkPhase, Ended
<1>5. WorkPhase(p, i)'
  BY <1>1, <1>2 DEF WorkPhase
<1>6. CASE imports'[i].State = imports[i].State
  <2>1. RowPhase(i)'
    BY <1>1, <1>6 DEF RowPhase, Waiting, Offered, Ended, Noticed, Past
  <2> QED BY <1>1, <1>5, <1>6, <2>1, HandsStay
<1>7. CASE imports'[i].State = InProgress /\ Noticed(i)
  <2>1. Ended(i)'
    BY <1>1, <1>7 DEF Ended, Noticed, RunStates
  <2>2. ASSUME NEW s \in Supervisors
        PROVE  HandPhase(s, i)' /\ WritePhase(s, i)'
    <3>1. HandPhase(s, i)'
      BY <1>1, <1>7, StatesDiffer DEF HandPhase, Listed, Noticed
    <3>2. WritePhase(s, i)'
      BY <1>1, <1>7, StatesDiffer DEF WritePhase, Noticed, RestStates
    <3> QED BY <3>1, <3>2
  <2> QED BY <1>5, <2>1, <2>2 DEF RowPhase
<1> QED BY <1>4, <1>6, <1>7

\* A run begins only on an installation that no supervisor is about to patch.
LEMMA BeginPhase ==
  ASSUME TypeOK, FreshInv, NEW p \in Provisioners, NEW i \in Imports, work[p] = i,
         UNCHANGED <<session, config, outcomes>>, Begins(p),
         RowPhase(i), WorkPhase(p, i),
         \A s \in Supervisors : HandPhase(s, i) /\ WritePhase(s, i)
  PROVE  /\ RowPhase(i)' /\ WorkPhase(p, i)'
         /\ \A s \in Supervisors : HandPhase(s, i)' /\ WritePhase(s, i)'
<1>1. /\ ~Ran(i) /\ ~Ran(i)' /\ (Fit(i)' <=> Fit(i))
      /\ imports[i].State = InProgress /\ imports'[i].State = InProgress
      /\ Now(i) = "stable" /\ Now(i)' = "import-in-progress"
      /\ work'[p] = i /\ ppc'[p] = "running"
  <2>1. SiteOf(i) \in Installations
    OBVIOUS
  <2> QED BY <2>1 DEF Begins, Continues, TableStays, WorkPhase, Ran, Fit, Now, SetState,
           TypeOK
<1>2. Offered(i)'
  BY <1>1, StatesDiffer DEF RowPhase, Waiting, Offered, Ended, Noticed, Past
<1>3. WorkPhase(p, i)'
  BY <1>1 DEF WorkPhase
<1>4. ASSUME NEW s \in Supervisors
      PROVE  HandPhase(s, i)' /\ WritePhase(s, i)'
  <2>1. HandPhase(s, i)'
    BY <1>1 DEF HandPhase, Listed
  <2>2. DecisionFresh(s) /\ CopyFresh(s, i)
    BY DEF FreshInv
  <2>3. ~(cur[s] = i /\ pc[s] \in {"unlockAPI", "patch", "lockedPatch"})
    BY <1>1, <2>2, StatesDiffer DEF DecisionFresh, CopyFresh, InHand, HandPhase, Listed,
       Preparing
  <2>4. cur[s] = i /\ pc[s] \in {"relockToSave", "save"} => copy[s][i].State \in Preparing
    BY <1>1, <2>2, StatesDiffer DEF DecisionFresh, WritePhase
  <2>5. ~(cur[s] = i /\ pc[s] \in {"saveComplete", "deleteBundle"})
    BY <1>1 DEF WritePhase
  <2>6. WritePhase(s, i)'
    BY <2>3, <2>4, <2>5 DEF WritePhase
  <2> QED BY <2>1, <2>6
<1> QED BY <1>2, <1>3, <1>4 DEF RowPhase

\* A run has ended.
LEMMA EndPhase ==
  ASSUME TypeOK, NEW p \in Provisioners, NEW i \in Imports, work[p] = i,
         UNCHANGED <<session, config>>, Ends(p),
         RowPhase(i), WorkPhase(p, i),
         \A s \in Supervisors : HandPhase(s, i) /\ WritePhase(s, i)
  PROVE  /\ RowPhase(i)' /\ WorkPhase(p, i)'
         /\ \A s \in Supervisors : HandPhase(s, i)' /\ WritePhase(s, i)'
<1>1. /\ ~Ran(i) /\ Ran(i)' /\ (Fit(i)' <=> Fit(i))
      /\ imports[i].State = InProgress /\ imports'[i].State = imports[i].State
      /\ Now(i) = "import-in-progress" /\ Now(i)' = Now(i)
      /\ work'[p] = i /\ ppc'[p] = "ended"
  BY DEF Ends, Continues, TableStays, WorkPhase, Ran, Fit, Now
<1>2. Ended(i)'
  BY <1>1, StatesDiffer DEF RowPhase, Waiting, Offered, Ended, Noticed, Past, RestStates,
     RunStates
<1>3. WorkPhase(p, i)'
  BY <1>1 DEF WorkPhase, RunStates
<1>4. \A s \in Supervisors : HandPhase(s, i)' /\ WritePhase(s, i)'
  BY <1>1, HandsStay
<1> QED BY <1>2, <1>3, <1>4 DEF RowPhase

\* The installation shows the end of the run.
LEMMA ShowPhase ==
  ASSUME TypeOK, NEW p \in Provisioners, NEW i \in Imports, work[p] = i,
         UNCHANGED <<session, config, outcomes>>, ShowsEnd(p),
         RowPhase(i), WorkPhase(p, i),
         \A s \in Supervisors : HandPhase(s, i) /\ WritePhase(s, i)
  PROVE  /\ RowPhase(i)' /\ WorkPhase(p, i)'
         /\ \A s \in Supervisors : HandPhase(s, i)' /\ WritePhase(s, i)'
<1>1. /\ Ran(i) /\ Ran(i)' /\ (Fit(i)' <=> Fit(i))
      /\ imports'[i].State = imports[i].State
      /\ Now(i) = "import-in-progress" /\ Now(i)' = "import-complete"
      /\ work'[p] = i /\ ppc'[p] = ppc[p] /\ pcopy'[p] = pcopy[p]
      /\ ppc[p] \in {"ended", "completing", "reported"}
  <2>1. SiteOf(i) \in Installations
    OBVIOUS
  <2> QED BY <2>1 DEF ShowsEnd, Continues, TableStays, WorkPhase, Ran, Fit, Now, SetState,
           TypeOK
<1>2. Ended(i)'
  BY <1>1, StatesDiffer DEF RowPhase, Waiting, Offered, Ended, Noticed, Past, RestStates,
     RunStates
<1>3. WorkPhase(p, i)'
  BY <1>1 DEF WorkPhase, RunStates
<1>4. ASSUME NEW s \in Supervisors
      PROVE  HandPhase(s, i)' /\ WritePhase(s, i)'
  <2>1. HandPhase(s, i)'
    BY <1>1 DEF HandPhase, Listed
  <2>2. WritePhase(s, i)'
    BY <1>1 DEF WritePhase, RestStates
  <2> QED BY <2>1, <2>2
<1> QED BY <1>2, <1>3, <1>4 DEF RowPhase

\* The run is noted and the installation becomes stable.
LEMMA SettlePhase ==
  ASSUME TypeOK, NEW p \in Provisioners, NEW i \in Imports, work[p] = i,
         UNCHANGED <<session, config, outcomes>>, Settles(p),
         RowPhase(i), WorkPhase(p, i),
         \A s \in Supervisors : HandPhase(s, i) /\ WritePhase(s, i)
  PROVE  /\ RowPhase(i)' /\ WorkPhase(p, i)'
         /\ \A s \in Supervisors : HandPhase(s, i)' /\ WritePhase(s, i)'
<1>1. /\ Ran(i) /\ Ran(i)'
      /\ imports[i].State # InProgress /\ imports'[i].State = imports[i].State
      /\ Now(i) = "import-complete" /\ Now(i)' = "stable"
      /\ work'[p] = NoImport
  <2>1. SiteOf(i) \in Installations
    OBVIOUS
  <2> QED BY <2>1 DEF Settles, Quits, TableStays, WorkPhase, Ran, Fit, Now, SetState,
           TypeOK
<1>2. imports[i].State = Complete
  BY <1>1 DEF RowPhase, Waiting, Offered, Ended, Noticed, Past, RestStates
<1>3. Past(i)'
  BY <1>1, <1>2, StatesDiffer DEF Past, RestStates
<1>4. WorkPhase(p, i)'
  BY <1>1, ConstantsAssumption DEF WorkPhase
<1>5. ASSUME NEW s \in Supervisors
      PROVE  HandPhase(s, i)' /\ WritePhase(s, i)'
  <2>1. HandPhase(s, i)'
    BY <1>1 DEF HandPhase, Listed
  <2>2. WritePhase(s, i)'
    BY <1>1 DEF WritePhase, RestStates
  <2> QED BY <2>1, <2>2
<1> QED BY <1>3, <1>4, <1>5 DEF RowPhase

LEMMA ProvisionPhase ==
  ASSUME OneProvisioner, OwnInstallations, TypeOK, FreshInv, SpentInv, PhaseInv,
         NEW p \in Provisioners, Provision(p)
  PROVE  PhaseInv'
<1>1. UNCHANGED <<created, session, config>>
  BY OtherProvisioners
<1>2. \A q \in Provisioners : q = p
  BY DEF OneProvisioner
<1>3. CASE Selects(p) /\ outcomes' = outcomes /\ state' = state
  BY <1>1, <1>3, SelectsPhase
<1>4. CASE AtImport(p)
  <2> PICK i \in Imports : i = work[p]
    BY <1>4 DEF AtImport
  <2>1. /\ SiteOf(i) \in Installations /\ \A j \in Imports : ImportPhase(j)
        /\ \A n \in Installations : SitePhase(n)
    BY DEF PhaseInv
  <2>2. /\ work'[p] \in {i, NoImport}
        /\ \A n \in Installations \ {SiteOf(i)} : state'[n] = state[n]
        /\ \A j \in Imports \ {i} : imports'[j] = imports[j] /\ outcomes'[j] = outcomes[j]
        /\ Now(i) = "deleted" => Now(i)' = "deleted"
    <3>1. /\ work'[p] \in {i, NoImport}
          /\ \A j \in Imports \ {i} : imports'[j] = imports[j] /\ outcomes'[j] = outcomes[j]
      BY <1>4 DEF AtImport, Claims, LosesClaim, Starts, StartFails, Reads, Releases,
         Reports, Begins, Ends, ShowsEnd, Settles, Continues, Quits
    <3>2. \/ state' = state
          \/ SetState(SiteOf(i), "stable", "import-in-progress")
          \/ SetState(SiteOf(i), "import-in-progress", "import-complete")
          \/ SetState(SiteOf(i), "import-complete", "stable")
      BY <1>4 DEF AtImport, Begins, Ends, ShowsEnd, Settles
    <3>3. /\ \A n \in Installations \ {SiteOf(i)} : state'[n] = state[n]
          /\ Now(i) = "deleted" => Now(i)' = "deleted"
      BY <2>1, <3>2 DEF SetState, Now, TypeOK
    <3> QED BY <3>1, <3>3
  <2>3. \A j \in Imports \ {i} : ImportPhase(j)'
    <3> SUFFICES ASSUME NEW j \in Imports, j # i
                 PROVE  ImportPhase(j)'
      OBVIOUS
    <3>1. Now(j)' = Now(j) /\ \A s \in Supervisors : Listed(s, j)' => Listed(s, j)
      BY <1>1, <2>2 DEF Now, Listed, OwnInstallations
    <3>2. \A q \in Provisioners : work'[q] # j
      BY <1>2, <2>2, ConstantsAssumption
    <3> QED BY <1>1, <2>1, <2>2, <3>1, <3>2, PhaseStays
  <2>4. ImportPhase(i)'
    <3> SUFFICES ASSUME Now(i)' # "deleted"
                 PROVE  /\ RowPhase(i)' /\ WorkPhase(p, i)'
                        /\ \A s \in Supervisors : HandPhase(s, i)' /\ WritePhase(s, i)'
      BY <1>2 DEF ImportPhase
    <3>1. /\ RowPhase(i) /\ WorkPhase(p, i)
          /\ \A s \in Supervisors : HandPhase(s, i) /\ WritePhase(s, i)
      BY <2>1, <2>2 DEF ImportPhase
    <3> QED BY <1>1, <1>4, <3>1, ClaimPhase, ReportPhase, BeginPhase, EndPhase, ShowPhase,
               SettlePhase DEF AtImport, Ends
  <2>5. \A n \in Installations : SitePhase(n)'
    <3> SUFFICES ASSUME NEW n \in Installations, state'[n] \in RunStates
                 PROVE  /\ SiteOf(i) = n /\ work'[p] = i
                        /\ ppc'[p] \in {"running", "ended", "completing", "reported"}
      BY DEF SitePhase
    <3>1. CASE Begins(p) \/ ShowsEnd(p) \/ Settles(p)
      <4>1. state'[SiteOf(i)] # "stable" => Begins(p) \/ ShowsEnd(p)
        BY <2>1, <3>1 DEF Settles, SetState, TypeOK
      <4>2. ppc[p] \in {"claimed", "ended", "completing", "reported"}
        BY <3>1 DEF Begins, ShowsEnd, Settles
      <4>3. SiteOf(i) = n
        <5>1. ASSUME SiteOf(i) # n
              PROVE  state[n] \in RunStates
          BY <2>2, <5>1
        <5> QED BY <1>2, <2>1, <5>1 DEF SitePhase
      <4>4. Begins(p) \/ ShowsEnd(p)
        BY <4>1, <4>3 DEF RunStates
      <4> QED BY <4>3, <4>4 DEF Begins, ShowsEnd, Continues
    <3>2. CASE state' = state
      <4>1. /\ SiteOf(i) = n
            /\ ppc[p] \in {"running", "ended", "completing", "reported"}
        BY <1>2, <2>1, <3>2 DEF SitePhase
      <4>2. Reads(p) \/ Reports(p) \/ Ends(p) \/ Begins(p) \/ ShowsEnd(p) \/ Settles(p)
        BY <1>4, <4>1 DEF AtImport, Claims, LosesClaim, Starts, StartFails, Releases
      <4> QED BY <3>1, <4>1, <4>2 DEF Reads, Reports, Ends, Continues
    <3> QED BY <1>4, <3>1, <3>2 DEF AtImport, Ends
  <2> QED BY <1>1, <2>3, <2>4, <2>5 DEF PhaseInv
<1> QED BY <1>3, <1>4, ProvisionMoves

LEMMA PhaseStep ==
  ASSUME OneSupervisor, OneProvisioner, OwnInstallations, TypeOK, FreshInv, SpentInv,
         PhaseInv, [Next]_vars
  PROVE  PhaseInv'
<1>1. ASSUME UNCHANGED <<imports, session, state, config, ppc, work, pcopy, outcomes>>
      PROVE  PhaseInv'
  <2>1. ASSUME NEW i \in Imports
        PROVE  ImportPhase(i)'
    <3>1. /\ Now(i)' = Now(i) /\ ImportPhase(i)
          /\ \A s \in Supervisors : Listed(s, i)' => Listed(s, i)
      BY <1>1 DEF Now, Listed, PhaseInv
    <3> QED BY <1>1, <3>1, PhaseStays
  <2> QED BY <1>1, <2>1 DEF PhaseInv, SitePhase
<1>2. ASSUME (\E i \in Imports : CreateImport(i)) \/ UNCHANGED vars
      PROVE  UNCHANGED <<imports, session, state, config, ppc, work, pcopy, outcomes>>
  BY <1>2 DEF CreateImport, vars
<1> QED BY <1>1, <1>2, SupervisePhase, ProvisionPhase, SiteStep DEF Next

LEMMA PhaseInit == AtRest => PhaseInv
<1> SUFFICES ASSUME AtRest
             PROVE  PhaseInv
  OBVIOUS
<1>1. ASSUME NEW i \in Imports
      PROVE  ImportPhase(i)
  <2>1. Waiting(i)
    BY DEF AtRest, Waiting, Ran, Now, RestStates, Preparing, NewImport
  <2>2. \A p \in Provisioners : work[p] # i
    BY ConstantsAssumption DEF AtRest
  <2>3. \A s \in Supervisors : cur[s] # i /\ batch[s] = {}
    BY ConstantsAssumption DEF AtRest
  <2> QED BY <2>1, <2>2, <2>3 DEF ImportPhase, RowPhase, WorkPhase, HandPhase, WritePhase,
             Listed
<1>2. \A n \in Installations : SitePhase(n)
  BY DEF AtRest, SitePhase, RunStates
<1> QED BY <1>1, <1>2 DEF AtRest, PhaseInv

LEMMA PhaseIsFit == PhaseInv => FitWhileRunning
<1> SUFFICES ASSUME PhaseInv, NEW n \in Installations, state[n] = "import-in-progress"
             PROVE  FitForImport(config[n])
  BY DEF FitWhileRunning
<1>1. PICK p \in Provisioners : work[p] \in Imports /\ SiteOf(work[p]) = n
  BY DEF PhaseInv, SitePhase, RunStates
<1> PICK i \in Imports : i = work[p]
  BY <1>1
<1>2. Now(i) = "import-in-progress" /\ RowPhase(i)
  BY <1>1 DEF PhaseInv, ImportPhase, Now
<1>3. Fit(i)
  BY <1>2 DEF RowPhase, Waiting, Offered, Ended, Noticed, Past, RestStates
<1> QED BY <1>1, <1>3 DEF Fit

LEMMA PhasesAlways ==
  ASSUME OneSupervisor, OneProvisioner, OwnInstallations
  PROVE  Spec => [](TypeOK /\ FreshInv /\ PhaseInv)
<1>1. Init => SpentInv /\ PhaseInv
  BY SpentInit, PhaseInit DEF Init
<1>2. TypeOK /\ FreshInv /\ SpentInv /\ [Next]_vars => SpentInv'
  BY SpentStep
<1>3. TypeOK /\ FreshInv /\ SpentInv /\ PhaseInv /\ [Next]_vars => PhaseInv'
  BY PhaseStep
<1> QED BY <1>1, <1>2, <1>3, PreparationIsPrivate, PTL DEF Spec

\* With one supervisor, one provisioner and installations that are the target
\* of one import each, a run is on only where the installation is adjusted for
\* it: no late write offers the import again, and no adjustment is reverted
\* under a run.
THEOREM InstallationIsFit ==
  ASSUME OneSupervisor, OneProvisioner, OwnInstallations
  PROVE  Spec => []FitWhileRunning
BY PhasesAlways, PhaseIsFit, PTL

--------------------------------------------------------------------------------
(* The lifecycle *)

Undeleted == \A n \in Installations : state[n] # "deleted"

LEMMA UndeletedStep ==
  ASSUME Deletable = {}, TypeOK, Undeleted, [Next]_vars
  PROVE  Undeleted'
<1>1. ASSUME NEW s \in Supervisors, Supervise(s) \/ Crash(s)
      PROVE  state' = state \/ Patched(s)
  BY <1>1, SuperviseMoves DEF Lists, Wins, Drops, WithImport, Passes, GivesUp, Asks,
     TurnsTo, Notices, Adjusts, FailsToAdjust, Saves, SavesCompleteAt, Completes, SitesKept
<1>2. ASSUME NEW p \in Provisioners, Provision(p)
      PROVE  \/ state' = state
             \/ \E n : \/ SetState(n, "stable", "import-in-progress")
                       \/ SetState(n, "import-in-progress", "import-complete")
                       \/ SetState(n, "import-complete", "stable")
  BY <1>2, ProvisionMoves DEF AtImport, Begins, Ends, ShowsEnd, Settles
<1>3. \A n \in Installations : Delete(n) => FALSE
  BY DEF Delete
<1>4. CASE \/ \E i \in Imports : CreateImport(i)
           \/ UNCHANGED vars
  BY <1>4 DEF CreateImport, vars, Undeleted
<1>5. CASE \E n \in Installations : Reconcile(n)
  BY <1>5 DEF Reconcile, SetState, TypeOK, Undeleted
<1>6. CASE \E s \in Supervisors : Supervise(s) \/ Crash(s)
  BY <1>1, <1>6 DEF Patched, TypeOK, Undeleted
<1>7. CASE \E p \in Provisioners : Provision(p)
  BY <1>2, <1>7 DEF SetState, TypeOK, Undeleted
<1> QED BY <1>3, <1>4, <1>5, <1>6, <1>7 DEF Next

\* The changes of a row that the lifecycle allows.
RowMoves(i) ==
    \/ imports'[i].State = imports[i].State
    \/ /\ imports[i].State \in Preparing
       /\ imports'[i].State \in Preparing \cup {InProgress}
    \/ imports[i].State = InProgress /\ Ran(i) /\ imports'[i].State = Complete
    \/ imports[i].State = Complete /\ imports'[i].State = InProgress
    \/ /\ imports[i].State \in {Complete, PostAdjustment}
       /\ imports'[i].State \in {Complete, PostAdjustment, Succeeded, Failed}

LEMMA NothingShown ==
  ASSUME created' = created, outcomes' = outcomes,
         \A i \in Imports : imports'[i].State = imports[i].State
  PROVE  UNCHANGED Lifecycle!vars
BY DEF Lifecycle!vars, Shown, Ran

\* A change of one row, as the API shows it.
LEMMA RowShown ==
  ASSUME NEW i \in Imports, i \in created, created' = created, outcomes' = outcomes,
         \A j \in Imports \ {i} : imports'[j].State = imports[j].State, RowMoves(i)
  PROVE  [Lifecycle!Next]_(Lifecycle!vars)
<1> DEFINE old == imports[i].State
           new == imports'[i].State
<1>1. Shown' = [Shown EXCEPT ![i] = new] /\ Shown[i] = old
  BY DEF Shown
<1>2. UNCHANGED {j \in Imports : Ran(j)}
  BY DEF Ran
<1>3. Lifecycle!Become(i, new)
  BY <1>1, <1>2 DEF Lifecycle!Become
<1>4. CASE new = old
  <2>1. \A j \in Imports : imports'[j].State = imports[j].State
    BY <1>4
  <2> QED BY <2>1, NothingShown
<1>5. CASE old \in Preparing /\ new \in Preparing
  <2>1. Lifecycle!Prepare(i)
    BY <1>1, <1>3, <1>5 DEF Lifecycle!Prepare, Lifecycle!Preparing, Lifecycle!Requested,
       Lifecycle!PreAdjustment, Preparing, Requested, PreAdjustment
  <2> QED BY <2>1 DEF Lifecycle!Next
<1>6. CASE old \in Preparing /\ new = InProgress
  <2>1. Lifecycle!Offer(i)
    BY <1>1, <1>3, <1>6 DEF Lifecycle!Offer, Lifecycle!Preparing, Lifecycle!Requested,
       Lifecycle!PreAdjustment, Lifecycle!InProgress, Preparing, Requested, PreAdjustment,
       InProgress
  <2> QED BY <2>1 DEF Lifecycle!Next
<1>7. CASE old = InProgress /\ Ran(i) /\ new = Complete
  <2>1. Lifecycle!Notice(i)
    BY <1>1, <1>3, <1>7 DEF Lifecycle!Notice, Lifecycle!InProgress, Lifecycle!Complete,
       InProgress, Complete
  <2> QED BY <2>1 DEF Lifecycle!Next
<1>8. CASE old = Complete /\ new = InProgress
  <2>1. Lifecycle!Renotice(i)
    BY <1>1, <1>3, <1>8 DEF Lifecycle!Renotice, Lifecycle!InProgress, Lifecycle!Complete,
       InProgress, Complete
  <2> QED BY <2>1 DEF Lifecycle!Next
<1>9. CASE old \in {Complete, PostAdjustment} /\ new \in {Complete, PostAdjustment}
  <2>1. Lifecycle!Revert(i)
    BY <1>1, <1>3, <1>9 DEF Lifecycle!Revert, Lifecycle!Reverting, Lifecycle!Complete,
       Lifecycle!PostAdjustment, Complete, PostAdjustment
  <2> QED BY <2>1 DEF Lifecycle!Next
<1>10. CASE old \in {Complete, PostAdjustment} /\ new \in {Succeeded, Failed}
  <2>1. Lifecycle!Conclude(i)
    BY <1>1, <1>3, <1>10 DEF Lifecycle!Conclude, Lifecycle!Reverting, Lifecycle!Verdicts,
       Lifecycle!Complete, Lifecycle!PostAdjustment, Complete, PostAdjustment, Succeeded,
       Failed
  <2> QED BY <2>1 DEF Lifecycle!Next
<1> QED BY <1>4, <1>5, <1>6, <1>7, <1>8, <1>9, <1>10 DEF RowMoves

\* What a supervisor saves is a step of the lifecycle.
LEMMA SuperviseShown ==
  ASSUME OneSupervisor, TypeOK, FreshInv, PhaseInv, Undeleted,
         NEW s \in Supervisors, Supervise(s) \/ Crash(s)
  PROVE  [Lifecycle!Next]_(Lifecycle!vars)
<1>1. created' = created /\ outcomes' = outcomes
  BY SuperviseKeeps
<1>2. CASE Lists(s) \/ Wins(s) \/ Drops(s)
  <2>1. \A i \in Imports : imports'[i].State = imports[i].State
    BY <1>2 DEF Lists, Wins, Drops, Alike
  <2> QED BY <1>1, <2>1, NothingShown
<1>3. CASE cur[s] \in Imports /\ WithImport(s)
  <2> PICK i \in Imports : cur[s] = i
    BY <1>3
  <2>1. \A j \in Imports \ {i} : imports'[j] = imports[j]
    BY <1>3, WithImportFresh
  <2>2. /\ i \in created /\ DecisionFresh(s) /\ CopyFresh(s, i)
        /\ RowPhase(i) /\ WritePhase(s, i)
    <3>1. SiteOf(i) \in Installations
      OBVIOUS
    <3> QED BY <3>1 DEF FreshInv, RowFresh, InHand, PhaseInv, ImportPhase, Undeleted, Now
  <2>3. \/ imports'[i] = imports[i]
        \/ /\ imports'[i].State = copy[s][i].State
           /\ pc[s] \in {"save", "saveComplete", "deleteBundle"}
    <3>1. \/ RowStays(s)
          \/ RowSaved(s) /\ pc[s] \in {"save", "saveComplete", "deleteBundle"}
      BY <1>3 DEF WithImport, Passes, GivesUp, Asks, TurnsTo, Notices, Adjusts,
         FailsToAdjust, Saves, SavesCompleteAt, Completes
    <3> QED BY <3>1 DEF RowStays, RowSaved
  <2>4. ASSUME imports'[i].State = copy[s][i].State,
               pc[s] \in {"saveComplete", "deleteBundle"}
        PROVE  RowMoves(i)
    BY <2>2, <2>4 DEF RowMoves, DecisionFresh, WritePhase
  <2>5. ASSUME imports'[i].State = copy[s][i].State, pc[s] = "save"
        PROVE  RowMoves(i)
    <3>1. Now(i) = "import-complete" /\ imports[i].State = InProgress => Ran(i)
      BY <2>2, StatesDiffer DEF RowPhase, Waiting, Offered, Ended, Noticed, Past,
         RestStates
    <3>2. /\ copy[s][i].State \in Preparing \cup {InProgress} =>
                imports[i].State \in Preparing
          /\ \/ copy[s][i].State \in Preparing \cup {InProgress}
             \/ /\ copy[s][i].State = Complete /\ imports[i].State = InProgress
                /\ Now(i) = "import-complete"
             \/ /\ copy[s][i].State \in {Complete, PostAdjustment, Succeeded, Failed}
                /\ imports[i].State \in {Complete, PostAdjustment}
      BY <2>2, <2>5 DEF DecisionFresh, CopyFresh, InHand, WritePhase
    <3> QED BY <2>5, <3>1, <3>2 DEF RowMoves
  <2>6. RowMoves(i)
    BY <2>3, <2>4, <2>5 DEF RowMoves
  <2> QED BY <1>1, <2>1, <2>2, <2>6, RowShown
<1> QED BY <1>2, <1>3, SuperviseMoves

\* A provisioner ends the run, or saves a report over the notice of its end.
LEMMA ProvisionShown ==
  ASSUME TypeOK, FreshInv, PhaseInv, Undeleted, NEW p \in Provisioners, Provision(p)
  PROVE  [Lifecycle!Next]_(Lifecycle!vars)
<1>1. created' = created
  BY OtherProvisioners
<1>2. CASE Selects(p) /\ outcomes' = outcomes
  BY <1>1, <1>2, NothingShown DEF Selects
<1>3. CASE AtImport(p)
  <2> PICK i \in Imports : i = work[p]
    BY <1>3 DEF AtImport
  <2>1. \A j \in Imports \ {i} : imports'[j] = imports[j]
    BY <1>3 DEF AtImport
  <2>2. i \in created /\ RowPhase(i) /\ WorkPhase(p, i)
    <3>1. SiteOf(i) \in Installations
      OBVIOUS
    <3>2. RowPhase(i) /\ WorkPhase(p, i)
      BY <3>1 DEF PhaseInv, ImportPhase, Undeleted, Now
    <3>3. RowFresh(i)
      BY DEF FreshInv
    <3> QED BY <3>2, <3>3 DEF RowFresh, Preparing
  <2>3. ASSUME outcomes' = outcomes, imports'[i].State = imports[i].State
        PROVE  UNCHANGED Lifecycle!vars
    BY <1>1, <2>1, <2>3, NothingShown
  <2>4. CASE Claims(p) \/ LosesClaim(p) \/ Starts(p) \/ StartFails(p) \/ Reads(p)
               \/ Releases(p)
    <3>1. imports'[i].State = imports[i].State
      BY <2>2, <2>4 DEF Claims, LosesClaim, Starts, StartFails, Reads, Releases,
         SavesClaim, SavesStart, SavesRelease, TableStays, SameButOwner, WorkPhase
    <3>2. outcomes' = outcomes
      BY <1>3, <2>4 DEF AtImport, Claims, LosesClaim, Starts, StartFails, Reads, Releases,
         Ends
    <3> QED BY <2>3, <3>1, <3>2
  <2>5. CASE Reports(p) /\ outcomes' = outcomes
    <3>1. imports[i].State \in {InProgress, Complete}
      BY <2>2, <2>5 DEF Reports, WorkPhase, RowPhase, Waiting, Offered, Ended, Noticed,
         Past, RestStates, RunStates
    <3>2. RowMoves(i)
      BY <2>2, <2>5, <3>1 DEF RowMoves, Reports, SavesReport, TableStays, WorkPhase
    <3> QED BY <1>1, <2>1, <2>2, <2>5, <3>2, RowShown
  <2>6. CASE outcomes' = outcomes /\ (Begins(p) \/ ShowsEnd(p) \/ Settles(p))
    BY <2>3, <2>6 DEF Begins, ShowsEnd, Settles, TableStays
  <2>7. CASE Ends(p)
    <3>1. /\ imports[i].State = InProgress /\ ~Ran(i) /\ Ran(i)'
          /\ imports'[i] = imports[i]
          /\ \A j \in Imports \ {i} : Ran(j)' <=> Ran(j)
      BY <2>2, <2>7 DEF Ends, WorkPhase, TableStays, Ran
    <3>2. Shown' = Shown /\ Shown[i] = InProgress
      BY <1>1, <2>1, <2>2, <3>1 DEF Shown
    <3>3. {j \in Imports : Ran(j)}' = {j \in Imports : Ran(j)} \cup {i}
      BY <3>1
    <3>4. Lifecycle!Run(i)
      BY <3>1, <3>2, <3>3 DEF Lifecycle!Run, Lifecycle!InProgress, InProgress
    <3> QED BY <3>4 DEF Lifecycle!Next
  <2> QED BY <1>3, <2>4, <2>5, <2>6, <2>7 DEF AtImport
<1> QED BY <1>2, <1>3, ProvisionMoves

LEMMA LifecycleStep ==
  ASSUME OneSupervisor, TypeOK, FreshInv, PhaseInv, Undeleted, [Next]_vars
  PROVE  [Lifecycle!Next]_(Lifecycle!vars)
<1>1. ASSUME NEW i \in Imports, CreateImport(i)
      PROVE  Lifecycle!Next
  <2>1. /\ i \notin created /\ created' = created \cup {i} /\ imports' = imports
        /\ outcomes' = outcomes
    BY <1>1 DEF CreateImport
  <2>2. RowFresh(i)
    BY DEF FreshInv
  <2>3. imports[i].State = Requested
    BY <2>1, <2>2 DEF RowFresh
  <2>4. Shown[i] = "none" /\ Shown' = [Shown EXCEPT ![i] = Requested]
    BY <2>1, <2>3 DEF Shown
  <2>5. UNCHANGED {j \in Imports : Ran(j)}
    BY <2>1 DEF Ran
  <2>6. Lifecycle!Request(i)
    BY <2>4, <2>5 DEF Lifecycle!Request, Lifecycle!Become, Lifecycle!Requested, Requested
  <2> QED BY <2>6 DEF Lifecycle!Next
<1>2. CASE (\E n \in Installations : Reconcile(n) \/ Delete(n)) \/ UNCHANGED vars
  <2>1. created' = created /\ imports' = imports /\ outcomes' = outcomes
    BY <1>2 DEF Reconcile, Delete, vars
  <2> QED BY <2>1, NothingShown
<1> QED BY <1>1, <1>2, SuperviseShown, ProvisionShown DEF Next

\* With one supervisor, one provisioner and installations that are the target
\* of one import each and are not deleted, what the API shows of an import
\* goes through the states in their order around one run, to a final verdict:
\* the full-row writes on both sides cost at most a second notice.
THEOREM LifecycleIsKept ==
  ASSUME OneSupervisor, OneProvisioner, OwnInstallations, Deletable = {}
  PROVE  Spec => ImplementsLifecycle
<1>1. Init => Undeleted /\ Lifecycle!Init
  BY DEF Init, AtRest, Ran, Undeleted, Lifecycle!Init, Shown
<1>2. TypeOK /\ Undeleted /\ [Next]_vars => Undeleted'
  BY UndeletedStep
<1>3. TypeOK /\ FreshInv /\ PhaseInv /\ Undeleted /\ [Next]_vars =>
        [Lifecycle!Next]_(Lifecycle!vars)
  BY LifecycleStep
<1> QED BY <1>1, <1>2, <1>3, PhasesAlways, PTL DEF Spec, ImplementsLifecycle, Lifecycle!Spec
================================================================================
