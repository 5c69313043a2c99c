------------------------ MODULE TranslationSeriesProofs ------------------------
(***************************************************************************)
(* What one supervisor achieves that several do not: its copy of a row is  *)
(* never older than the row, so that no translation starts twice.  The     *)
(* assumption is needed: with two supervisors TLC finds two imports of one *)
(* translation.                                                            *)
(***************************************************************************)
EXTENDS TranslationSupervisorProofs

USE DEF Goto, Fault, NoFault, UpdateTranslation

OneSupervisor == \A r, s \in Supervisors : r = s

\* A row is one of the three stages, and is imported only in the last.
RowsInOrder ==
    \A t \in Translations :
        /\ translations[t].CompleteAt => translations[t].StartAt
        /\ imports[t] <= 1
        /\ imports[t] > 0 => translations[t].CompleteAt

\* What the memory copy of s says, compared with the row, at each statement.
CopyInOrder(s) ==
    LET row == translations[cur[s]]
    IN /\ pc[s] \in {"selected", "locked"} => ~row.StartAt /\ ~copy[s].StartAt
       /\ pc[s] \in {"selected", "locked"} => ~copy[s].CompleteAt
       /\ pc[s] = "translating" => copy[s].StartAt /\ ~copy[s].CompleteAt
       /\ pc[s] \in {"completing", "validating", "importing"} =>
              copy[s].StartAt /\ copy[s].CompleteAt
       /\ pc[s] \in {"validating", "importing"} => row.CompleteAt
       /\ pc[s] \in {"translating", "completing", "validating", "importing"} =>
              row.StartAt
       /\ pc[s] \in {"selected", "locked", "translating", "completing",
                     "validating", "importing"} => imports[cur[s]] = 0
       /\ pc[s] \in {"translating", "completing"} => ~row.CompleteAt
       /\ pc[s] = "unlocking" => /\ row.StartAt => copy[s].StartAt
                                 /\ row.CompleteAt => copy[s].CompleteAt
                                 /\ copy[s].CompleteAt => copy[s].StartAt

SeriesInv == RowsInOrder /\ \A s \in Supervisors : CopyInOrder(s)

LEMMA RowStages ==
  ASSUME NEW row \in Row, NEW s \in Supervisors
  PROVE  /\ LockedRow(row, s).StartAt <=> row.StartAt
         /\ LockedRow(row, s).CompleteAt <=> row.CompleteAt
         /\ StartedRow(row).StartAt
         /\ StartedRow(row).CompleteAt <=> row.CompleteAt
         /\ CompletedRow(row).StartAt <=> row.StartAt
         /\ CompletedRow(row).CompleteAt
         /\ UnlockedRow(row).StartAt <=> row.StartAt
         /\ UnlockedRow(row).CompleteAt <=> row.CompleteAt
  BY DEF Row, LockedRow, StartedRow, CompletedRow, UnlockedRow

LEMMA InitSeries == Init => SeriesInv
  BY DEF Init, SeriesInv, RowsInOrder, CopyInOrder, NewRow

NothingUndone ==
    \A t \in Translations :
        /\ translations[t].StartAt => translations'[t].StartAt
        /\ translations[t].CompleteAt => translations'[t].CompleteAt

\* A step of s that replaces at most row i, by one that is at least as far.
LEMMA SeriesKept ==
  ASSUME SeriesInv, OneSupervisor, NEW s \in Supervisors, NEW i \in Translations,
         \A t \in Translations \ {i} : /\ translations'[t] = translations[t]
                                       /\ imports'[t] = imports[t],
         translations[i].StartAt => translations'[i].StartAt,
         translations[i].CompleteAt => translations'[i].CompleteAt,
         translations'[i].CompleteAt => translations'[i].StartAt,
         imports'[i] <= 1,
         imports'[i] > 0 => translations'[i].CompleteAt,
         CopyInOrder(s)'
  PROVE  SeriesInv' /\ NothingUndone
<1>1. RowsInOrder'
  BY DEF SeriesInv, RowsInOrder
<1>2. \A r \in Supervisors : CopyInOrder(r)'
  BY DEF OneSupervisor
<1>3. NothingUndone
  BY DEF NothingUndone
<1> QED BY <1>1, <1>2, <1>3 DEF SeriesInv

LEMMA SeriesStep ==
  ASSUME TypeOK, SeriesInv, OneSupervisor, [Next]_vars
  PROVE  SeriesInv' /\ NothingUndone
<1> USE ConstantsAssumption
<1>1. ASSUME NEW t \in Translations, CreateTranslation(t)
      PROVE  SeriesInv' /\ NothingUndone
  BY <1>1 DEF CreateTranslation, SeriesInv, RowsInOrder, CopyInOrder, NothingUndone
<1>2. ASSUME NEW s \in Supervisors, Supervise(s) \/ Crash(s)
      PROVE  SeriesInv' /\ NothingUndone
  <2>1. pc[s] # "idle" => /\ cur[s] \in Translations
                          /\ translations[cur[s]] \in Row
                          /\ copy[s] \in Row
    BY DEF TypeOK
  <2>2. CopyInOrder(s) /\ RowsInOrder
    BY DEF SeriesInv
  <2>3. CASE GetTranslationReadyToStart(s)
    <3>1. PICK t \in ReadyToStart : /\ cur' = [cur EXCEPT ![s] = t]
                                    /\ copy' = [copy EXCEPT ![s] = translations[t]]
      BY <2>3 DEF GetTranslationReadyToStart
    <3>2. /\ t \in Translations /\ ~translations[t].StartAt
          /\ ~translations[t].CompleteAt /\ imports[t] = 0
      BY <2>2 DEF ReadyToStart, Ready, RowsInOrder, TypeOK
    <3>3. /\ cur'[s] = t /\ copy'[s] = translations[t] /\ pc'[s] = "selected"
          /\ UNCHANGED <<translations, imports>>
      BY <2>3, <3>1 DEF GetTranslationReadyToStart, TypeOK
    <3>4. CopyInOrder(s)'
      BY <3>2, <3>3 DEF CopyInOrder
    <3> QED BY <2>2, <3>2, <3>3, <3>4, SeriesKept DEF RowsInOrder
  <2>4. CASE WinLock(s)
    <3>1. /\ cur[s] \in Translations /\ cur'[s] = cur[s] /\ pc'[s] = "locked"
          /\ pc[s] = "selected" /\ imports' = imports
          /\ translations' = [translations EXCEPT ![cur[s]] =
                                 LockedRow(translations[cur[s]], s)]
          /\ copy'[s] = LockedRow(copy[s], s)
      BY <2>1, <2>4 DEF WinLock, TypeOK
    <3>2. translations'[cur[s]] = LockedRow(translations[cur[s]], s)
      BY <3>1 DEF TypeOK
    <3>3. /\ translations'[cur[s]].StartAt <=> translations[cur[s]].StartAt
          /\ translations'[cur[s]].CompleteAt <=> translations[cur[s]].CompleteAt
          /\ copy'[s].StartAt <=> copy[s].StartAt
          /\ copy'[s].CompleteAt <=> copy[s].CompleteAt
      BY <2>1, <3>1, <3>2, RowStages
    <3>4. CopyInOrder(s)'
      BY <2>2, <3>1, <3>3 DEF CopyInOrder
    <3> QED BY <2>2, <3>1, <3>3, <3>4, SeriesKept DEF RowsInOrder
  <2>5. CASE LoseLock(s)
    <3>1. cur[s] \in Translations /\ pc'[s] = "idle" /\ imports' = imports
      BY <2>1, <2>5 DEF LoseLock, Return, TypeOK
    <3>2. CopyInOrder(s)'
      BY <3>1 DEF CopyInOrder
    <3>3. \/ translations' = translations
          \/ translations' = [translations EXCEPT ![cur[s]] =
                                 LockedRow(translations[cur[s]], s)]
      BY <2>5 DEF LoseLock, UpdateFails
    <3>4. /\ translations'[cur[s]].StartAt <=> translations[cur[s]].StartAt
          /\ translations'[cur[s]].CompleteAt <=> translations[cur[s]].CompleteAt
      <4>1. translations[cur[s]] \in Row
        BY <3>1 DEF TypeOK
      <4>2. CASE translations' = translations
        BY <4>2
      <4>3. CASE translations' = [translations EXCEPT ![cur[s]] =
                                    LockedRow(translations[cur[s]], s)]
        <5>1. translations'[cur[s]] = LockedRow(translations[cur[s]], s)
          BY <3>1, <4>3 DEF TypeOK
        <5> QED BY <4>1, <5>1, RowStages
      <4> QED BY <3>3, <4>2, <4>3
    <3>5. \A t \in Translations \ {cur[s]} : translations'[t] = translations[t]
      BY <3>1, <3>3 DEF TypeOK
    <3> QED BY <2>2, <3>1, <3>2, <3>4, <3>5, SeriesKept DEF RowsInOrder
  <2>6. CASE NewTranslatorFails(s)
    <3>1. cur[s] \in Translations /\ CopyInOrder(s)'
      BY <2>1, <2>2, <2>6 DEF NewTranslatorFails, CopyInOrder, RowsInOrder, TypeOK
    <3> QED BY <2>2, <2>6, <3>1, SeriesKept DEF NewTranslatorFails, RowsInOrder
  <2>7. CASE MarkStarted(s)
    <3>1. /\ cur[s] \in Translations /\ cur' = cur /\ imports' = imports
          /\ pc[s] = "locked" /\ copy'[s] = StartedRow(copy[s])
      BY <2>1, <2>7 DEF MarkStarted, TypeOK
    <3>2. \/ /\ translations' = [translations EXCEPT ![cur[s]] = StartedRow(copy[s])]
             /\ pc'[s] \in {"translating", "unlocking"}
          \/ translations' = translations /\ pc'[s] = "unlocking"
      BY <2>7 DEF MarkStarted, UpdateFails, TypeOK
    <3>3. /\ copy'[s].StartAt
          /\ copy'[s].CompleteAt <=> copy[s].CompleteAt
      BY <2>1, <3>1, RowStages
    <3>4. ~translations[cur[s]].CompleteAt /\ ~copy[s].CompleteAt
      BY <2>2, <3>1 DEF CopyInOrder, RowsInOrder
    <3>5. CASE translations' = translations /\ pc'[s] = "unlocking"
      <4>1. CopyInOrder(s)'
        BY <2>2, <3>1, <3>3, <3>4, <3>5 DEF CopyInOrder
      <4> QED BY <2>2, <3>1, <3>5, <4>1, SeriesKept DEF RowsInOrder
    <3>6. CASE /\ translations' = [translations EXCEPT ![cur[s]] = StartedRow(copy[s])]
               /\ pc'[s] \in {"translating", "unlocking"}
      <4>1. translations'[cur[s]] = copy'[s]
        BY <3>1, <3>6 DEF TypeOK
      <4>2. imports[cur[s]] = 0
        BY <2>2, <3>1 DEF CopyInOrder
      <4>3. CopyInOrder(s)'
        BY <3>1, <3>3, <3>4, <3>6, <4>1, <4>2 DEF CopyInOrder
      <4> QED
        BY <2>2, <3>1, <3>3, <3>4, <3>6, <4>1, <4>2, <4>3, SeriesKept
    <3> QED BY <3>2, <3>5, <3>6
  <2>8. CASE Translate(s)
    <3>1. /\ cur[s] \in Translations /\ cur' = cur
          /\ UNCHANGED <<translations, imports>>
      BY <2>1, <2>8 DEF Translate
    <3>2. CopyInOrder(s)'
      BY <2>1, <2>2, <2>8, RowStages DEF Translate, CopyInOrder, TypeOK
    <3> QED BY <2>2, <3>1, <3>2, SeriesKept DEF RowsInOrder
  <2>9. CASE MarkComplete(s)
    <3>1. /\ cur[s] \in Translations /\ cur' = cur /\ imports' = imports
          /\ pc[s] = "completing" /\ copy' = copy
      BY <2>1, <2>9 DEF MarkComplete
    <3>2. \/ /\ translations' = [translations EXCEPT ![cur[s]] = copy[s]]
             /\ pc'[s] \in {"validating", "unlocking"}
          \/ translations' = translations /\ pc'[s] = "unlocking"
      BY <2>9 DEF MarkComplete, UpdateFails, TypeOK
    <3>3. CopyInOrder(s)'
      BY <2>1, <2>2, <3>1, <3>2 DEF CopyInOrder, RowsInOrder, TypeOK
    <3> QED
      BY <2>1, <2>2, <3>1, <3>2, <3>3, SeriesKept
         DEF CopyInOrder, RowsInOrder, TypeOK
  <2>10. CASE Validate(s)
    <3>1. /\ cur[s] \in Translations /\ UNCHANGED <<translations, imports>>
      BY <2>1, <2>10 DEF Validate
    <3>2. CopyInOrder(s)'
      BY <2>1, <2>2, <2>10 DEF Validate, CopyInOrder, TypeOK
    <3> QED BY <2>2, <3>1, <3>2, SeriesKept DEF RowsInOrder
  <2>11. CASE CreateImport(s)
    <3>1. /\ cur[s] \in Translations /\ cur' = cur /\ copy' = copy
          /\ translations' = translations
          /\ pc[s] = "importing" /\ pc'[s] = "unlocking"
      BY <2>1, <2>11 DEF CreateImport, TypeOK
    <3>2. \/ imports' = [imports EXCEPT ![cur[s]] = @ + 1]
          \/ imports' = imports
      BY <2>11 DEF CreateImport
    <3>3. CopyInOrder(s)'
      BY <2>2, <3>1 DEF CopyInOrder
    <3> QED
      BY <2>2, <3>1, <3>2, <3>3, SeriesKept DEF CopyInOrder, RowsInOrder, TypeOK
  <2>12. CASE UnlockTranslation(s)
    <3>1. /\ cur[s] \in Translations /\ pc[s] = "unlocking" /\ pc'[s] = "idle"
          /\ imports' = imports
      BY <2>1, <2>12 DEF UnlockTranslation, Return, TypeOK
    <3>2. \/ translations' = translations
          \/ translations' = [translations EXCEPT ![cur[s]] = UnlockedRow(copy[s])]
      BY <2>12 DEF UnlockTranslation, UpdateFails
    <3>3. CopyInOrder(s)'
      BY <3>1 DEF CopyInOrder
    <3>4. UnlockedRow(copy[s]).StartAt <=> copy[s].StartAt
      BY <2>1, <3>1, RowStages
    <3>5. UnlockedRow(copy[s]).CompleteAt <=> copy[s].CompleteAt
      BY <2>1, <3>1, RowStages
    <3>6. CASE translations' = translations
      BY <2>2, <3>1, <3>3, <3>6, SeriesKept DEF RowsInOrder
    <3>7. CASE translations' = [translations EXCEPT ![cur[s]] = UnlockedRow(copy[s])]
      <4>1. translations'[cur[s]] = UnlockedRow(copy[s])
        BY <3>1, <3>7 DEF TypeOK
      <4>2. /\ translations[cur[s]].StartAt => copy[s].StartAt
            /\ translations[cur[s]].CompleteAt => copy[s].CompleteAt
            /\ copy[s].CompleteAt => copy[s].StartAt
        BY <2>2, <3>1 DEF CopyInOrder
      <4>3. /\ imports[cur[s]] <= 1
            /\ imports[cur[s]] > 0 => translations[cur[s]].CompleteAt
        BY <2>2, <3>1 DEF RowsInOrder
      <4> QED
        BY <3>1, <3>3, <3>4, <3>5, <3>7, <4>1, <4>2, <4>3, SeriesKept
    <3> QED BY <3>2, <3>6, <3>7
  <2>13. CASE Crash(s)
    <3>1. /\ cur[s] \in Translations /\ pc'[s] = "idle"
          /\ UNCHANGED <<translations, imports>>
      BY <2>1, <2>13 DEF Crash, Return, TypeOK
    <3>2. CopyInOrder(s)'
      BY <3>1 DEF CopyInOrder
    <3> QED BY <2>2, <3>1, <3>2, SeriesKept DEF RowsInOrder
  <2> QED
    BY <1>2, <2>3, <2>4, <2>5, <2>6, <2>7, <2>8, <2>9, <2>10, <2>11, <2>12,
       <2>13 DEF Supervise
<1>3. CASE UNCHANGED vars
  BY <1>3 DEF vars, SeriesInv, RowsInOrder, CopyInOrder, NothingUndone
<1> QED BY <1>1, <1>2, <1>3 DEF Next

LEMMA SeriesAlways ==
  ASSUME OneSupervisor
  PROVE  Spec => [](TypeOK /\ SeriesInv) /\ [][NothingUndone]_vars
<1>1. Init => TypeOK /\ SeriesInv
  BY InitTypeOK, InitSeries
<1>2. TypeOK /\ SeriesInv /\ [Next]_vars => (TypeOK /\ SeriesInv)' /\ NothingUndone
  BY TypeStep, SeriesStep
<1> QED BY <1>1, <1>2, PTL DEF Spec

\* One supervisor makes at most one import of a translation, whatever fails
\* and however often it is restarted.
THEOREM OneImport ==
  ASSUME OneSupervisor
  PROVE  Spec => []AtMostOneImport
<1>1. SeriesInv => AtMostOneImport
  BY DEF SeriesInv, RowsInOrder, AtMostOneImport
<1> QED BY <1>1, SeriesAlways, PTL

\* One supervisor imports only what its clients see as complete.
THEOREM ImportOfComplete ==
  ASSUME OneSupervisor
  PROVE  Spec => []ImportedIsComplete
<1>1. SeriesInv => ImportedIsComplete
  BY DEF SeriesInv, RowsInOrder, ImportedIsComplete, State
<1> QED BY <1>1, SeriesAlways, PTL

\* The state that clients poll never goes back under one supervisor.
THEOREM StatesAdvance ==
  ASSUME OneSupervisor
  PROVE  Spec => StateOnlyAdvances
<1>1. NothingUndone =>
        \A t \in Translations : Rank(translations'[t]) >= Rank(translations[t])
  BY DEF NothingUndone, Rank, State
<1> QED BY <1>1, SeriesAlways, PTL DEF StateOnlyAdvances
================================================================================
