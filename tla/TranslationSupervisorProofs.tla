---------------------- MODULE TranslationSupervisorProofs ----------------------
(***************************************************************************)
(* What holds of TranslationSupervisor for any number of translations and  *)
(* supervisors, and any number of faults.                                  *)
(*                                                                         *)
(* The argument for the lock: a supervisor that is past TryLockTranslation *)
(* finds its own name both in the row and in its memory (LockIsOwn).  Only *)
(* the row it holds is ever written by it, and with its own name; a row    *)
(* that is held is not Lockable, so nobody else comes to hold it.  Hence   *)
(* the LockedBy column, with the places where supervise() is, implements   *)
(* WorkLease.                                                              *)
(***************************************************************************)
EXTENDS TranslationSupervisor, TLAPS

LEMMA NewRowType == NewRow \in Row /\ NewRow.LockedBy = NoOwner
  BY DEF NewRow, Row

\* What each function of supervise() makes of a row is a row, and only the
\* lock and the unlock touch its LockedBy.
LEMMA RowTypes ==
  ASSUME NEW row \in Row, NEW s \in Supervisors
  PROVE  /\ LockedRow(row, s) \in Row    /\ LockedRow(row, s).LockedBy = s
         /\ StartedRow(row) \in Row      /\ StartedRow(row).LockedBy = row.LockedBy
         /\ CompletedRow(row) \in Row    /\ CompletedRow(row).LockedBy = row.LockedBy
         /\ UnlockedRow(row) \in Row     /\ UnlockedRow(row).LockedBy = NoOwner
  BY DEF Row, LockedRow, StartedRow, CompletedRow, UnlockedRow

LEMMA InitTypeOK == Init => TypeOK
  BY ConstantsAssumption, NewRowType DEF Init, TypeOK, Labels

USE DEF Goto, Fault, NoFault, UpdateTranslation

LEMMA TypeStep ==
  ASSUME TypeOK, [Next]_vars
  PROVE  TypeOK'
<1> USE ConstantsAssumption DEF TypeOK, Labels
<1>1. ASSUME NEW t \in Translations, CreateTranslation(t) PROVE TypeOK'
  BY <1>1 DEF CreateTranslation
<1>2. ASSUME NEW s \in Supervisors, Supervise(s) \/ Crash(s) PROVE TypeOK'
  <2>0. pc[s] # "idle" => /\ cur[s] \in Translations
                          /\ translations[cur[s]] \in Row
                          /\ copy[s] \in Row
    OBVIOUS
  <2>1. CASE GetTranslationReadyToStart(s)
    BY <2>1 DEF GetTranslationReadyToStart, ReadyToStart
  <2>2. CASE WinLock(s)
    BY <2>0, <2>2, RowTypes DEF WinLock
  <2>3. CASE LoseLock(s)
    BY <2>0, <2>3, RowTypes, NewRowType DEF LoseLock, UpdateFails, Return
  <2>4. CASE NewTranslatorFails(s)
    BY <2>4 DEF NewTranslatorFails
  <2>5. CASE MarkStarted(s)
    BY <2>0, <2>5, RowTypes DEF MarkStarted, UpdateFails
  <2>6. CASE Translate(s)
    BY <2>0, <2>6, RowTypes DEF Translate
  <2>7. CASE MarkComplete(s)
    BY <2>0, <2>7 DEF MarkComplete, UpdateFails
  <2>8. CASE Validate(s)
    BY <2>8 DEF Validate
  <2>9. CASE CreateImport(s)
    BY <2>0, <2>9 DEF CreateImport
  <2>10. CASE UnlockTranslation(s)
    BY <2>0, <2>10, RowTypes, NewRowType DEF UnlockTranslation, UpdateFails, Return
  <2>11. CASE Crash(s)
    BY <2>11, NewRowType DEF Crash, Return
  <2> QED
    BY <1>2, <2>1, <2>2, <2>3, <2>4, <2>5, <2>6, <2>7, <2>8, <2>9, <2>10, <2>11
       DEF Supervise
<1>3. CASE UNCHANGED vars
  BY <1>3 DEF vars
<1> QED BY <1>1, <1>2, <1>3 DEF Next

\* The variables keep their types, and supervise() has a translation in hand
\* exactly while it is past its first statement.
THEOREM TypeCorrect == Spec => []TypeOK
  BY InitTypeOK, TypeStep, PTL DEF Spec

--------------------------------------------------------------------------------

LEMMA LockIsOwnExcludes == LockIsOwn => MutualExclusion
  BY DEF LockIsOwn, MutualExclusion

\* A step of s that leaves the rows of the other holders alone, and with which
\* s has the lock itself if it still holds one.
LEMMA LockIsOwnKept ==
  ASSUME TypeOK, LockIsOwn, NEW s \in Supervisors,
         \A r \in Supervisors \ {s} :
            /\ pc'[r] = pc[r] /\ cur'[r] = cur[r] /\ copy'[r] = copy[r]
            /\ Holds(r) => translations'[cur[r]] = translations[cur[r]],
         Holds(s)' => /\ translations'[cur'[s]].LockedBy = s
                      /\ copy'[s].LockedBy = s
  PROVE  LockIsOwn'
  BY DEF LockIsOwn, Holds

LEMMA InitLockIsOwn == Init => LockIsOwn
  BY DEF Init, LockIsOwn, Holds

LEMMA LockStep ==
  ASSUME TypeOK, LockIsOwn, [Next]_vars
  PROVE  LockIsOwn'
<1> USE ConstantsAssumption
<1>1. ASSUME NEW t \in Translations, CreateTranslation(t) PROVE LockIsOwn'
  BY <1>1 DEF CreateTranslation, LockIsOwn, Holds
<1>2. ASSUME NEW s \in Supervisors, Supervise(s) \/ Crash(s) PROVE LockIsOwn'
  <2>1. pc[s] # "idle" => /\ cur[s] \in Translations
                          /\ translations[cur[s]] \in Row
                          /\ copy[s] \in Row
    BY DEF TypeOK
  <2>2. Holds(s) => /\ translations[cur[s]].LockedBy = s
                    /\ copy[s].LockedBy = s
    BY DEF LockIsOwn
  \* Nobody else holds what s holds, nor anything that is Lockable.
  <2>3. ASSUME NEW r \in Supervisors \ {s}, Holds(r)
        PROVE  /\ Holds(s) => cur[r] # cur[s]
               /\ Lockable(cur[s]) => cur[r] # cur[s]
               /\ cur[r] \in Translations
    BY <2>2, <2>3 DEF LockIsOwn, Lockable, TypeOK, Holds
  <2> HIDE DEF Lockable
  <2>4. CASE GetTranslationReadyToStart(s)
    <3>1. ~Holds(s)'
      BY <2>4 DEF GetTranslationReadyToStart, Holds, TypeOK
    <3> QED
      BY <2>4, <3>1, LockIsOwnKept DEF GetTranslationReadyToStart, TypeOK
  <2>5. CASE WinLock(s)
    <3>0. /\ cur' = cur
          /\ translations'[cur[s]] = LockedRow(translations[cur[s]], s)
          /\ copy'[s] = LockedRow(copy[s], s)
      BY <2>1, <2>5 DEF WinLock, TypeOK
    <3>1. /\ translations[cur[s]] \in Row
          /\ copy[s] \in Row
      BY <2>1, <2>5 DEF WinLock
    <3>2. /\ LockedRow(translations[cur[s]], s).LockedBy = s
          /\ LockedRow(copy[s], s).LockedBy = s
      BY <3>1, RowTypes
    <3>3. /\ translations'[cur'[s]].LockedBy = s
          /\ copy'[s].LockedBy = s
      BY <3>0, <3>2
    <3> QED
      BY <2>1, <2>3, <2>5, <3>3, LockIsOwnKept DEF WinLock, TypeOK
  <2>6. CASE LoseLock(s)
    <3>1. ~Holds(s)'
      BY <2>6 DEF LoseLock, Return, Holds, TypeOK
    <3> QED
      BY <2>1, <2>3, <2>6, <3>1, LockIsOwnKept
         DEF LoseLock, UpdateFails, Return, TypeOK
  <2>7. CASE NewTranslatorFails(s)
    BY <2>2, <2>7, LockIsOwnKept DEF NewTranslatorFails, Holds, TypeOK
  <2>8. CASE MarkStarted(s)
    <3>1. Holds(s) BY <2>8 DEF MarkStarted, Holds
    <3>2. StartedRow(copy[s]).LockedBy = s
      BY <2>1, <2>2, <2>8, <3>1, RowTypes DEF MarkStarted
    <3> QED
      BY <2>1, <2>2, <2>3, <2>8, <3>1, <3>2, LockIsOwnKept
         DEF MarkStarted, UpdateFails, TypeOK
  <2>9. CASE Translate(s)
    <3>1. Holds(s) BY <2>9 DEF Translate, Holds
    <3>2. CompletedRow(copy[s]).LockedBy = s
      BY <2>1, <2>2, <2>9, <3>1, RowTypes DEF Translate
    <3> QED
      BY <2>2, <2>9, <3>1, <3>2, LockIsOwnKept DEF Translate, TypeOK
  <2>10. CASE MarkComplete(s)
    <3>1. Holds(s) BY <2>10 DEF MarkComplete, Holds
    <3> QED
      BY <2>1, <2>2, <2>3, <2>10, <3>1, LockIsOwnKept
         DEF MarkComplete, UpdateFails, TypeOK
  <2>11. CASE Validate(s)
    BY <2>2, <2>11, LockIsOwnKept DEF Validate, Holds, TypeOK
  <2>12. CASE CreateImport(s)
    BY <2>2, <2>12, LockIsOwnKept DEF CreateImport, Holds, TypeOK
  <2>13. CASE UnlockTranslation(s)
    <3>1. Holds(s) /\ ~Holds(s)'
      BY <2>13 DEF UnlockTranslation, Return, Holds, TypeOK
    <3> QED
      BY <2>1, <2>3, <2>13, <3>1, LockIsOwnKept
         DEF UnlockTranslation, UpdateFails, Return, TypeOK
  <2>14. CASE Crash(s)
    <3>1. ~Holds(s)'
      BY <2>14 DEF Crash, Return, Holds, TypeOK
    <3> QED
      BY <2>14, <3>1, LockIsOwnKept DEF Crash, Return, TypeOK
  <2> QED
    BY <1>2, <2>4, <2>5, <2>6, <2>7, <2>8, <2>9, <2>10, <2>11, <2>12, <2>13,
       <2>14 DEF Supervise
<1>3. CASE UNCHANGED vars
  BY <1>3 DEF vars, LockIsOwn, Holds
<1> QED BY <1>1, <1>2, <1>3 DEF Next

\* While it works, a supervisor finds its own lock in the row and in its
\* memory: no full-row update of supervise() can free or steal a lock.
THEOREM LockStaysOwn == Spec => []LockIsOwn
<1>1. Init => TypeOK /\ LockIsOwn
  BY InitTypeOK, InitLockIsOwn
<1>2. TypeOK /\ LockIsOwn /\ [Next]_vars => (TypeOK /\ LockIsOwn)'
  BY TypeStep, LockStep
<1> QED BY <1>1, <1>2, PTL DEF Spec

\* Two supervisors never work on one translation at once, however many there
\* are, whatever fails and whoever dies.
THEOREM Exclusion == Spec => []MutualExclusion
  BY LockStaysOwn, LockIsOwnExcludes, PTL

--------------------------------------------------------------------------------
(* Without a fault a locked row names the supervisor that works on it. *)

HeldByOwner ==
    \A t \in Translations, s \in Supervisors :
        translations[t].LockedBy = s => Holds(s) /\ cur[s] = t

LEMMA HeldStep ==
  ASSUME TypeOK, LockIsOwn, HeldByOwner, [Next]_vars, NoFault
  PROVE  HeldByOwner'
<1> USE ConstantsAssumption DEF HeldByOwner
<1>1. ASSUME NEW t \in Translations, CreateTranslation(t) PROVE HeldByOwner'
  BY <1>1 DEF CreateTranslation, Holds
<1>2. ASSUME NEW s \in Supervisors, Supervise(s) \/ Crash(s) PROVE HeldByOwner'
  <2>1. faults \in Nat /\ faults' = faults /\ ~Fault
    BY DEF TypeOK
  <2>2. pc[s] # "idle" => /\ cur[s] \in Translations
                          /\ translations[cur[s]] \in Row
                          /\ copy[s] \in Row
    BY DEF TypeOK
  <2>3. Holds(s) => copy[s].LockedBy = s
    BY DEF LockIsOwn
  <2> HIDE DEF Fault
  <2>4. CASE GetTranslationReadyToStart(s)
    BY <2>4 DEF GetTranslationReadyToStart, Holds, TypeOK
  <2>5. CASE WinLock(s)
    <3>1. /\ LockedRow(translations[cur[s]], s).LockedBy = s
          /\ cur[s] \in Translations
      BY <2>2, <2>5, RowTypes DEF WinLock
    <3> QED BY <2>5, <3>1 DEF WinLock, Holds, TypeOK
  <2>6. CASE LoseLock(s)
    BY <2>1, <2>6 DEF LoseLock, UpdateFails, Return, Holds, TypeOK
  <2>7. CASE NewTranslatorFails(s)
    BY <2>7 DEF NewTranslatorFails, Holds, TypeOK
  <2>8. CASE MarkStarted(s)
    <3>1. StartedRow(copy[s]).LockedBy = s /\ cur[s] \in Translations
      BY <2>2, <2>3, <2>8, RowTypes DEF MarkStarted, Holds
    <3> QED BY <2>1, <2>8, <3>1 DEF MarkStarted, UpdateFails, Holds, TypeOK
  <2>9. CASE Translate(s)
    BY <2>9 DEF Translate, Holds, TypeOK
  <2>10. CASE MarkComplete(s)
    BY <2>1, <2>2, <2>3, <2>10 DEF MarkComplete, UpdateFails, Holds, TypeOK
  <2>11. CASE Validate(s)
    BY <2>11 DEF Validate, Holds, TypeOK
  <2>12. CASE CreateImport(s)
    BY <2>12 DEF CreateImport, Holds, TypeOK
  <2>13. CASE UnlockTranslation(s)
    <3>1. UnlockedRow(copy[s]).LockedBy = NoOwner /\ cur[s] \in Translations
      BY <2>2, <2>13, RowTypes DEF UnlockTranslation
    <3> QED BY <2>1, <2>13, <3>1 DEF UnlockTranslation, UpdateFails, Return, Holds, TypeOK
  <2>14. CASE Crash(s)
    BY <2>1, <2>14 DEF Crash
  <2> QED
    BY <1>2, <2>4, <2>5, <2>6, <2>7, <2>8, <2>9, <2>10, <2>11, <2>12, <2>13,
       <2>14 DEF Supervise
<1>3. CASE UNCHANGED vars
  BY <1>3 DEF vars, Holds
<1> QED BY <1>1, <1>2, <1>3 DEF Next

\* Faults are only counted up.
LEMMA FaultsCounted ==
  ASSUME TypeOK, [Next]_vars
  PROVE  NoFault \/ faults' # 0
<1> USE DEF TypeOK, Fault, NoFault
<1>1. ASSUME NEW s \in Supervisors, Supervise(s) \/ Crash(s)
      PROVE  NoFault \/ faults' # 0
  BY <1>1
     DEF Supervise, Crash, GetTranslationReadyToStart, WinLock, LoseLock,
         UpdateFails, NewTranslatorFails, MarkStarted, Translate, MarkComplete,
         Validate, CreateImport, UnlockTranslation
<1> QED BY <1>1 DEF Next, CreateTranslation, vars

\* Without a fault no path of supervise() returns and leaves its lock behind:
\* a locked row is one that a supervisor is working on.
THEOREM NoLockIsLeaked == Spec => []NoLockLeaked
<1> DEFINE Held == faults = 0 => HeldByOwner
<1>1. Init => Held
  BY ConstantsAssumption, NewRowType DEF Init, HeldByOwner
<1>2. TypeOK /\ LockIsOwn /\ Held /\ [Next]_vars => Held'
  <2> SUFFICES ASSUME TypeOK, LockIsOwn, Held, [Next]_vars, faults' = 0
               PROVE  HeldByOwner'
    OBVIOUS
  <2>1. NoFault
    BY FaultsCounted
  <2> QED BY <2>1, HeldStep
<1>3. TypeOK /\ Held => NoLockLeaked
  BY DEF TypeOK, Row, NoLockLeaked, HeldByOwner, Holders
<1> QED BY <1>1, <1>2, <1>3, TypeCorrect, LockStaysOwn, PTL DEF Spec
--------------------------------------------------------------------------------
(* The lock of the table is a lease.  The workers under the lease of a       *)
(* translation are its Holders; it is lost when the row is locked and nobody *)
(* works under the lock.                                                     *)

holders == [t \in Translations |-> Holders(t)]

lost == {t \in Translations : ~Lockable(t) /\ Holders(t) = {}}

LEMMA InitLease == Init => Lease!Init
  BY DEF Init, Lease!Init, Holders, Holds, Lockable, NewRow

\* A step that moves nobody into or out of a lock and no lock in the table.
LEMMA LeaseStutters ==
  ASSUME \A r \in Supervisors : /\ Holds(r)' <=> Holds(r)
                                /\ Holds(r) => cur'[r] = cur[r],
         \A t \in Translations : Lockable(t)' <=> Lockable(t)
  PROVE  UNCHANGED Lease!vars
<1>1. \A t \in Translations : Holders(t)' = Holders(t)
  BY DEF Holders
<1> QED BY <1>1 DEF Lease!vars

\* Who works under a lock is the one whose name it carries.
LEMMA HoldersOwn ==
  ASSUME TypeOK, LockIsOwn, NEW t \in Translations
  PROVE  /\ Lockable(t) => Holders(t) = {}
         /\ \A s \in Supervisors :
               s \in Holders(t) => Holders(t) = {s} /\ ~Lockable(t)
  BY ConstantsAssumption DEF LockIsOwn, Holders, Lockable

\* Only s moves, from no lock to that of i or back to none.
LEMMA HoldersMove ==
  ASSUME NEW s \in Supervisors, NEW t \in Translations,
         \A r \in Supervisors \ {s} : pc'[r] = pc[r] /\ cur'[r] = cur[r]
  PROVE  Holders(t)' = (Holders(t) \ {s})
                       \cup (IF Holds(s)' /\ cur'[s] = t THEN {s} ELSE {})
  BY DEF Holders, Holds

LEMMA WinLockAcquires ==
  ASSUME TypeOK, LockIsOwn, LockIsOwn', NEW s \in Supervisors, WinLock(s)
  PROVE  Lease!Acquire(s, cur[s])
<1> USE ConstantsAssumption
<1>1. /\ cur[s] \in Translations /\ cur' = cur
      /\ ~Holds(s) /\ Holds(s)' /\ Lockable(cur[s])
      /\ \A r \in Supervisors \ {s} : pc'[r] = pc[r]
  BY DEF WinLock, TypeOK, Holds
<1>2. \A t \in Translations : /\ Holders(t)' = IF t = cur[s] THEN {s} ELSE Holders(t)
                             /\ s \notin Holders(t)
  BY <1>1, HoldersMove, HoldersOwn DEF Holders
<1>3. \A t \in Translations \ {cur[s]} : Lockable(t)' <=> Lockable(t)
  BY DEF WinLock, Lockable, TypeOK
<1>4. lost' = lost
  BY <1>1, <1>2, <1>3 DEF lost
<1>5. holders' = [holders EXCEPT ![cur[s]] = {s}]
  BY <1>1, <1>2 DEF holders
<1> QED
  BY <1>1, <1>2, <1>4, <1>5, HoldersOwn DEF Lease!Acquire, holders, lost

\* s stops to work on its translation, and writes no row but that one.
LEMMA HolderLeaves ==
  ASSUME TypeOK, LockIsOwn, NEW s \in Supervisors, Holds(s), ~Holds(s)',
         \A r \in Supervisors \ {s} : pc'[r] = pc[r] /\ cur'[r] = cur[r],
         \A t \in Translations \ {cur[s]} : translations'[t] = translations[t],
         translations'[cur[s]].LockedBy \in {s, NoOwner}
  PROVE  Lease!Release(s, cur[s]) \/ Lease!Abandon(s, cur[s])
<1> USE ConstantsAssumption
<1>1. cur[s] \in Translations /\ s \in Holders(cur[s])
  BY DEF TypeOK, Holds, Holders
<1>2. \A t \in Translations :
        Holders(t)' = IF t = cur[s] THEN Holders(t) \ {s} ELSE Holders(t)
  BY HoldersMove DEF Holders
<1>3. holders' = [holders EXCEPT ![cur[s]] = @ \ {s}]
  BY <1>1, <1>2 DEF holders
<1>4. \A t \in Translations \ {cur[s]} : Lockable(t)' <=> Lockable(t)
  BY DEF Lockable
<1>5. Holders(cur[s]) = {s}
  BY <1>1, HoldersOwn
<1>6. cur[s] \notin lost
  BY <1>1, <1>5 DEF lost
<1>7. \A t \in Translations :
        t \in lost' <=> (t \in lost \/ (t = cur[s] /\ ~Lockable(t)'))
  BY <1>1, <1>2, <1>4, <1>5, <1>6 DEF lost
<1>8. lost \subseteq Translations /\ lost' \subseteq Translations
  BY DEF lost
<1>9. CASE \A t \in Translations : t = cur[s] => Lockable(t)'
  <2>1. \A t \in Translations : t \in lost' <=> t \in lost
    BY <1>7, <1>9
  <2>2. lost' = lost
    BY <1>8, <2>1
  <2> QED BY <1>1, <1>3, <2>2 DEF Lease!Release, holders, lost
<1>10. CASE \E t \in Translations : t = cur[s] /\ ~Lockable(t)'
  <2>1. \A t \in Translations : t \in lost' <=> t \in lost \/ t = cur[s]
    BY <1>7, <1>10
  <2>2. lost' = lost \cup {cur[s]}
    BY <1>1, <1>8, <2>1
  <2> QED BY <1>1, <1>3, <2>2 DEF Lease!Abandon, holders, lost
<1> QED BY <1>9, <1>10

LEMMA LoseLockMisgrants ==
  ASSUME TypeOK, LockIsOwn, NEW s \in Supervisors, LoseLock(s)
  PROVE  Lease!Misgrant(cur[s]) \/ UNCHANGED Lease!vars
<1> USE ConstantsAssumption
<1>1. /\ cur[s] \in Translations /\ ~Holds(s) /\ ~Holds(s)'
      /\ \A r \in Supervisors \ {s} : pc'[r] = pc[r] /\ cur'[r] = cur[r]
  BY DEF LoseLock, Return, TypeOK, Holds
<1>2. \A t \in Translations : Holders(t)' = Holders(t)
  BY <1>1, HoldersMove DEF Holders
<1>3. CASE UNCHANGED translations
  BY <1>2, <1>3 DEF Lease!vars, Lockable
<1>4. CASE /\ Lockable(cur[s])
           /\ UpdateTranslation(cur[s], LockedRow(translations[cur[s]], s))
  <2>1. translations[cur[s]] \in Row
    BY <1>1 DEF TypeOK
  <2>2. /\ translations'[cur[s]].LockedBy = s
        /\ \A t \in Translations \ {cur[s]} : translations'[t] = translations[t]
    BY <1>1, <1>4, <2>1, RowTypes DEF TypeOK
  <2>3. cur[s] \in Translations /\ ~(translations'[cur[s]].LockedBy = NoOwner)
    BY <1>1, <2>2
  <2>4. Holders(cur[s]) = {}
    BY <1>1, <1>4, HoldersOwn
  <2>5. lost' = lost \cup {cur[s]} /\ cur[s] \notin lost
    BY <1>2, <1>4, <2>2, <2>3, <2>4 DEF lost, Lockable
  <2>6. holders' = holders
    BY <1>2 DEF holders
  <2> QED
    BY <1>1, <2>4, <2>5, <2>6 DEF Lease!Misgrant, holders, lost
<1> QED BY <1>3, <1>4 DEF LoseLock, UpdateFails

LEMMA LeaseStep ==
  ASSUME TypeOK, TypeOK', LockIsOwn, [Next]_vars
  PROVE  [Lease!Next]_(Lease!vars)
<1> USE ConstantsAssumption
<1>1. ASSUME NEW t \in Translations, CreateTranslation(t)
      PROVE  UNCHANGED Lease!vars
  BY <1>1, LeaseStutters DEF CreateTranslation, Holds, Lockable
<1>2. ASSUME NEW s \in Supervisors, Supervise(s) \/ Crash(s)
      PROVE  \/ UNCHANGED Lease!vars
             \/ \E i \in Translations :
                  \/ Lease!Acquire(s, i) \/ Lease!Release(s, i)
                  \/ Lease!Abandon(s, i) \/ Lease!Misgrant(i)
  <2>1. pc[s] # "idle" => /\ cur[s] \in Translations
                          /\ translations[cur[s]] \in Row
                          /\ copy[s] \in Row
    BY DEF TypeOK
  <2>2. Holds(s) => /\ translations[cur[s]].LockedBy = s
                    /\ copy[s].LockedBy = s
    BY DEF LockIsOwn
  \* An update under the lock that does not touch LockedBy.
  <2>3. ASSUME NEW row, row.LockedBy = s, Holds(s), Holds(s)', cur' = cur,
               UNCHANGED translations \/ UpdateTranslation(cur[s], row),
               \A r \in Supervisors \ {s} : pc'[r] = pc[r]
        PROVE  UNCHANGED Lease!vars
    <3>1. \A t \in Translations :
            translations'[t].LockedBy = translations[t].LockedBy
      BY <2>1, <2>2, <2>3 DEF TypeOK, Holds
    <3> QED BY <2>3, <3>1, LeaseStutters DEF Holds, Lockable
  <2>4. CASE GetTranslationReadyToStart(s)
    BY <2>4, LeaseStutters DEF GetTranslationReadyToStart, Holds, Lockable, TypeOK
  <2>5. CASE WinLock(s)
    BY <2>1, <2>5, WinLockAcquires, LockStep, TypeStep DEF WinLock
  <2>6. CASE LoseLock(s)
    BY <2>1, <2>6, LoseLockMisgrants DEF LoseLock
  <2>7. CASE NewTranslatorFails(s)
    BY <2>7, LeaseStutters DEF NewTranslatorFails, Holds, Lockable, TypeOK
  <2>8. CASE MarkStarted(s)
    <3>1. Holds(s) /\ Holds(s)' BY <2>8 DEF MarkStarted, Holds, TypeOK
    <3>2. StartedRow(copy[s]).LockedBy = s
      BY <2>1, <2>2, <2>8, <3>1, RowTypes DEF MarkStarted
    <3> QED BY <2>3, <2>8, <3>1, <3>2 DEF MarkStarted, UpdateFails, TypeOK
  <2>9. CASE Translate(s)
    BY <2>9, LeaseStutters DEF Translate, Holds, Lockable, TypeOK
  <2>10. CASE MarkComplete(s)
    <3>1. Holds(s) /\ Holds(s)' BY <2>10 DEF MarkComplete, Holds, TypeOK
    <3> QED BY <2>2, <2>3, <2>10, <3>1 DEF MarkComplete, UpdateFails, TypeOK
  <2>11. CASE Validate(s)
    BY <2>11, LeaseStutters DEF Validate, Holds, Lockable, TypeOK
  <2>12. CASE CreateImport(s)
    BY <2>12, LeaseStutters DEF CreateImport, Holds, Lockable, TypeOK
  <2>13. CASE UnlockTranslation(s)
    <3>1. Holds(s) /\ ~Holds(s)' /\ cur[s] \in Translations
      BY <2>1, <2>13 DEF UnlockTranslation, Return, Holds, TypeOK
    <3>2. UnlockedRow(copy[s]).LockedBy = NoOwner
      BY <2>1, <2>13, RowTypes DEF UnlockTranslation
    <3>3. translations'[cur[s]].LockedBy \in {s, NoOwner}
      BY <2>2, <2>13, <3>1, <3>2 DEF UnlockTranslation, UpdateFails, TypeOK
    <3> QED
      BY <2>13, <3>1, <3>3, HolderLeaves
         DEF UnlockTranslation, UpdateFails, Return, TypeOK
  <2>14. CASE Crash(s)
    <3>1. ~Holds(s)'
      BY <2>14 DEF Crash, Return, Holds, TypeOK
    <3>2. CASE Holds(s)
      BY <2>1, <2>2, <2>14, <3>1, <3>2, HolderLeaves DEF Crash, Return, TypeOK
    <3>3. CASE ~Holds(s)
      BY <2>14, <3>1, <3>3, LeaseStutters DEF Crash, Return, Holds, Lockable, TypeOK
    <3> QED BY <3>2, <3>3
  <2> QED
    BY <1>2, <2>4, <2>5, <2>6, <2>7, <2>8, <2>9, <2>10, <2>11, <2>12, <2>13,
       <2>14 DEF Supervise
<1>3. CASE UNCHANGED vars
  BY <1>3, LeaseStutters DEF vars, Holds, Lockable
<1> QED BY <1>1, <1>2, <1>3 DEF Next, Lease!Next

\* The lock of the Translation table is a lease: granted only when free, to a
\* supervisor that has no other, and once lost by a fault never granted again.
THEOREM TranslationLease == Spec => ImplementsLease
<1>1. TypeOK /\ TypeOK' /\ LockIsOwn /\ [Next]_vars => [Lease!Next]_(Lease!vars)
  BY LeaseStep
<1> QED
  BY InitLease, <1>1, TypeCorrect, LockStaysOwn, PTL
     DEF Spec, ImplementsLease, Lease!Spec
================================================================================
