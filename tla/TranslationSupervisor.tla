------------------------- MODULE TranslationSupervisor -------------------------
(***************************************************************************)
(* The translation half of the AWAT: internal/supervisor/translation.go    *)
(* over the Translation table of internal/store/translation.go.            *)
(*                                                                         *)
(* Each supervisor is one goroutine of one server process; several servers *)
(* may share the database.  supervise() is cut at every statement it sends *)
(* to the database and at the translation itself: those are the points     *)
(* where another supervisor, an error or the end of the process can come   *)
(* between.  A timestamp is abstracted to whether it is set.               *)
(***************************************************************************)
EXTENDS Naturals

CONSTANTS Translations,   \* translations that clients may request
          Supervisors,    \* running translation supervisors
          Type,           \* Type[t]: the archive type in the request
          CreateAt,       \* CreateAt[t]: the time of the insert (may tie)
          NoOwner,        \* the empty LockedBy
          NoTranslation,  \* a supervisor that works on nothing
          MaxFaults       \* bound on database errors and process deaths

BackupTypes == {"slack", "mattermost"}

ASSUME ConstantsAssumption ==
    /\ NoOwner \notin Supervisors
    /\ NoTranslation \notin Translations
    /\ CreateAt \in [Translations -> Nat]
    /\ MaxFaults \in Nat

VARIABLES
  created,       \* the rows of the Translation table
  translations,  \* translations[t]: StartAt and CompleteAt set?, LockedBy
  imports,       \* imports[t]: rows of the Import table made from t
  pc,            \* pc[s]: where supervise() is
  cur,           \* cur[s]: the translation it handles
  copy,          \* copy[s]: its in-memory model.Translation
  faults         \* errors and deaths so far

vars == <<created, translations, imports, pc, cur, copy, faults>>

Row == [StartAt : BOOLEAN, CompleteAt : BOOLEAN,
        LockedBy : Supervisors \cup {NoOwner}]

NewRow == [StartAt |-> FALSE, CompleteAt |-> FALSE, LockedBy |-> NoOwner]

\* What a client is told of a translation.
State(row) ==
    IF ~row.StartAt THEN "translation-requested"
    ELSE IF ~row.CompleteAt THEN "translation-in-progress"
    ELSE "translation-complete"

--------------------------------------------------------------------------------

Init ==
    /\ created = {}
    /\ translations = [t \in Translations |-> NewRow]
    /\ imports = [t \in Translations |-> 0]
    /\ pc = [s \in Supervisors |-> "idle"]
    /\ cur = [s \in Supervisors |-> NoTranslation]
    /\ copy = [s \in Supervisors |-> NewRow]
    /\ faults = 0

\* A client's request is stored.  A type the translators do not know is
\* stored like any other: the request is only checked to name a type.  The
\* time is taken before the insert, so rows need not appear in its order.
CreateTranslation(t) ==
    /\ t \notin created
    /\ created' = created \cup {t}
    /\ UNCHANGED <<translations, imports, pc, cur, copy, faults>>

Fault == faults < MaxFaults /\ faults' = faults + 1

NoFault == UNCHANGED faults

\* UPDATE Translation SET <every column> WHERE ID = t
UpdateTranslation(t, row) == translations' = [translations EXCEPT ![t] = row]

\* A statement that answers with an error may still have taken effect.
UpdateFails(t, row) ==
    /\ Fault
    /\ UpdateTranslation(t, row) \/ UNCHANGED translations

Goto(s, label) == pc' = [pc EXCEPT ![s] = label]

ReturnKeepingCur(s) ==   \* mutant: the session is not forgotten
    /\ Goto(s, "idle")
    /\ copy' = [copy EXCEPT ![s] = NewRow]
    /\ UNCHANGED cur

Return(s) ==
    /\ Goto(s, "idle")
    /\ cur' = [cur EXCEPT ![s] = NoTranslation]
    /\ copy' = [copy EXCEPT ![s] = NewRow]

--------------------------------------------------------------------------------
(* The decisions of the statements, and what the memory copy becomes. *)

ReadyIfUnlocked(t) ==    \* mutant: WHERE StartAt = 0 is dropped
    t \in created /\ translations[t].LockedBy = NoOwner

Ready(t) ==
    /\ t \in created
    /\ ~translations[t].StartAt
    /\ translations[t].LockedBy = NoOwner

NewestReady ==           \* mutant: ORDER BY CreateAt DESC
    {t \in Translations : Ready(t) /\ \A u \in Translations :
                             Ready(u) => CreateAt[t] >= CreateAt[u]}

\* ORDER BY CreateAt ASC LIMIT 1: any of the oldest.
ReadyToStart ==
    {t \in Translations : Ready(t) /\ \A u \in Translations :
                             Ready(u) => CreateAt[t] <= CreateAt[u]}

AlwaysLockable(t) == TRUE   \* mutant: WHERE LockedBy = '' is dropped

\* The lock is won on the LockedBy column alone: StartAt is not looked at
\* again, and the copy read before is kept.
Lockable(t) == translations[t].LockedBy = NoOwner

LockedRow(row, s) == [row EXCEPT !.LockedBy = s]

StartedRow(row) == [row EXCEPT !.StartAt = TRUE]

NeverCompleted(row) == row   \* mutant: CompleteAt is not set

CompletedRow(row) == [row EXCEPT !.CompleteAt = TRUE]

StillLocked(row) == row      \* mutant: the unlock does not clear LockedBy

Rescheduled(row) ==          \* mutant: the unlock resets StartAt too
    [row EXCEPT !.LockedBy = NoOwner, !.StartAt = FALSE]

UnlockedRow(row) == [row EXCEPT !.LockedBy = NoOwner]

--------------------------------------------------------------------------------
(* supervise() *)

GetTranslationReadyToStart(s) ==
    /\ pc[s] = "idle"
    /\ \E t \in ReadyToStart :
         /\ cur' = [cur EXCEPT ![s] = t]
         /\ copy' = [copy EXCEPT ![s] = translations[t]]
    /\ Goto(s, "selected")
    /\ UNCHANGED <<created, translations, imports, faults>>

WinLock(s) ==
    /\ pc[s] = "selected"
    /\ Lockable(cur[s])
    /\ UpdateTranslation(cur[s], LockedRow(translations[cur[s]], s))
    /\ copy' = [copy EXCEPT ![s] = LockedRow(@, s)]
    /\ Goto(s, "locked")
    /\ UNCHANGED <<created, imports, cur, faults>>

\* No row matched, or the statement failed: either way supervise() returns
\* before it defers the unlock.
LoseLock(s) ==
    /\ pc[s] = "selected"
    /\ \/ ~Lockable(cur[s]) /\ NoFault /\ UNCHANGED translations
       \/ /\ Lockable(cur[s])
          /\ UpdateFails(cur[s], LockedRow(translations[cur[s]], s))
    /\ Return(s)
    /\ UNCHANGED <<created, imports>>

\* NewTranslator refuses an unknown type; for Slack it may also fail to load
\* the AWS configuration.  The translation is unlocked again, unstarted.
NewTranslatorFails(s) ==
    /\ pc[s] = "locked"
    /\ \/ Type[cur[s]] \notin BackupTypes /\ NoFault
       \/ Type[cur[s]] = "slack" /\ Fault
    /\ Goto(s, "unlocking")
    /\ UNCHANGED <<created, translations, imports, cur, copy>>

\* StartAt is set in memory before the update: the deferred unlock writes it
\* even if this update fails.
MarkStarted(s) ==
    /\ pc[s] = "locked"
    /\ Type[cur[s]] \in BackupTypes
    /\ copy' = [copy EXCEPT ![s] = StartedRow(@)]
    /\ \/ /\ UpdateTranslation(cur[s], StartedRow(copy[s]))
          /\ Goto(s, "translating")
          /\ NoFault
       \/ /\ UpdateFails(cur[s], StartedRow(copy[s]))
          /\ Goto(s, "unlocking")
    /\ UNCHANGED <<created, imports, cur>>

\* The Mattermost translator cannot fail; the Slack one can, on its input,
\* its working directory or S3.
Translate(s) ==
    /\ pc[s] = "translating"
    /\ \/ /\ copy' = [copy EXCEPT ![s] = CompletedRow(@)]
          /\ Goto(s, "completing")
       \/ /\ Type[cur[s]] = "slack"
          /\ Goto(s, "unlocking")
          /\ UNCHANGED copy
    /\ UNCHANGED <<created, translations, imports, cur, faults>>

MarkComplete(s) ==
    /\ pc[s] = "completing"
    /\ \/ /\ UpdateTranslation(cur[s], copy[s])
          /\ Goto(s, "validating")
          /\ NoFault
       \/ /\ UpdateFails(cur[s], copy[s])
          /\ Goto(s, "unlocking")
    /\ UNCHANGED <<created, imports, cur, copy>>

ValidateEverything(s) ==     \* mutant: validation may fail for any type
    /\ pc[s] = "validating"
    /\ Goto(s, "importing") \/ Goto(s, "unlocking")
    /\ UNCHANGED <<created, translations, imports, cur, copy, faults>>

\* Only a translated archive is validated here.
Validate(s) ==
    /\ pc[s] = "validating"
    /\ \/ Goto(s, "importing")
       \/ Type[cur[s]] # "mattermost" /\ Goto(s, "unlocking")
    /\ UNCHANGED <<created, translations, imports, cur, copy, faults>>

CreateImport(s) ==
    /\ pc[s] = "importing"
    /\ \/ imports' = [imports EXCEPT ![cur[s]] = @ + 1] /\ NoFault
       \/ /\ Fault
          /\ \/ imports' = [imports EXCEPT ![cur[s]] = @ + 1]
             \/ UNCHANGED imports
    /\ Goto(s, "unlocking")
    /\ UNCHANGED <<created, translations, cur, copy>>

\* The deferred unlock writes the whole row back, not the lock alone.
UnlockTranslation(s) ==
    /\ pc[s] = "unlocking"
    /\ \/ UpdateTranslation(cur[s], UnlockedRow(copy[s])) /\ NoFault
       \/ UpdateFails(cur[s], UnlockedRow(copy[s]))
    /\ Return(s)
    /\ UNCHANGED <<created, imports>>

\* The process is killed, or exits on SIGTERM without waiting for the
\* supervisors, and is started again.
Crash(s) ==
    /\ pc[s] # "idle"
    /\ Fault
    /\ Return(s)
    /\ UNCHANGED <<created, translations, imports>>

Supervise(s) ==
    \/ GetTranslationReadyToStart(s)
    \/ WinLock(s) \/ LoseLock(s)
    \/ NewTranslatorFails(s) \/ MarkStarted(s)
    \/ Translate(s) \/ MarkComplete(s)
    \/ Validate(s) \/ CreateImport(s)
    \/ UnlockTranslation(s)

Next == \/ \E t \in Translations : CreateTranslation(t)
        \/ \E s \in Supervisors : Supervise(s) \/ Crash(s)

Spec == Init /\ [][Next]_vars

\* Start() calls supervise() again and again on a goroutine of its own, and
\* every statement in it comes back with an answer or an error.
FairSpec == Spec /\ \A s \in Supervisors : WF_vars(Supervise(s))

--------------------------------------------------------------------------------
(* Properties *)

Holds(s) == pc[s] \notin {"idle", "selected"}

Holders(t) == {s \in Supervisors : Holds(s) /\ cur[s] = t}

Labels == {"idle", "selected", "locked", "translating", "completing",
           "validating", "importing", "unlocking"}

\* The variables have their types, and a supervisor has a translation in hand
\* exactly while supervise() is past its first statement.
TypeOK ==
    /\ created \subseteq Translations
    /\ translations \in [Translations -> Row]
    /\ imports \in [Translations -> Nat]
    /\ pc \in [Supervisors -> Labels]
    /\ cur \in [Supervisors -> Translations \cup {NoTranslation}]
    /\ copy \in [Supervisors -> Row]
    /\ faults \in 0..MaxFaults
    /\ \A s \in Supervisors : pc[s] = "idle" <=> cur[s] = NoTranslation

\* Two supervisors never work on one translation at once, whatever fails and
\* whoever dies: the lock of supervise() is exclusive although every update
\* under it rewrites the LockedBy column from memory.
MutualExclusion ==
    \A r, s \in Supervisors :
        Holds(r) /\ Holds(s) /\ cur[r] = cur[s] => r = s

\* While it works, the row and the memory copy both carry the supervisor's own
\* lock, so none of its full-row writes can free or steal a lock.
LockIsOwn ==
    \A s \in Supervisors :
        Holds(s) => /\ translations[cur[s]].LockedBy = s
                    /\ copy[s].LockedBy = s

\* Without a fault no path of supervise() returns with the lock left behind:
\* a locked row is one that a supervisor is working on.
NoLockLeaked ==
    faults = 0 => \A t \in Translations :
        translations[t].LockedBy # NoOwner => Holders(t) # {}

\* One supervisor makes at most one import of a translation, whatever fails in
\* between: the row is marked as started before the work begins.
AtMostOneImport == \A t \in Translations : imports[t] <= 1

\* An import exists only of a translation that its clients see as complete.
ImportedIsComplete ==
    \A t \in Translations :
        imports[t] > 0 => State(translations[t]) = "translation-complete"

Rank(row) == CASE State(row) = "translation-requested" -> 0
               [] State(row) = "translation-in-progress" -> 1
               [] State(row) = "translation-complete" -> 2

\* The state a client polls never goes back, although each update writes
\* every column from a copy that was read before the lock was taken.
StateOnlyAdvances ==
    [][\A t \in Translations :
          Rank(translations'[t]) >= Rank(translations[t])]_vars

\* Unless something fails, a stored translation of a known type is eventually
\* picked up, and every session on it ends: "The supervisor will periodically
\* discover stored Translations such as this, and begin work on them."
Discovered ==
    \A t \in Translations :
        t \in created /\ Type[t] \in BackupTypes
            ~> faults > 0 \/ (translations[t].StartAt /\ Lockable(t))

\* "When the translation is complete, if it is successful, an import job will
\* be created": a completed Mattermost archive, which is not validated again,
\* gets its import unless something fails.
CompleteIsImported ==
    \A t \in Translations :
        Type[t] = "mattermost" /\ translations[t].CompleteAt
            ~> faults > 0 \/ imports[t] > 0

Lease == INSTANCE WorkLease WITH
    Items   <- Translations,
    Workers <- Supervisors,
    holders <- [t \in Translations |-> Holders(t)],
    lost    <- {t \in Translations : ~Lockable(t) /\ Holders(t) = {}}

\* The lock of the Translation table is a lease: granted only when free, to a
\* supervisor that has no other, and once lost by a fault never granted again.
ImplementsLease == Lease!Spec
================================================================================
