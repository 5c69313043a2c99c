------------------------- MODULE SchemaMigrationProofs -------------------------
(***************************************************************************)
(* What `awat schema migrate` guarantees for any number of faults: with one*)
(* migrator the recorded version is what has been applied; with any number *)
(* of them no server starts on a schema that lacks a migration, and only   *)
(* the rescaling of timestamps can be repeated.                            *)
(***************************************************************************)
EXTENDS SchemaMigration, TLAPS

USE ConstantsAssumption
USE DEF LatestVersion, Versions, Rescaling, Goto, Fault, NoFault

OneMigrator == \A m, q \in Migrators : m = q

--------------------------------------------------------------------------------
(* Types *)

\* An open transaction migrates from a version that is not the latest.
VersionsInReach ==
    \A m \in Migrators :
        /\ pc[m] = "applied" => version[m] \in 0..(LatestVersion - 1)
        /\ pc[m] = "recorded" => version[m] \in 1..LatestVersion

LEMMA Chain ==
  \A step \in migrations : /\ step[1] \in 0..(LatestVersion - 1)
                           /\ step[2] = step[1] + 1
BY DEF migrations

LEMMA NoneAfterLatest ==
  ASSUME NEW v \in Versions, \A step \in migrations : step[1] # v
  PROVE  v = LatestVersion
BY DEF migrations

LEMMA TypeStep ==
  ASSUME TypeOK, VersionsInReach, [Next]_vars
  PROVE  TypeOK' /\ VersionsInReach'
<1>1. ASSUME NEW m \in Migrators, ReadVersion(m)
      PROVE  TypeOK' /\ VersionsInReach'
  BY <1>1 DEF ReadVersion, TypeOK, VersionsInReach
<1>2. ASSUME NEW m \in Migrators, ApplyMigration(m)
      PROVE  TypeOK' /\ VersionsInReach'
  <2>1. PICK step \in migrations :
          /\ step[1] = version[m]
          /\ \/ Goto(m, "applied") /\ UNCHANGED version /\ NoFault
             \/ Fail(m) /\ NoFault
             \/ Fail(m) /\ Fault
    BY <1>2 DEF ApplyMigration
  <2>2. version[m] \in 0..(LatestVersion - 1)
    BY <2>1, Chain
  <2> QED
    BY <1>2, <2>1, <2>2 DEF ApplyMigration, Fail, TypeOK, VersionsInReach
<1>3. ASSUME NEW m \in Migrators, setCurrentVersion(m)
      PROVE  TypeOK' /\ VersionsInReach'
  BY <1>3 DEF setCurrentVersion, Fail, TypeOK, VersionsInReach
<1>4. ASSUME NEW m \in Migrators, Commit(m)
      PROVE  TypeOK' /\ VersionsInReach'
  BY <1>4 DEF Commit, Committed, Fail, TypeOK, VersionsInReach
<1>5. ASSUME NEW m \in Migrators, Finish(m) \/ Crash(m)
      PROVE  TypeOK' /\ VersionsInReach'
  BY <1>5 DEF Finish, Crash, Fail, TypeOK, VersionsInReach
<1>6. ASSUME NEW s \in Servers, StartServer(s)
      PROVE  TypeOK' /\ VersionsInReach'
  BY <1>6 DEF StartServer, TypeOK, VersionsInReach
<1>7. CASE UNCHANGED vars
  BY <1>7 DEF vars, TypeOK, VersionsInReach
<1> QED
  BY <1>1, <1>2, <1>3, <1>4, <1>5, <1>6, <1>7 DEF Next, Migrate

LEMMA InitTypeOK == Init => TypeOK /\ VersionsInReach
BY DEF Init, TypeOK, VersionsInReach

LEMMA TypesAlways == Spec => [](TypeOK /\ VersionsInReach)
BY InitTypeOK, TypeStep, PTL DEF Spec

\* The variables of the migration have their types, for any number of
\* migrators: no transaction goes beyond the latest version.
THEOREM MigrationTypeCorrect == Spec => []TypeOK
BY TypesAlways, PTL

--------------------------------------------------------------------------------
(* One migrator *)

\* A migrator that is alone knows the version, or has failed to read it.
KnowsVersion(m) ==
    /\ pc[m] = "loop" => version[m] \in {0, recorded}
    /\ pc[m] = "applied" => version[m] = recorded
    /\ pc[m] = "recorded" => version[m] = recorded + 1

AloneInv == VersionIsApplied /\ \A m \in Migrators : KnowsVersion(m)

LEMMA AloneStep ==
  ASSUME OneMigrator, TypeOK, VersionsInReach, AloneInv, [Next]_vars
  PROVE  AloneInv'
<1> USE DEF AloneInv
<1>1. ASSUME NEW m \in Migrators, VersionIsApplied', KnowsVersion(m)'
      PROVE  AloneInv'
  BY <1>1 DEF OneMigrator
<1>2. ASSUME NEW m \in Migrators, ReadVersion(m)
      PROVE  AloneInv'
  BY <1>1, <1>2 DEF ReadVersion, TypeOK, VersionIsApplied, KnowsVersion
<1>3. ASSUME NEW m \in Migrators, ApplyMigration(m)
      PROVE  AloneInv'
  <2>1. PICK step \in migrations :
          /\ step[1] = version[m]
          /\ \/ /\ ~(step[2] # Rescaling /\ applied[step[2]] > 0)
                /\ Goto(m, "applied") /\ UNCHANGED version
             \/ Fail(m)
    BY <1>3 DEF ApplyMigration
  <2>2. step[2] = version[m] + 1 /\ version[m] \in 0..(LatestVersion - 1)
    BY <2>1, Chain
  <2>3. CASE Goto(m, "applied") /\ UNCHANGED version
    <3>1. version[m] = recorded
      <4>1. CASE version[m] = 0 /\ recorded > 0
        BY <2>1, <2>2, <2>3, <4>1 DEF VersionIsApplied, Fail, TypeOK
      <4> QED BY <1>3, <4>1 DEF KnowsVersion, ApplyMigration, TypeOK
    <3> QED
      BY <1>1, <1>3, <2>3, <3>1
         DEF ApplyMigration, VersionIsApplied, KnowsVersion, TypeOK
  <2>4. CASE Fail(m)
    BY <1>1, <1>3, <2>4
       DEF ApplyMigration, Fail, VersionIsApplied, KnowsVersion, TypeOK
  <2> QED BY <2>1, <2>3, <2>4
<1>4. ASSUME NEW m \in Migrators, setCurrentVersion(m)
      PROVE  AloneInv'
  BY <1>1, <1>4 DEF setCurrentVersion, Fail, TypeOK, VersionIsApplied, KnowsVersion
<1>5. ASSUME NEW m \in Migrators, Commit(m)
      PROVE  AloneInv'
  <2>1. pc[m] = "recorded" /\ version[m] = recorded + 1
    BY <1>5 DEF Commit, KnowsVersion
  <2>2. CASE Committed(m)
    <3>1. VersionIsApplied'
      BY <2>1, <2>2 DEF Committed, VersionIsApplied, TypeOK, VersionsInReach
    <3> QED
      BY <1>1, <1>5, <2>1, <2>2, <3>1 DEF Commit, Committed, Fail, KnowsVersion, TypeOK
  <2>3. CASE UNCHANGED <<recorded, applied>>
    BY <1>1, <1>5, <2>1, <2>3
       DEF Commit, Committed, Fail, VersionIsApplied, KnowsVersion, TypeOK
  <2> QED BY <1>5, <2>2, <2>3 DEF Commit
<1>6. ASSUME NEW m \in Migrators, Finish(m) \/ Crash(m)
      PROVE  AloneInv'
  BY <1>1, <1>6 DEF Finish, Crash, Fail, TypeOK, VersionIsApplied, KnowsVersion
<1>7. ASSUME NEW s \in Servers, StartServer(s)
      PROVE  AloneInv'
  BY <1>7 DEF StartServer, VersionIsApplied, KnowsVersion
<1>8. CASE UNCHANGED vars
  BY <1>8 DEF vars, VersionIsApplied, KnowsVersion
<1> QED
  BY <1>2, <1>3, <1>4, <1>5, <1>6, <1>7, <1>8 DEF Next, Migrate

\* One migrator applies each migration up to the recorded version once, and no
\* other, although an error reads as version 0 and a commit may succeed whose
\* answer is lost.
THEOREM VersionIsTrue ==
  ASSUME OneMigrator
  PROVE  Spec => []VersionIsApplied
<1>1. Init => AloneInv
  BY DEF Init, AloneInv, VersionIsApplied, KnowsVersion
<1>2. TypeOK /\ VersionsInReach /\ AloneInv /\ [Next]_vars => AloneInv'
  BY AloneStep
<1>3. AloneInv => VersionIsApplied
  BY DEF AloneInv
<1> QED BY <1>1, <1>2, <1>3, TypesAlways, PTL DEF Spec

--------------------------------------------------------------------------------
(* Any number of migrators *)

AppliedTo(v) == \A k \in 1..LatestVersion : k <= v => applied[k] >= 1

\* What is recorded, and what a migrator takes for granted, is applied; the
\* recorded version may be behind.
RaceInv ==
    /\ AppliedTo(recorded)
    /\ \A m \in Migrators :
         /\ pc[m] \in {"loop", "applied"} => AppliedTo(version[m])
         /\ pc[m] = "recorded" => AppliedTo(version[m] - 1)
    /\ ServedIsLatest

LEMMA AppliedGrows ==
  ASSUME TypeOK, VersionsInReach, [Next]_vars
  PROVE  \A k \in 1..LatestVersion : applied'[k] >= applied[k]
<1>1. ASSUME NEW m \in Migrators, Commit(m)
      PROVE  \A k \in 1..LatestVersion : applied'[k] >= applied[k]
  BY <1>1 DEF Commit, Committed, TypeOK, VersionsInReach
<1>2. CASE UNCHANGED applied
  BY <1>2 DEF TypeOK
<1> QED
  BY <1>1, <1>2 DEF Next, Migrate, vars, ReadVersion, ApplyMigration,
     setCurrentVersion, Finish, Crash, StartServer

LEMMA RaceStep ==
  ASSUME TypeOK, VersionsInReach, RaceInv, [Next]_vars
  PROVE  RaceInv'
<1>1. \A k \in 1..LatestVersion : applied[k] \in Nat /\ applied'[k] \in Nat
  BY TypeStep DEF TypeOK
<1>2. \A v \in Versions : AppliedTo(v) => AppliedTo(v)'
  BY <1>1, AppliedGrows DEF AppliedTo
<1>3. AppliedTo(0)'
  BY DEF AppliedTo
<1>4. ServedIsLatest'
  <2>1. CASE up' = up
    BY <1>1, <2>1, AppliedGrows DEF RaceInv, ServedIsLatest
  <2>2. ASSUME NEW s \in Servers, StartServer(s)
        PROVE  ServedIsLatest'
    <3>1. AppliedTo(LatestVersion) /\ applied' = applied
      BY <2>2 DEF StartServer, AtLeastLatest, RaceInv, AppliedTo, TypeOK
    <3> QED BY <3>1 DEF AppliedTo, ServedIsLatest
  <2>3. up' = up \/ \E s \in Servers : StartServer(s)
    BY DEF Next, Migrate, vars, ReadVersion, ApplyMigration, setCurrentVersion,
       Finish, Crash, Commit
  <2> QED BY <2>1, <2>2, <2>3
<1>5. AppliedTo(recorded)'
  <2>1. CASE recorded' = recorded
    BY <1>2, <2>1 DEF RaceInv, TypeOK, AppliedTo
  <2>2. ASSUME NEW m \in Migrators, Commit(m), Committed(m)
        PROVE  AppliedTo(recorded)'
    BY <1>1, <2>2 DEF Commit, Committed, RaceInv, AppliedTo, TypeOK, VersionsInReach
  <2> QED
    BY <2>1, <2>2 DEF Next, Migrate, vars, ReadVersion, ApplyMigration,
       setCurrentVersion, Finish, Crash, Commit, StartServer
<1>6. ASSUME NEW m \in Migrators
      PROVE  /\ pc'[m] \in {"loop", "applied"} => AppliedTo(version[m])'
             /\ pc'[m] = "recorded" => AppliedTo(version[m] - 1)'
  <2> DEFINE Known == /\ pc'[m] \in {"loop", "applied"} => AppliedTo(version[m])'
                      /\ pc'[m] = "recorded" => AppliedTo(version[m] - 1)'
  <2>1. CASE pc'[m] = pc[m] /\ version'[m] = version[m]
    <3>1. pc[m] = "recorded" => version[m] - 1 \in Versions
      BY DEF VersionsInReach
    <3> QED BY <1>2, <2>1, <3>1 DEF RaceInv, TypeOK, AppliedTo
  <2>2. CASE ReadVersion(m)
    BY <1>2, <1>3, <2>2 DEF ReadVersion, RaceInv, TypeOK, AppliedTo
  <2>3. CASE ApplyMigration(m)
    BY <1>2, <2>3 DEF ApplyMigration, Fail, RaceInv, TypeOK, AppliedTo
  <2>4. CASE setCurrentVersion(m)
    <3>1. pc'[m] = "recorded" => version'[m] - 1 = version[m]
      BY <2>4 DEF setCurrentVersion, Fail, TypeOK
    <3>2. pc'[m] \in {"idle", "recorded"} /\ pc[m] = "applied"
      BY <2>4 DEF setCurrentVersion, Fail, TypeOK
    <3> QED BY <1>2, <3>1, <3>2 DEF RaceInv, TypeOK, AppliedTo
  <2>5. CASE Commit(m)
    <3>1. CASE pc'[m] = "loop"
      BY <1>1, <2>5, <3>1 DEF Commit, Committed, Fail, RaceInv, AppliedTo, TypeOK,
         VersionsInReach
    <3> QED BY <2>5, <3>1 DEF Commit, Fail, TypeOK
  <2>6. CASE Finish(m) \/ Crash(m)
    BY <2>6 DEF Finish, Crash, Fail, TypeOK
  <2>7. ASSUME NEW q \in Migrators \ {m}, Migrate(q) \/ Crash(q)
        PROVE  pc'[m] = pc[m] /\ version'[m] = version[m]
    BY <2>7 DEF Migrate, ReadVersion, ApplyMigration, setCurrentVersion, Finish,
       Crash, Commit, Fail, TypeOK
  <2>8. CASE UNCHANGED <<pc, version>>
    BY <2>1, <2>8
  <2> QED
    BY <2>1, <2>2, <2>3, <2>4, <2>5, <2>6, <2>7, <2>8
       DEF Next, Migrate, vars, StartServer
<1> QED BY <1>4, <1>5, <1>6 DEF RaceInv

\* However many commands migrate while servers start, no server runs on a
\* schema that lacks a migration.
THEOREM LatestIsServed == Spec => []ServedIsLatest
<1>1. Init => RaceInv
  BY DEF Init, RaceInv, AppliedTo, ServedIsLatest
<1>2. TypeOK /\ VersionsInReach /\ RaceInv /\ [Next]_vars => RaceInv'
  BY RaceStep
<1>3. RaceInv => ServedIsLatest
  BY DEF RaceInv
<1> QED BY <1>1, <1>2, <1>3, TypesAlways, PTL DEF Spec

--------------------------------------------------------------------------------
(* What the race of migrators cannot repeat *)

\* Creating a table or a column twice is an error; open transactions do not
\* migrate to the same version.
OnceInv ==
    /\ \A k \in (1..LatestVersion) \ {Rescaling} :
         /\ applied[k] <= 1
         /\ \A m \in Migrators :
              InTransaction(m) /\ Target(m) = k => applied[k] = 0
    /\ \A m, q \in Migrators :
         InTransaction(m) /\ InTransaction(q) /\ Target(m) = Target(q) => m = q

\* A step that opens no transaction and commits none.
LEMMA OnceKept ==
  ASSUME OnceInv, applied' = applied,
         \A m \in Migrators :
             InTransaction(m)' => InTransaction(m) /\ Target(m)' = Target(m)
  PROVE  OnceInv'
BY DEF OnceInv

LEMMA OnceStep ==
  ASSUME TypeOK, VersionsInReach, OnceInv, [Next]_vars
  PROVE  OnceInv'
<1> USE DEF InTransaction, Target
<1>1. ASSUME NEW m \in Migrators,
             ReadVersion(m) \/ setCurrentVersion(m) \/ Finish(m) \/ Crash(m)
      PROVE  OnceInv'
  <2>1. applied' = applied
    BY <1>1 DEF ReadVersion, setCurrentVersion, Finish, Crash
  <2>2. InTransaction(m)' => InTransaction(m) /\ Target(m)' = Target(m)
    BY <1>1 DEF ReadVersion, setCurrentVersion, Finish, Crash, Fail, TypeOK
  <2>3. \A q \in Migrators \ {m} : pc'[q] = pc[q] /\ version'[q] = version[q]
    BY <1>1 DEF ReadVersion, setCurrentVersion, Finish, Crash, Fail, TypeOK
  <2> QED BY <2>1, <2>2, <2>3, OnceKept
<1>2. ASSUME NEW m \in Migrators, ApplyMigration(m)
      PROVE  OnceInv'
  <2>1. PICK step \in migrations :
          /\ step[1] = version[m]
          /\ \A q \in Migrators \ {m} :
               InTransaction(q) => ~Conflict(Target(q), step[2])
          /\ \/ /\ ~(step[2] # Rescaling /\ applied[step[2]] > 0)
                /\ Goto(m, "applied") /\ UNCHANGED version
             \/ Fail(m)
    BY <1>2 DEF ApplyMigration
  <2>2. /\ step[2] = version[m] + 1 /\ step[2] \in 1..LatestVersion
        /\ applied' = applied /\ applied[step[2]] \in Nat
    BY <1>2, <2>1, Chain DEF ApplyMigration, TypeOK
  <2>3. \A q \in Migrators \ {m} : pc'[q] = pc[q] /\ version'[q] = version[q]
    BY <2>1 DEF Fail, TypeOK
  <2>4. CASE Fail(m)
    <3>1. ~InTransaction(m)'
      BY <2>4 DEF Fail, TypeOK
    <3> QED BY <2>2, <2>3, <3>1, OnceKept
  <2>5. CASE /\ ~(step[2] # Rescaling /\ applied[step[2]] > 0)
             /\ Goto(m, "applied") /\ UNCHANGED version
    <3>1. Target(m)' = step[2]
      BY <2>2, <2>5 DEF TypeOK
    <3>2. \A q \in Migrators \ {m} : InTransaction(q) => Target(q) # step[2]
      BY <2>1 DEF Conflict
    <3>3. step[2] # Rescaling => applied[step[2]] = 0
      BY <2>2, <2>5
    <3>4. \A q \in Migrators \ {m} :
             Target(q)' = Target(q) /\ (InTransaction(q)' <=> InTransaction(q))
      BY <2>3
    <3> QED BY <2>2, <3>1, <3>2, <3>3, <3>4 DEF OnceInv
  <2> QED BY <2>1, <2>4, <2>5
<1>3. ASSUME NEW m \in Migrators, Commit(m)
      PROVE  OnceInv'
  <2>1. /\ InTransaction(m) /\ Target(m) = version[m] /\ ~InTransaction(m)'
        /\ version[m] \in 1..LatestVersion
    BY <1>3 DEF Commit, Fail, TypeOK, VersionsInReach
  <2>2. \A q \in Migrators \ {m} : pc'[q] = pc[q] /\ version'[q] = version[q]
    BY <1>3 DEF Commit, Fail, TypeOK
  <2>3. CASE UNCHANGED applied
    BY <2>1, <2>2, <2>3, OnceKept
  <2>4. CASE applied' = [applied EXCEPT ![version[m]] = @ + 1]
    <3>1. \A q \in Migrators : InTransaction(q)' =>
             /\ q # m /\ InTransaction(q) /\ Target(q)' = Target(q)
             /\ Target(q) # version[m]
      BY <2>1, <2>2 DEF OnceInv
    <3>2. version[m] # Rescaling => applied[version[m]] = 0
      BY <2>1 DEF OnceInv
    <3>3. /\ applied'[version[m]] = applied[version[m]] + 1
          /\ \A k \in (1..LatestVersion) \ {version[m]} : applied'[k] = applied[k]
      BY <2>1, <2>4 DEF TypeOK
    <3> QED BY <2>1, <3>1, <3>2, <3>3 DEF OnceInv
  <2> QED BY <1>3, <2>3, <2>4 DEF Commit, Committed
<1>4. CASE UNCHANGED <<applied, pc, version>>
  BY <1>4 DEF OnceInv
<1> QED
  BY <1>1, <1>2, <1>3, <1>4 DEF Next, Migrate, vars, StartServer

\* Two commands that migrate at once may divide the timestamps again, but
\* commit no other migration twice.
THEOREM OnlyRescalingRepeats ==
  Spec => [](\A k \in (1..LatestVersion) \ {Rescaling} : applied[k] <= 1)
<1>1. Init => OnceInv
  BY DEF Init, OnceInv, InTransaction
<1>2. TypeOK /\ VersionsInReach /\ OnceInv /\ [Next]_vars => OnceInv'
  BY OnceStep
<1>3. OnceInv => \A k \in (1..LatestVersion) \ {Rescaling} : applied[k] <= 1
  BY DEF OnceInv
<1> QED BY <1>1, <1>2, <1>3, TypesAlways, PTL DEF Spec
================================================================================
