---------------------------- MODULE SchemaMigration ----------------------------
(***************************************************************************)
(* `awat schema migrate`: Migrate() of internal/store/migrate.go, with the *)
(* table of internal/store/migrations.go, and the check that the server    *)
(* makes of the schema before it starts.                                   *)
(*                                                                         *)
(* A version is its minor number; 0 is a database without a System table.  *)
(* Each migration runs in a transaction of PostgreSQL, READ COMMITTED: a   *)
(* statement waits for the uncommitted transactions that it conflicts with *)
(* and then sees what they have committed; DDL is rolled back like data.   *)
(***************************************************************************)
EXTENDS Naturals

CONSTANTS Migrators,   \* processes that run `awat schema migrate`
          Servers,     \* processes that run `awat server`
          MaxFaults    \* bound on errors of statements and process deaths

ASSUME ConstantsAssumption == MaxFaults \in Nat

VARIABLES
  recorded,   \* the DatabaseVersion in the System table
  applied,    \* applied[k]: how often the migration to k is committed
  pc,         \* pc[m]: where Migrate() is
  version,    \* version[m]: its currentVersion
  up,         \* running servers
  faults      \* errors and deaths so far

vars == <<recorded, applied, pc, version, up, faults>>

BrokenChain ==   \* mutant: a migration starts at the wrong version
    {<<0, 1>>, <<1, 2>>, <<1, 3>>, <<3, 4>>, <<4, 5>>}

\* The migrations, each from a version to the next.
migrations == {<<0, 1>>, <<1, 2>>, <<2, 3>>, <<3, 4>>, <<4, 5>>}

LatestVersion == 5

Versions == 0..LatestVersion

\* The third migration divides every timestamp by 1000; the others create
\* tables and columns, which fails when they exist.
Rescaling == 3

\* Migrations that lock one table: 3 updates the three tables that 4 and 5
\* alter, 4 alters Import, 5 alters Upload and Translation.
Conflict(k, l) == k = l \/ (Rescaling \in {k, l} /\ {k, l} \subseteq {3, 4, 5})

Init ==
    /\ recorded = 0
    /\ applied = [k \in 1..LatestVersion |-> 0]
    /\ pc = [m \in Migrators |-> "idle"]
    /\ version = [m \in Migrators |-> 0]
    /\ up = {}
    /\ faults = 0

Fault == faults < MaxFaults /\ faults' = faults + 1

NoFault == UNCHANGED faults

Goto(m, label) == pc' = [pc EXCEPT ![m] = label]

FailKeepingVersion(m) == Goto(m, "idle") /\ UNCHANGED version   \* mutant

\* Migrate() returns an error, and its transaction is rolled back.  Somebody
\* may run the command again.
Fail(m) == Goto(m, "idle") /\ version' = [version EXCEPT ![m] = 0]

\* The migration that the open transaction of m makes.
Target(m) == IF pc[m] = "applied" THEN version[m] + 1 ELSE version[m]

InTransaction(m) == pc[m] \in {"applied", "recorded"}

--------------------------------------------------------------------------------

\* An error of the query for the version reads as version 0.
ReadVersion(m) ==
    /\ pc[m] = "idle"
    /\ Goto(m, "loop")
    /\ \/ version' = [version EXCEPT ![m] = recorded] /\ NoFault
       \/ version' = [version EXCEPT ![m] = 0] /\ Fault
    /\ UNCHANGED <<recorded, applied, up>>

\* The migration from the current version, if there is one, in a transaction
\* of its own.
ApplyMigration(m) ==
    /\ pc[m] = "loop"
    /\ \E step \in migrations :
         LET exists == step[2] # Rescaling /\ applied[step[2]] > 0
         IN /\ step[1] = version[m]
            /\ \A q \in Migrators \ {m} :
                 InTransaction(q) => ~Conflict(Target(q), step[2])
            /\ \/ ~exists /\ Goto(m, "applied") /\ UNCHANGED version /\ NoFault
               \/ exists /\ Fail(m) /\ NoFault
               \/ Fail(m) /\ Fault
    /\ UNCHANGED <<recorded, applied, up>>

RecordAtOnce(m) ==   \* mutant: the version is written outside the transaction
    /\ pc[m] = "applied"
    /\ version' = [version EXCEPT ![m] = @ + 1]
    /\ recorded' = version[m] + 1
    /\ Goto(m, "recorded")
    /\ UNCHANGED <<applied, up, faults>>

\* The row of the version is locked until the transaction ends.
setCurrentVersion(m) ==
    /\ pc[m] = "applied"
    /\ \A q \in Migrators : pc[q] # "recorded"
    /\ \/ /\ version' = [version EXCEPT ![m] = @ + 1]
          /\ Goto(m, "recorded") /\ NoFault
       \/ Fail(m) /\ Fault
    /\ UNCHANGED <<recorded, applied, up>>

Committed(m) == /\ recorded' = version[m]
                /\ applied' = [applied EXCEPT ![version[m]] = @ + 1]

Commit(m) ==
    /\ pc[m] = "recorded"
    /\ \/ Committed(m) /\ Goto(m, "loop") /\ UNCHANGED version /\ NoFault
       \/ /\ Committed(m) \/ UNCHANGED <<recorded, applied>>
          /\ Fail(m) /\ Fault
    /\ UNCHANGED up

\* Migrate() returns without an error.
Finish(m) ==
    /\ pc[m] = "loop"
    /\ \A step \in migrations : step[1] # version[m]
    /\ Goto(m, "done")
    /\ UNCHANGED <<recorded, applied, version, up, faults>>

\* The process dies; the database rolls its transaction back.
Crash(m) ==
    /\ pc[m] \in {"loop", "applied", "recorded"}
    /\ Fail(m) /\ Fault
    /\ UNCHANGED <<recorded, applied, up>>

Migrate(m) == \/ ReadVersion(m) \/ ApplyMigration(m) \/ setCurrentVersion(m)
              \/ Commit(m) \/ Finish(m)

AnyVersion == recorded > 0   \* mutant: an older schema is served too

AtLeastLatest == recorded >= LatestVersion

\* A server that finds an older schema exits.
StartServer(s) ==
    /\ s \notin up
    /\ AtLeastLatest
    /\ up' = up \cup {s}
    /\ UNCHANGED <<recorded, applied, pc, version, faults>>

Next == \/ \E m \in Migrators : Migrate(m) \/ Crash(m)
        \/ \E s \in Servers : StartServer(s)

Spec == Init /\ [][Next]_vars

\* A command that has failed is run again.
FairSpec == Spec /\ \A m \in Migrators : WF_vars(Migrate(m))

--------------------------------------------------------------------------------
(* Properties *)

\* The variables have their types, and a migrator that is not in Migrate() has
\* forgotten its version.
TypeOK ==
    /\ recorded \in Versions
    /\ applied \in [1..LatestVersion -> Nat]
    /\ pc \in [Migrators -> {"idle", "loop", "applied", "recorded", "done"}]
    /\ version \in [Migrators -> Versions]
    /\ up \subseteq Servers
    /\ faults \in 0..MaxFaults
    /\ \A m \in Migrators : pc[m] = "idle" => version[m] = 0

\* The recorded version is exactly what has been applied, each migration once,
\* whatever fails between the statements of one migrator: the timestamps are
\* never divided twice.
VersionIsApplied ==
    \A k \in 1..LatestVersion :
        applied[k] = IF k <= recorded THEN 1 ELSE 0

\* A server works on the latest schema, whoever migrates while it runs.
ServedIsLatest ==
    up # {} => \A k \in 1..LatestVersion : applied[k] >= 1

\* "Migrate advances the schema of the configured database to the latest
\* version", and it stays there.
Migrated == <>[](recorded = LatestVersion)
================================================================================
