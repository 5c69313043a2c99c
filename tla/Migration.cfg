CONSTANTS
  m1 = m1
  m2 = m2
  v1 = v1
  v2 = v2
  Migrators = {m1}
  Servers = {v1, v2}
  MaxFaults = 4
SPECIFICATION FairSpec
\* Once the schema is the latest and the servers run nothing is left to do.
CHECK_DEADLOCK FALSE
INVARIANTS TypeOK VersionIsApplied ServedIsLatest
PROPERTY Migrated
