CONSTANTS
  t1 = t1
  t2 = t2
  s1 = s1
  s2 = s2
  Translations = {t1, t2}
  Supervisors = {s1, s2}
  Type <- TwoType
  CreateAt <- TwoCreateAt
  NoOwner = NoOwner
  NoTranslation = NoTranslation
  MaxFaults = 2
SPECIFICATION FairSpec
\* Once every translation is handled nothing is left to do.
CHECK_DEADLOCK FALSE
INVARIANTS MutualExclusion LockIsOwn NoLockLeaked
PROPERTIES ImplementsLease Discovered CompleteIsImported
