CONSTANTS
  t1 = t1
  t2 = t2
  t3 = t3
  s1 = s1
  Translations = {t1, t2, t3}
  Supervisors = {s1}
  Type <- MixedType
  CreateAt <- MixedCreateAt
  Export <- MixedExport
  MayFail <- Calls
  NoOwner = NoOwner
  NoTranslation = NoTranslation
  MaxFaults = 2
SPECIFICATION SlackFairSpec
\* Once every translation is handled nothing is left to do.
CHECK_DEADLOCK FALSE
INVARIANTS SlackTypeOK AtMostOneImport ImportedIsStored ImportedIsWhole WorkdirRemoved ZipRemoved AbandonedForCause
PROPERTIES StateOnlyAdvances ImportedOrFailed
