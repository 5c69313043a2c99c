CONSTANTS
  i1 = i1
  i2 = i2
  t1 = t1
  t2 = t2
  n1 = n1
  n2 = n2
  s1 = s1
  s2 = s2
  p1 = p1
  p2 = p2
  Imports = {i1}
  Translations = {t1}
  Archives = {t1}
  Installations = {n1}
  Supervisors = {s1}
  Provisioners = {p1}
  TranslationOf <- OneTranslation
  InstallationOf <- OneInstallation
  CreateAt <- OneCreateAt
  InitialConfigs <- FreshConfigs
  APISecurityLock <- Unlocked
  Deletable = {}
  KeepImportData = TRUE
  MayRelease = FALSE
  MaxFaults = 0
  Nobody = Nobody
  NoImport = NoImport
SPECIFICATION Spec
\* Once every import is finished nothing is left to do.
CHECK_DEADLOCK FALSE
INVARIANT ReportedErrorFails
