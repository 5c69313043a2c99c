CONSTANTS
  i1 = i1
  i2 = i2
  t1 = t1
  t2 = t2
  n1 = n1
  n2 = n2
  s1 = s1
  s2 = s2
  p1 = p1
  p2 = p2
  Imports = {i1,i2}
  Translations = {t1,t2}
  Archives = {t1,t2}
  Installations = {n1,n2}
  Supervisors = {s1, s2}
  Provisioners = {p1}
  TranslationOf <- OwnTranslation
  InstallationOf <- OwnInstallation
  CreateAt <- TwoCreateAt
  InitialConfigs <- FreshConfigs
  APISecurityLock <- Unlocked
  Deletable = {}
  KeepImportData = TRUE
  MayRelease = TRUE
  MaxFaults = 1
  Nobody = Nobody
  NoImport = NoImport
SPECIFICATION ApartSpec
\* Once every import is finished nothing is left to do.
CHECK_DEADLOCK FALSE
PROPERTY ImplementsLease
