CONSTANTS
  i1 = i1
  i2 = i2
  t1 = t1
  t2 = t2
  n1 = n1
  n2 = n2
  s1 = s1
  p1 = p1
  a1 = a1
  w1 = w1
  Imports = {i1, i2}
  Translations = {t1, t2}
  Installations = {n1, n2}
  Supervisors = {s1}
  Provisioners = {p1}
  TranslationOf <- PipelineImport
  InstallationOf <- PipelineInstallation
  CreateAt <- PipelineCreateAt
  InitialConfigs <- MixedConfigs
  APISecurityLock <- AllLocked
  Deletable = {}
  KeepImportData = FALSE
  MayRelease = FALSE
  MaxFaults = 0
  Nobody = Nobody
  NoImport = NoImport
  Archives = {a1, t1, t2}
  InBucket = {}
  UploadType <- PipelineUploadType
  Valid = {}
  ArchiveOf <- PipelineArchive
  RequestType <- PipelineType
  NamesUpload = {t1}
  Validates = {t2}
  Translators = {w1}
  RequestedAt <- PipelineTime
  MayFail = {"validate"}
  Export <- PipelineExport
  NoTranslation = NoTranslation
SPECIFICATION SerialPipeline
\* Once every import is finished nothing is left to do.
CHECK_DEADLOCK FALSE
INVARIANTS FitWhileRunning SucceededIsReverted ArchiveIsReady
PROPERTIES Finished Served
