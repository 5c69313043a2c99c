CONSTANTS
  a1 = a1
  a2 = a2
  a3 = a3
  r1 = r1
  r2 = r2
  r3 = r3
  r4 = r4
  r5 = r5
  Archives = {a1, a2, a3}
  InBucket = {a3}
  UploadType <- MixedUploadType
  Valid = {a1, a3}
  Requests = {r1, r2, r3, r4, r5}
  ArchiveOf <- MixedArchive
  RequestType <- TwoTypes
  NamesUpload = {r1, r2}
  Validates = {r1, r3, r4}
  MaxFaults = 0
SPECIFICATION Spec
\* Once every request is answered nothing is left to do.
CHECK_DEADLOCK FALSE
INVARIANT MattermostIsValidated
