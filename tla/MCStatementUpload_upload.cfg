SPECIFICATION UploadFairSpec
CONSTANTS
  Request = {r1, r2}
  NoFile = NoFile
  KeyReused = TRUE
CHECK_DEADLOCK FALSE
INVARIANTS
  UploadConsistent
  SourceKeptWhileNeeded
PROPERTIES
  NoRowsWhileInactive
  FilesExpire
