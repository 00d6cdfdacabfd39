CONSTANTS
  FileSizes = {4}
  ChunkSize = 2
  MaxAttempts = 2
  SemCap = 2
SPECIFICATION Spec
CHECK_DEADLOCK FALSE
INVARIANT ResumedIsIntact
