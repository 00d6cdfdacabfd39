CONSTANTS
  x1 = x1
  x2 = x2
  x3 = x3
  small = small
  large = large
  r1 = r1
  r2 = r2
  Request <- TwoRequests
  RequestsPerMinute = 90
  BurstSize = 2
  Second = 2
  FileSizes = {2, 6, 7}
  ChunkSize = 2
  MaxAttempts = 3
  SemCap = 3
  Key = {x1, x2, x3}
  Version = {small, large}
  SizeOf <- MCSizeOf
  MaxSize = 3
  MaxEntries = 2
  Scenarios <- MCScenarios
  Nil = Nil
  MaxLines = 1
  MaxBackups = 1
  MaxAge = 0
  MaxLogged = 4
  LastSecond = 1
  Expiry = 5
  MaxClock = 9
SPECIFICATION MCSpec
CHECK_DEADLOCK FALSE
INVARIANT SizeHolds
INVARIANT HitIsRight
INVARIANT NoOrphanFile
INVARIANT CompletedIsIntact
INVARIANT LogIsComplete
INVARIANT RateBound
SYMMETRY Symmetric
