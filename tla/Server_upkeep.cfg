CONSTANTS
  server1 = server1
  server2 = server2
  r1 = r1
  k1 = k1
  nil = nil
  a1 = a1
  b1 = b1
  b2 = b2
  Nil <- MCNil
  Backend <- TwoServers
  Request <- OneRequest
  Check <- OneCheck
  Consistent = TRUE
  Hash <- MCHash
  Points <- MCPoints
  FailureThreshold = 2
  SuccessThreshold = 1
  HalfOpenRequests = 1
  Calls = {"remove"}
SPECIFICATION MCSpec
CHECK_DEADLOCK FALSE
INVARIANT ConnectionsBalance
INVARIANT RingIsComplete
PROPERTY BackendReturns
PROPERTY OldFilesGo
