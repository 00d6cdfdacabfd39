CONSTANTS
  s1 = s1
  r1 = r1
  r2 = r2
  nil = nil
  Nil <- MCNil
  Session <- OneSession
  Request <- TwoRequests
  Chunk = {1, 2}
  MaxConcurrent = 1
  Checks = {"chunk", "file"}
  Calls <- AllCalls
SPECIFICATION FairSpec
CHECK_DEADLOCK FALSE
INVARIANT CountedOnce
INVARIANT NoFileLeft
INVARIANT CompletedIsIntact
INVARIANT ToldIsTrue
PROPERTY RequestsReturn
