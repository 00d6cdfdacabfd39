CONSTANTS
  d1 = d1
  d2 = d2
  w1 = w1
  w2 = w2
  nil = nil
  Nil <- MCNil
  Task <- TwoTasks
  Worker <- TwoWorkers
  QueueCap = 1
  MaxRetries = 2
  Calls <- StopCalls
SPECIFICATION MCSpec
CHECK_DEADLOCK FALSE
INVARIANT OneWorkerPerTask
INVARIANT PendingIsQueued
INVARIANT RetriesBounded
INVARIANT StatisticsBalance
PROPERTY WorkersStop
PROPERTY ResumedDownloadEnds
