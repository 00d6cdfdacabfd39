CONSTANTS
  t1 = t1
  r1 = r1
  r2 = r2
  s1 = s1
  nil = nil
  Nil <- MCNil
  TaskID <- OneTask
  Request <- OneRequest
  TaskOf <- SameTask
  Subscriber <- OneSubscriber
  Cap = 6
  Calls <- AllCalls
  MaxRestarts = 1
SPECIFICATION MCSpec
CHECK_DEADLOCK FALSE
INVARIANT TypeOK
INVARIANT StreamEndsWithOutcome
INVARIANT NothingDropped
INVARIANT PanicsAreContained
INVARIANT SharedChannelHasProducer
PROPERTY EventsInOrder
PROPERTY SettledIsFinal
PROPERTY ImplementsLifecycle
PROPERTY StreamEnds
PROPERTY SharedTaskSettles
