CONSTANTS
  d1 = d1
  w1 = w1
  nil = nil
  p1 = p1
  p2 = p2
  v0 = v0
  v1 = v1
  bad = bad
  Nil <- MCNil
  Path <- TwoPaths
  Value <- ThreeValues
  Zero = v0
  Valid <- MCValid
  Callbacks <- AnyCallback
  MaxCalls = 2
  MaxEdits = 2
SPECIFICATION MCSpec
CHECK_DEADLOCK FALSE
INVARIANT SignalStopsServices
