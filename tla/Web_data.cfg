CONSTANTS
  t1 = t1
  t2 = t2
  shared = shared
  r1 = r1
  r2 = r2
  n0 = n0
  n1 = n1
  e0 = e0
  e1 = e1
  p0 = p0
  p1 = p1
  nil = nil
  Nil <- MCNil
  Task <- TwoTasks
  Requests <- MCRequests
  ChunkSize = 2
  Disks = {"good", "full"}
  Request = {r1, r2}
  Name = {n0, n1}
  Email = {e0, e1}
  Password = {p0, p1}
  Admin <- MCAdmin
  MaxUsers = 2
  MaxPresets = 3
  Scenarios <- MCScenarios
  Years = {2024, 2025}
  Months = 12
SPECIFICATION MCSpec
CHECK_DEADLOCK FALSE
INVARIANT BookIsTheText
INVARIANT SavedIsOwnBook
INVARIANT CompletedIsComplete
INVARIANT UpdateHolds
INVARIANT DefaultsHold
INVARIANT MonthsHold
SYMMETRY Symmetric
