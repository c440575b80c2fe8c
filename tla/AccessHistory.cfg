SPECIFICATION Spec
CONSTANTS
  s = s
  a = a
  b = b
  x = x
  Nobody = Nobody
  Absent = Absent
  Person = {s, a, b, x}
  Update = {u1, u2}
  Request <- McChanges
  SuperIds = {s}
  FirstTable <- McTable
  DbWideLock = FALSE
  Cooldown = 1
  MaxClock = 1
  MaxCrashes = 0
INVARIANTS HistoryTellsTheRow
CHECK_DEADLOCK FALSE
