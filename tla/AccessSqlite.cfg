SPECIFICATION Spec
CONSTANTS
  s = s
  a = a
  b = b
  x = x
  Nobody = Nobody
  Absent = Absent
  Person = {s, a, b, x}
  Update = {u1, u2, u3}
  Request <- McFewer
  SuperIds = {s}
  FirstTable <- McStranger
  DbWideLock = TRUE
  Cooldown = 1
  MaxClock = 3
  MaxCrashes = 1
SYMMETRY AnyUpdate
INVARIANTS HistoryTellsTheRow AttemptsAreLogged
PROPERTY ImplementsMembers
CHECK_DEADLOCK FALSE
