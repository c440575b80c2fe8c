SPECIFICATION FairSpec
CONSTANTS
  s = s
  a = a
  b = b
  x = x
  Nobody = Nobody
  Absent = Absent
  Person = {s, a, b, x}
  Update = {u1, u2}
  Request <- McChanges
  SuperIds = {s}
  FirstTable <- McTable
  DbWideLock = FALSE
  Cooldown = 1
  MaxClock = 1
  MaxCrashes = 1
INVARIANT TypeOK
PROPERTIES SuperAdminsFromEnv RoleChangesAreLogged EveryUpdateEnds
CHECK_DEADLOCK FALSE
