SPECIFICATION Spec
CONSTANTS
  p = p
  q = q
  n1 = n1
  n2 = n2
  Bad = Bad
  None = None
  Idle = Idle
  Person = {p, q}
  Patient = {p}
  Number = {n1, n2}
  RoleOf <- McRole
  Request <- McRequest
  FirstState <- McFirst
  MaxUpdate = 2
  MaxCrashes = 0
PROPERTIES StartEscapes
CHECK_DEADLOCK FALSE
