SPECIFICATION Spec
CONSTANTS
  Person = {"p", "q"}
  Involved <- MCInvolved
  Searched = {"p"}
  Everyone = "everyone"
  Message = {1}
  Writer = {1, 2}
  FirstLog <- MCFirstLog
  PageSize = 2
  MaxLines = 2
  MaxClock = 1
  MaxPresses = 4
INVARIANTS
  TypeOK
  ReadThrough
  PageAsCounted
PROPERTY
  NewLinesNearTop
