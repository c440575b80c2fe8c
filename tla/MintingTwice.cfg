SPECIFICATION Spec
CONSTANTS
  ranked = ranked
  unranked = unranked
  visit = visit
  Unasked = Unasked
  Type = {visit}
  Batch = {b1, b2}
  Count = {1, 2}
  Stem <- McStem
  Seed <- FarApart
  MaxCrashes = 1
INVARIANTS NoCodeSentTwice
CHECK_DEADLOCK FALSE
