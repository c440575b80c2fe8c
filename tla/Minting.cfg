SPECIFICATION FairSpec
CONSTANTS
  ranked = ranked
  unranked = unranked
  visit = visit
  Unasked = Unasked
  Type = {ranked, unranked, visit}
  Batch = {b1, b2, b3}
  Count = {1, 2}
  Stem <- McStem
  Seed <- Near
  MaxCrashes = 1
INVARIANTS TypeOK NoGapsNoRepeats NoOverlap HistoryAddsUp IssuedWasDelivered TwiceOnlyAfterRollback
PROPERTIES EveryBatchEnds ImplementsRegister
CHECK_DEADLOCK FALSE
