SPECIFICATION FairSpec
CONSTANTS
  r1 = r1
  r2 = r2
  r3 = r3
  g1 = g1
  Requests = {r1, r2, r3}
  Readers = {g1}
  Kinds <- TwoAndOne
  NoRow = NoRow
  MaxItems = 2
CHECK_DEADLOCK FALSE
INVARIANTS
  RowsWhole
  GetShowsWhole
  PlanHasBasis
PROPERTIES
  GetIsFresh
  EveryRequestEnds
