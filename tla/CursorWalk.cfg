SPECIFICATION Spec
CONSTANTS
  Ids = {1, 2, 3, 4}
  PerMs = 2
  MaxTime = 3
  Limits = {1, 2}
CHECK_DEADLOCK FALSE
INVARIANTS
  NewestFirstOnce
  MissedOnlyInCursorMs
