SPECIFICATION Spec
CONSTANTS
  t1 = t1
  t2 = t2
  Requests = {r1, r2}
  Runs <- OneRun
  NoIntake = NoIntake
  Window = 1
  IndexedFrom = 0
  MaxClock = 2
  Faults = FALSE
CHECK_DEADLOCK FALSE
INVARIANT ReingestAfterWindow
