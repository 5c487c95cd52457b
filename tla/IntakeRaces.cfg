SPECIFICATION FairSpec
CONSTANTS
  t1 = t1
  t2 = t2
  Requests = {r1, r2, r3}
  Runs <- TwoTenants
  NoIntake = NoIntake
  Window = 1
  IndexedFrom = 0
  MaxClock = 2
  Faults = TRUE
CHECK_DEADLOCK FALSE
INVARIANTS
  WholeIntake
  AnswersAgree
PROPERTIES
  ImplementsWriteOnce
  EveryRequestEnds
