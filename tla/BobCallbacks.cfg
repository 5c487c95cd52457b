SPECIFICATION FairSpec
CONSTANTS
  c1 = c1
  c2 = c2
  Calls = {c1, c2}
  Outputs <- FewOutputs
CHECK_DEADLOCK FALSE
INVARIANTS
  WholeAnswer
PROPERTIES
  ImplementsPromise
  EveryCallEnds
  NoChildOutlivesItsCall
