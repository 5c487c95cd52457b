SPECIFICATION Spec
CONSTANTS
  Filters = {f1, f2}
  Depth = 3
  MaxFlight = 3
  MaxStack = 3
INVARIANTS
  SettledShowsCurrent
  PrevRetraces
  SelectionOnPage
