SPECIFICATION Spec
CONSTANTS
  Requests = {r1, r2, r3, r4}
  Plans = {p1}
  NoApproval = NoApproval
  Overlap = FALSE
SYMMETRY Symmetry
CHECK_DEADLOCK FALSE
INVARIANTS
  AuditWalk
PROPERTIES
  ImplementsMachine
