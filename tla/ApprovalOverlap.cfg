SPECIFICATION FairSpec
CONSTANTS
  Requests = {r1, r2, r3}
  Plans = {p1}
  NoApproval = NoApproval
  Overlap = TRUE
CHECK_DEADLOCK FALSE
INVARIANTS
  StatusPinned
  ReplyTellsAudit
  LogCoversStatus
PROPERTIES
  ImplementsOverlapped
  EveryRequestEnds
