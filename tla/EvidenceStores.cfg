SPECIFICATION Spec
CONSTANTS
  Plans = {1, 2}
  Exports = {e1, e2}
  Readers = {g1}
  NoExport = NoExport
  Faults = TRUE
SYMMETRY Symmetry
CHECK_DEADLOCK FALSE
INVARIANTS
  BundleExplainsApproval
  LinkedIsStored
  AnswerTellsRow
PROPERTIES
  GetIsFresh
