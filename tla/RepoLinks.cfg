SPECIFICATION FairSpec
CONSTANTS
  r1 = r1
  r2 = r2
  r3 = r3
  t1 = t1
  t2 = t2
  i1 = i1
  Requests = {r1, r2, r3}
  Conns = {c1, c2}
  Tenants = {t1, t2}
  Intakes = {i1}
  Owner <- OneOwner
  Shas = {"a", "A", "b"}
  Lower <- LowerCase
  Jobs <- Mixes
  Nobody = Nobody
CHECK_DEADLOCK FALSE
INVARIANTS
  ConnectionsReturned
  OneWholeLink
  AnswerTellsLink
  TenantsApart
PROPERTIES
  ImplementsWriteOnce
  EveryRequestEnds
