SPECIFICATION FairSpec
CONSTANTS
  a1 = a1
  a2 = a2
  a3 = a3
  c1 = c1
  l1 = l1
  l2 = l2
  i1 = i1
  plan = plan
  Plans = {plan}
  Tabs = {a1, a2, a3, c1, l1, l2, i1}
  KindOf <- Pages
  PlanOf <- OnePlan
  Openings = {{a1, a2}, {a3}, {c1}, {l1, l2}, {i1}}
  MaxPresses <- Bounds
  MaxVisits <- Visits
CHECK_DEADLOCK FALSE
INVARIANTS
  ShownIsNotOlder
  NoticeHolds
  RowIsOfLastPress
PROPERTIES
  MachineWhenAlone
  PressEnds
