CONSTANTS
  NTasks = 2
  Ops = {o1}
  Readers = {r1}
SPECIFICATION LiveSpec
CHECK_DEADLOCK FALSE
INVARIANTS
  ProjectShown
  NoStaleCancel
PROPERTIES
  OutcomesStand
  ScansSettle
  OverviewHeals
