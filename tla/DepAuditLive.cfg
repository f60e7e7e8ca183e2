SPECIFICATION LiveSpec
CONSTANTS
  Nobody = Nobody
  Projects = {p1, p2}
  NTasks = 1
  NRuns = 2
  Ops = {o1}
  Requests = {"trigger", "cancel", "retry", "delete"}
  Slots = 1
  Faults = {"run"}
INVARIANT ActiveHasExecutor
PROPERTIES RunOutcomeStands RunsSettle
CHECK_DEADLOCK FALSE
