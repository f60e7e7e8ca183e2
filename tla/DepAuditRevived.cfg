SPECIFICATION Spec
CONSTANTS
  Nobody = Nobody
  Projects = {p1}
  NTasks = 1
  NRuns = 1
  Ops = {o1}
  Requests = {"trigger", "cancel"}
  Slots = 1
  Faults = {}
PROPERTY CancelledTaskStands
CHECK_DEADLOCK FALSE
