SPECIFICATION Spec
CONSTANTS
  Nobody = Nobody
  o1 = o1
  o2 = o2
  Projects = {p1}
  NTasks = 2
  NRuns = 2
  Ops = {o1, o2}
  Requests = {"trigger", "retry"}
  Slots = 1
  Faults = {"search", "task"}
SYMMETRY Handlers
INVARIANT AtMostOneActive
CHECK_DEADLOCK FALSE
