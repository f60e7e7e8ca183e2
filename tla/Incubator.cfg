SPECIFICATION LiveSpec
CONSTANTS
  Cands = {c1}
  NJobs = 2
  NRules = 1
  Projects = {p1}
  Reqs = {q1}
  Kinds = {"cluster", "health_check"}
  EditTo = {"published", "rejected"}
  EditRuns = {}
INVARIANTS RowsSettled PublishedHasRule ConfigsComplete
PROPERTIES RunsAlone JobsEnd
CHECK_DEADLOCK FALSE
