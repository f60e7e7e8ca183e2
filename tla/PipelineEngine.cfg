CONSTANTS
  NStages = 2
  NRuns = 2
  Registered = {1, 2}
  Requires <- SecondNeedsFirst
  AllowedToSkip = {}
  Configs = {{1}, {2}}
  Downstream = {2}
  Understanding = 1
  Restarts = TRUE
SPECIFICATION LiveSpec
CHECK_DEADLOCK FALSE
INVARIANTS
  RowsSettled
  WholeRunsAreClean
  StageAfterDependencies
PROPERTIES
  RowsMoveForward
  RunsEnd
