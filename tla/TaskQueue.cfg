SPECIFICATION FairSpec
CONSTANTS
  NTasks = 2
  Projects = {"p"}
  ProjectOf <- OneProject
  KindOf <- AllChat
  Runs = {r1, r2}
  Ops = {o1}
  Requests = {"create", "stop"}
  StatementsFail = FALSE
  None = None
  MaxRetries = 0
  MaxCrashes = 0
INVARIANT NoLostWakeup
PROPERTIES QueueProgress RunningEnds
CHECK_DEADLOCK FALSE
