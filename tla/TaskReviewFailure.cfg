SPECIFICATION Spec
CONSTANTS
  NTasks = 3
  Projects = {"p"}
  ProjectOf <- OneProject
  KindOf <- ChatReviewChat
  Runs = {r1, r2, r3}
  Ops = {}
  Requests = {"create"}
  StatementsFail = FALSE
  None = None
  MaxRetries = 0
  MaxCrashes = 0
SYMMETRY Slots
INVARIANT NoLostWakeup
CHECK_DEADLOCK FALSE
