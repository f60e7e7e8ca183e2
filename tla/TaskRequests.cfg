SPECIFICATION Spec
CONSTANTS
  NTasks = 1
  Projects = {"p"}
  ProjectOf <- OneProject
  KindOf <- AllReview
  Runs = {r1, r2}
  Ops = {o1}
  Requests = {"create", "apiCreate", "execute", "stop", "retry", "callback", "deleteSession"}
  StatementsFail = TRUE
  None = None
  MaxRetries = 1
  MaxCrashes = 1
SYMMETRY Slots
INVARIANTS TypeOK RegistrySound NoOrphanRunning
PROPERTIES OutcomeStands KeepsContract
CHECK_DEADLOCK FALSE
