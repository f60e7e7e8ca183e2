CONSTANTS
  Worker = Worker
  Coords = {l1, i1}
  ImportNames = {i1}
  Callers = {c1}
  Calls = {"syncNow", "importNow", "scan"}
  BatchSize = 1
  MaxAttempts = 3
  Faults = TRUE
SPECIFICATION LiveSpec
CHECK_DEADLOCK FALSE
INVARIANT NoDoubleProcessing
PROPERTIES
  ImplementsQueue
  QueueDrains
