SPECIFICATION CallsSpec
CONSTANTS
  Records <- MCRecords
  Workers = {w1, w2}
  channelBufferSize = 1
  flushBatchSize = 2
  Calls = {c1}
  Kinds = {"chain", "tools"}
  MaxBackups = 2
  MaxAttempts = 2
INVARIANTS CallsRecorded StoredOnce StopDrains
PROPERTY RecordsSettle
CHECK_DEADLOCK FALSE
