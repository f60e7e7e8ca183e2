SPECIFICATION TalkSpec
CONSTANTS
  MaxBatches = 3
  MaxParallel = 2
  Talking = {1}
  MaxRounds = 3
  MaxTools = 2
  MaxMessages = 6
  MaxCalls = 2
INVARIANTS
  OutputsComplete
  WavesInOrder
  CallsAnswered
  TalkIsBounded
PROPERTIES
  ImplementsStage
  StageEnds
CHECK_DEADLOCK FALSE
