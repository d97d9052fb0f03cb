SPECIFICATION FairSpec
CONSTANTS
  Listed <- Long
  PerBatch = 2
  MaxBatches = 3
  SlowLimit = 2
  MaxSessions = 2
  Triumphal = TRUE
  Faults <- LosslessFaults
PROPERTIES
  LedgerKept
  ScansEnd
CHECK_DEADLOCK FALSE
