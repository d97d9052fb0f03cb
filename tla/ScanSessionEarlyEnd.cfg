SPECIFICATION Spec
CONSTANTS
  Listed <- Short
  PerBatch = 2
  MaxBatches = 2
  SlowLimit = 1
  MaxSessions = 2
  Triumphal = TRUE
  Faults <- EarlyEndFaults
INVARIANTS
  TypeOK
  ClaimedIsRecorded
CHECK_DEADLOCK FALSE
