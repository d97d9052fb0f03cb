SPECIFICATION Spec
CONSTANTS
  Listed <- Tiny
  PerBatch = 2
  MaxBatches = 2
  SlowLimit = 2
  MaxSessions = 2
  Triumphal = TRUE
  Faults <- RowFaults
INVARIANTS
  FailedMeansNothingLanded
  FoundIsRecorded
  DeletedStaysEmpty
PROPERTIES
  RowsAreKept
CHECK_DEADLOCK FALSE
