SPECIFICATION FairSpec
CONSTANTS
  NClans = 1
  Requests = {r1, r2}
  Browsers = {b1, b2}
  None = None
INVARIANTS TypeOK NeverLeftPaused
PROPERTIES LatchReleased SessionEnds
CHECK_DEADLOCK FALSE
