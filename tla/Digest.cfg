CONSTANTS
  t1 = t1
  t2 = t2
  c1 = c1
  c2 = c2
  Clans = {c1, c2}
  Tokens = {t1, t2}
  None = None
  Settings <- MovingAndOff
  Slots = {s1, s2}
  WeekEnds = {1}
  MaxDay = 1
  MaxEvents = 1
SPECIFICATION FairSpec
INVARIANTS TypeOK RepeatsAreExcused DayIsClosed NextIsComing
PROPERTIES DigestsGoOut
CHECK_DEADLOCK FALSE
