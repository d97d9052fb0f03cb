SPECIFICATION FairSpec
CONSTANTS
  NClans = 2
  Codes = {k1}
  Instances = {i1, i2}
  Slots = {s1, s2}
  None = None
  Weeks = 2
  MaxVersion = 2
  MaxEvents = 2
INVARIANTS TypeOK RunningGoesOn
PROPERTIES DiscardedAsksNoMore Converges
CHECK_DEADLOCK FALSE
