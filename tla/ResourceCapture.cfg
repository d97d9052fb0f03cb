SPECIFICATION FairSpec
CONSTANTS
  Looks = {l1, l2}
  ListDays = 4
  Margin = 1
  MinRun = 2
  AlignRows = 2
  Hazards <- Neither
  MaxDay = 4
  MaxEvents = 1
INVARIANTS TypeOK MarkerPromise RecordedIsSettled RepeatsAreExplained
PROPERTIES CatchesUp
CHECK_DEADLOCK FALSE
