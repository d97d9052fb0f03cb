SPECIFICATION Spec
CONSTANTS
  Looks = {l1, l2}
  ListDays = 3
  Margin = 1
  MinRun = 2
  AlignRows = 2
  Hazards <- Racing
  MaxDay = 3
  MaxEvents = 2
INVARIANTS MarkerPromise
CHECK_DEADLOCK FALSE
