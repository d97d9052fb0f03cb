SPECIFICATION Spec
CONSTANTS
  a = a
  aa = aa
  b = b
  Names = {a, aa, b}
  NoName = NoName
  Key <- Spaced
  Order <- Listed
  Confused <- Misread
  Near <- Close
  Distance <- Edits
  MaxMembers = 3
  MaxReadings = 3
  MaxEvents = 2
INVARIANTS TypeOK NotSplit
PROPERTIES ExactWins MergedStaysMerged
CHECK_DEADLOCK FALSE
