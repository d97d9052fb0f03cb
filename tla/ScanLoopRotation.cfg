SPECIFICATION FairSpec
CONSTANTS
  NClans = 3
  Ready = {1, 2, 3}
  Tasks = {t1, t2}
  Browsers = {b1, b2, b3, b4}
  NoPage = NoPage
  Entries <- RotationEntries
  Calibrated = TRUE
  MaxUploads = 1
INVARIANTS
  RowsMatchAccount
  OneBrowser
  NoOrphanedSession
PROPERTIES
  PageKept
  EveryClanIsScanned
