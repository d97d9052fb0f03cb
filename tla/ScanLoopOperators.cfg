SPECIFICATION Spec
CONSTANTS
  NClans = 1
  Ready = {1}
  Tasks = {t1, t2}
  Browsers = {b1, b2, b3, b4}
  NoPage = NoPage
  Entries <- OperatorEntries
  Calibrated = TRUE
  MaxUploads = 1
SYMMETRY Interchangeable
INVARIANTS
  TypeOK
  SingleFlight
  UploadExclusion
  PausedSchedulesNothing
