SPECIFICATION Spec
CONSTANTS
  NClans = 2
  Ready = {1, 2}
  Tasks = {t1, t2}
  Browsers = {b1, b2, b3, b4}
  NoPage = NoPage
  Entries <- MaintenanceEntries
  Calibrated = TRUE
  MaxUploads = 1
SYMMETRY Interchangeable
INVARIANTS
  NeverStranded
