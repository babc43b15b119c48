\* Deletions and index transactions fail, the process is stopped once.
CONSTANTS
  Day = 3
  Zone = 1
  Locations = {0}
  Gap = 1
  RetentionDays = 1
  ScanDays = 2
  MaxTime = 6
  MaxGOP = 2
  DeleteResults = {TRUE, FALSE}
  IndexResults = {TRUE, FALSE}
  OldGOPs <- MCOldGOPs
  Crashes = 1
  None = None
SPECIFICATION Spec
INVARIANTS FreshKept IndexNeverDangles
PROPERTIES CleanupHeals
