\* Two submitters, one of them a handler, and two workers; a limit that two jobs
\* reach, and heap readings that come between the steps.
SPECIFICATION Spec
CONSTANTS
  Submitters = {s1, s2}
  Handlers = {s1}
  Workers = {w1, w2}
  NoJob = NoJob
  Jobs <- MCJobs
  InitKeys <- MCInitKeys
  InitKey <- MCInitKey
  WithInit <- MCWithInit
  Size <- MCSize
  QueueSize = 1
  MaxBatchSize = 2
  MaxBytes = 3
  Strategies = {"block", "drop", "drop_oldest"}
  PutResults = {"ok", "pending", "degraded", "error"}
  IndexResults = {"ok", "error"}
  HeapReadings = {2}
SYMMETRY Symmetry
INVARIANTS
  TypeOK
  IndexedOnlyIfStored
  CloseDrains
  LedgerCovers
  StatsAccounted
PROPERTIES
  AdmitsWithinLimit
