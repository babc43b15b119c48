\* The contract and liveness, before the first heap reading.
SPECIFICATION FairSpec
CONSTANTS
  Submitters = {s1, s2}
  Handlers = {s1}
  Workers = {w1, w2}
  NoJob = NoJob
  Jobs <- MCJobs
  InitKeys <- MCInitKeys
  InitKey <- MCInitKey
  WithInit <- MCWithInit
  Size <- MCSize
  QueueSize = 1
  MaxBatchSize = 2
  MaxBytes = 3
  Strategies = {"block", "drop", "drop_oldest"}
  PutResults = {"ok", "pending", "degraded", "error"}
  IndexResults = {"ok", "error"}
  HeapReadings = {}
PROPERTIES
  ImplementsContract
  HonoursContract
  SubmitReturns
