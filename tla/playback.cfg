\* A client describes, sets up, plays twice, seeks, pauses and leaves.
CONSTANTS
  Second = 3
  Timescale = 2
  DefaultDur = 1
  DurLimit = 64
  Recordings <- MCRecordings
  Requests <- MCRequests
  PlayRequests <- MCPlayRequests
  None = None
  Lookback = 6
  Horizon = 30
  CacheLimit = 1
  MaxDescribes = 1
  MaxPlays = 2
  ReadResults = {TRUE, FALSE}
SPECIFICATION FairSpec
CHECK_DEADLOCK FALSE
INVARIANTS SentIsUnbroken TimesKept CancelledSendsOnce ResumeLosesNothing NoOrphanRun
PROPERTIES RunsEnd
