\* A recording during which the camera changed its codec.
CONSTANTS
  Second = 3
  Timescale = 2
  DefaultDur = 1
  DurLimit = 64
  Recordings <- MCCodecChange
  Requests <- MCRequests
  PlayRequests <- MCPlayRequests
  None = None
  Lookback = 6
  Horizon = 30
  CacheLimit = 1
  MaxDescribes = 1
  MaxPlays = 2
  ReadResults = {TRUE, FALSE}
SPECIFICATION Spec
CHECK_DEADLOCK FALSE
INVARIANT PlaysAcrossCodecs
