\* Backoff 1, 2, 3.
CONSTANTS
  Clients = {c1, c2}
  None = None
  FirstBackoff = 1
  MaxBackoff = 3
  SwapLag = 1
  MaxTime = 6
SPECIFICATION FairSpec
INVARIANTS OneFeed StopSilences
PROPERTIES TimesAdvance StopReturns Reconnects
