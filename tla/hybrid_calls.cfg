\* One key put, read, listed and deleted by two clients while calls fail, late
\* CreateEntry calls arrive and entries expire; the pings answer.
CONSTANTS
  None = None
  Clients = {c1, c2}
  Keys = {k1}
  Once = {k1}
  Kinds = {"put", "get", "delete", "list"}
  MaxPuts = 1
  Threshold = 2
  QueueSize = 1
  RetryAttempts = 2
  CreateResults = {"ok", "lost", "late", "refused"}
  PingResults = {TRUE}
  Healthy = {TRUE, FALSE}
SPECIFICATION BusySpec
INVARIANTS NoDanglingEntry CacheCoherent
PROPERTIES Recovers CloseReturns
