\* Puts of a write-once key and of one that is put again, compensation with a
\* queue for one, the breaker and Close.
CONSTANTS
  None = None
  Clients = {c1, c2}
  Keys = {k1, snapshot}
  Once = {k1}
  Kinds = {"put"}
  MaxPuts = 3
  Threshold = 2
  QueueSize = 1
  RetryAttempts = 2
  CreateResults = {"ok", "lost", "late", "refused"}
  PingResults = {TRUE, FALSE}
  Healthy = {TRUE, FALSE}
SPECIFICATION Spec
SYMMETRY Symmetry
INVARIANTS AckedIsVisible PendingTracked PendingHandled
