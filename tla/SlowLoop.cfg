CONSTANTS
  a = a
  b = b
  servfail = servfail
  p1 = p1
  p2 = p2
  None = None
  N = 1
  IPs = {a}
  Grace <- MCGrace
  Refresh <- MCRefresh
  TTLs = {1}
  RetryInterval = 30
  RefreshFloor = 5
  MinRequeue = 1
  Backoff = 1
  MaxClock = 5
  Faults = {"slow"}
  Texts = {servfail}
  Renderable <- AnyValues
SPECIFICATION LoopSpec
INVARIANTS NoHotLoop
CHECK_DEADLOCK FALSE
