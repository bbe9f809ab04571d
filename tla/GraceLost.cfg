CONSTANTS
  a = a
  b = b
  servfail = servfail
  p1 = p1
  p2 = p2
  None = None
  N = 2
  IPs = {a}
  Grace <- MCGrace
  Refresh <- MCRefresh
  TTLs = {0, 1}
  RetryInterval = 4
  RefreshFloor = 2
  MinRequeue = 1
  Backoff = 1
  MaxClock = 5
  Faults = {"fail", "edit"}
  Texts = {servfail}
  Renderable <- AnyValues
SPECIFICATION Spec
PROPERTIES GraceHonoured
CHECK_DEADLOCK FALSE
