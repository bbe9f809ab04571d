CONSTANTS
  a = a
  b = b
  servfail = servfail
  p1 = p1
  p2 = p2
  None = None
  N = 1
  IPs = {a, b}
  Grace <- MCGrace
  Refresh <- MCRefresh
  TTLs = {0, 1}
  RetryInterval = 4
  RefreshFloor = 2
  MinRequeue = 1
  Backoff = 1
  MaxClock = 7
  Faults = {"fail", "outside", "other"}
  Texts = {p1, p2}
  Renderable <- AnyValues
SPECIFICATION Spec
INVARIANTS TypeOK NextLookupScheduled RefreshRests
PROPERTIES GraceHonoured KnownRecordsStay ExpiresOnTime
CHECK_DEADLOCK FALSE
