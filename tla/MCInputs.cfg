CONSTANTS
  a = a
  b = b
  v = v
  bad = bad
  ip = ip
  None = None
  Output = Output
  Names = {a, b}
  Values = {v, bad}
  Unrenderable = {bad}
  DNSValue = ip
  MaxDisturbances = 2
  Specs <- MCSpecs
  FirstSpecs <- FromNamed
  Edited <- MCEdited
  Contents <- MCContents
  Starts <- MCStarts
SPECIFICATION FairSpec
INVARIANTS TypeOK RestIsRight
PROPERTIES VerdictOnStoredSpec Contract CatchesUp
CHECK_DEADLOCK FALSE
