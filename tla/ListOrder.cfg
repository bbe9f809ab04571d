CONSTANTS
  a = a
  b = b
  v = v
  bad = bad
  ip = ip
  None = None
  Output = Output
  Names = {a, b}
  Values = {v, bad}
  Unrenderable = {bad}
  DNSValue = ip
  MaxDisturbances = 0
  Specs <- MCSpecs
  FirstSpecs <- FromSelector
  Edited <- MCEdited
  Contents <- MCContents
  Starts <- MCStarts
SPECIFICATION Spec
PROPERTY RightOutputStays
CHECK_DEADLOCK FALSE
