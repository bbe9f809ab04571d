CONSTANTS
  h = h
  x = x
  y = y
  z = z
  v4 = v4
  v6 = v6
  None = None
  Names = {h, x, y, z}
  Addrs = {v4, v6}
  Hosts = {h}
  TTLs = {0, 1, 2}
  MaxHops = 2
  Zones <- MCZones
SPECIFICATION Spec
INVARIANT TTLIsMinimum
CHECK_DEADLOCK FALSE
