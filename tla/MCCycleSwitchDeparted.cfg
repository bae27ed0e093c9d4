CONSTANTS
  N = 2
  Addrs = {a, b}
  MaxMade = 2
  Memory = {m1, m2}
  Code = 255
  None = None
  Null = Null
SPECIFICATION Spec
PROPERTY ArrivalsHaveHosts
CHECK_DEADLOCK FALSE
