CONSTANTS
  Ids = {i1, i2}
  Delays = {0, 1}
  Events = {e1, e2, e3}
  OrderedUpTo = 1
SPECIFICATION RecordedSpec
PROPERTY RegisteredRuns
CHECK_DEADLOCK FALSE
