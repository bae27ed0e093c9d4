CONSTANTS
  Ids = {i1, i2}
  Delays = {0, 1}
  Events = {e1, e2, e3}
  OrderedUpTo = 1
SPECIFICATION FairSpec
INVARIANTS TypeOK EventOnce
PROPERTIES TurnsRunOut LoopEnds
CHECK_DEADLOCK FALSE
