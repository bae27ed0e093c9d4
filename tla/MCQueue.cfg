CONSTANTS
  Capacity = 3
  Elems = {e1, e2, e3}
  Null = Null
  Garbage = Garbage
  Limit = 7
SPECIFICATION Spec
INVARIANTS TypeOK RingIndices FreesUnlessFull
PROPERTY FIFOUnlessOverfilled
