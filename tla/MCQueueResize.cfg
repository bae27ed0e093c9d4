CONSTANTS
  Capacity = 3
  Elems = {e1, e2, e3}
  Null = Null
  Garbage = Garbage
  Limit = 4
SPECIFICATION Spec
PROPERTY IsFIFO
