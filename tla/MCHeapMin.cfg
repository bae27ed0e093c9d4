CONSTANTS
  Elems <- MCElems
  Key <- MCKey
  Null = Null
  DefaultCapacity = 16
SPECIFICATION Spec
PROPERTY IsPriorityQueue
