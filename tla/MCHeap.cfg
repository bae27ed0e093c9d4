CONSTANTS
  Elems <- MCElems
  Key <- MCKey
  Null = Null
  DefaultCapacity = 1
SPECIFICATION FairSpec
INVARIANTS TypeOK RootOrder
PROPERTIES IsPool MinUnlessBigPop TurnsRunOut OperationEnds
