CONSTANTS
  Keys <- MCKeys
  Name <- MCName
  Hash <- MCHash
  Vals = {v1, v2, v3, v4}
  Null = Null
  DefaultCapacity = 1
SPECIFICATION FairSpec
INVARIANTS TypeOK SizeCounts Findable OwnedOnce ReinsertsOnlyAdd
PROPERTIES IsDictionary OperationEnds
