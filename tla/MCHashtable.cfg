CONSTANTS
  k1 = k1 k2 = k2 k3 = k3 k4 = k4 k5 = k5
  v1 = v1 v2 = v2
  Keys <- MCKeys
  Values <- MCValues
  Hash <- MCHash
  InitialCapacity = 2
  Absent = Absent
  Nothing = Nothing
SPECIFICATION FairSpec
INVARIANTS TypeOK KeysFindable RoomToProbe NoNestedRebuild KeysOwned
PROPERTIES ImplementsMap CallsReturn
