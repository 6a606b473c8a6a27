SPECIFICATION Spec
CHECK_DEADLOCK FALSE
CONSTANTS
  MaxItems = 3
  MaxFaults = 2
  Requests = {r1, r2}
  Fields = {position, wind}
  OtherPath = name
  MaxPostItems = 2
  None = None
SYMMETRY Symmetry
INVARIANT
  LatestSnapshotStored
