SPECIFICATION Spec
\* The system rests once every item is acknowledged.
CHECK_DEADLOCK FALSE
CONSTANTS
  MaxItems = 3
  MaxFaults = 1
  Requests = {r1, r2}
  Fields = {position, wind}
  OtherPath = name
  MaxPostItems = 2
  None = None
SYMMETRY Symmetry
INVARIANTS
  TypeOK
  AckedIsStored
  EveryAckedCounted
  BrokerFollowsRow
PROPERTY
  NeverOlder
