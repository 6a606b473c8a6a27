SPECIFICATION Spec
\* The bound on requests ends every behaviour.
CHECK_DEADLOCK FALSE
CONSTANTS
  Requests = {r1, r2}
  MaxRequests = 4
  Vessels = {v1, v2}
  Ids = {i1, i2, i3}
  Fields = {mmsi, name}
  None = None
SYMMETRY Symmetry
INVARIANTS
  TypeOK
  OneOfEach
  FirstFormWins
  PrimaryTakesEffect
  ArchiveHandsOver
  SyncAgrees
PROPERTY
  IdentityNeverOlder
