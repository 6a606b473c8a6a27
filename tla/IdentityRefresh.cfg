SPECIFICATION Spec
CONSTANTS
  Contexts = {c1, c2}
  None = None
  Unusable = Unusable
  Handlers = {h1, h2}
  MaxFailures = 2
  MaxOthers = 1
CHECK_DEADLOCK FALSE
INVARIANTS TypeOK
PROPERTIES FollowsSelf ShadowStays
