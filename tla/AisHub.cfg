SPECIFICATION Spec
CONSTANTS
  Requests = {r1, r2}
  MaxRequests = 3
  Mmsis = {m1}
  MaxReports = 2
  MaxTime = 1
  Cooldown = 1
  CacheTTL = 1
  Named <- MCNamed
SYMMETRY Symmetry
CHECK_DEADLOCK FALSE
INVARIANTS TypeOK StatusSettles CopyAgrees
PROPERTIES LookupsApart CatalogNeverOlder
