SPECIFICATION Spec
\* The model ends at MaxTime with nothing left to post.
CHECK_DEADLOCK FALSE
CONSTANTS
  Publishers = {"boat"}
  Role <- PrimaryOnly
  NumSources = 3
  Rank <- BestAndTwoEqual
  GateRank <- BestAndTwoEqual
  Window = 2
  MaxTime = 9
  MaxBatch = 4
INVARIANTS
  TypeOK
  NeverSilent
PROPERTIES
  NoFlapping
  GateAgrees
