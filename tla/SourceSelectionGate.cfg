SPECIFICATION Spec
CHECK_DEADLOCK FALSE
CONSTANTS
  Publishers = {"boat"}
  Role <- PrimaryOnly
  NumSources = 2
  Rank <- OwnPositionRank
  GateRank <- OwnPositionGateRank
  Window = 2
  MaxTime = 8
  MaxBatch = 3
PROPERTY
  GateAgrees
