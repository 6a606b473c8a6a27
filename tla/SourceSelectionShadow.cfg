SPECIFICATION Spec
CHECK_DEADLOCK FALSE
CONSTANTS
  Publishers = {"boat", "canary"}
  Role <- PrimaryAndShadow
  NumSources = 2
  Rank <- OwnPositionRank
  GateRank <- OwnPositionRank
  Window = 2
  MaxTime = 6
  MaxBatch = 2
PROPERTY
  ShadowNeverOverrides
