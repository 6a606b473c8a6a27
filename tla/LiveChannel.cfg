SPECIFICATION FairSpec
CONSTANTS
  MaxSockets = 2
  MaxPublishes = 3
  MaxBreaks = 2
  MaxQueue = 2
  Distant <- MCDistant
INVARIANTS
  TypeOK
  ViewIsCurrent
  NeverStranded
  ConnectedIsTrue
  OneConnection
PROPERTIES
  NeverStepsBack
  ViewCatchesUp
