SPECIFICATION Spec
CONSTANTS
  Depths <- MCDepths
  BpsDenominator = 100
  LevelEstimate = 3
  TakerFeeBps = 2
  SizeLists <- MCSizeLists
  Books <- MCBooks
INVARIANTS TypeOK FilledFromOneBook ErrorsMeanNoDepth
PROPERTY DeeperOnlyIfShort
CHECK_DEADLOCK FALSE
