SPECIFICATION Spec
CONSTANTS
  bin = bin
  uni = uni
  Venues <- MCVenues
  Sizes = {1, 3}
  Levels <- MCLevels
  GasOf <- MCGas
  BaseFees <- MCBaseFees
  WeiPerEth = 10
  Threshold = 1
  UniswapVenue = uni
  Cent = 4
INVARIANTS TypeOK AlertsPay NotBothWays NoBetterIgnored StepsAddUp
CHECK_DEADLOCK FALSE
