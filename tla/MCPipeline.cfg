SPECIFICATION Spec
CONSTANTS
  bin = bin
  uni = uni
  Chain <- TwoBlocks
  Buffer = 1
  DialErrors <- DeadlineOnly
  Venues <- MCVenues
  Sizes <- MCSizes
  Prices <- MCPrices
  Word <- MCWord
  Results <- MCResults
INVARIANTS CleanExit DrainComplete
PROPERTY DetectorSpec
CHECK_DEADLOCK FALSE
