SPECIFICATION FairSpec
CONSTANTS
  bin = bin
  uni = uni
  third = third
  Venues <- MCVenues
  Sizes <- MCSizes
  Prices <- MCPrices
  Blocks <- MCBlocks
  Results <- MCResults
  Word <- MCWord
INVARIANTS TypeOK SoundCandidates NoMissedPair NeverTwice
PROPERTIES FreshestOnly CancelStops
CHECK_DEADLOCK FALSE
