SPECIFICATION VenueFairSpec
CONSTANTS
  noSwap = noSwap
  Reqs <- MCRows
  RetryMax = 1
  Burst = 1
  MinRequests = 2
  RatioPct = 50
  MaxSample = 3
  Sizes <- MCSizes
  BaseUnit = 2
  Heads <- MCHeads
  Pool <- MCPool
  Revert <- noSwap
  GasAnswers = {5, 8}
  Word = 8
INVARIANTS VenueTypeOK VenueQuotesTrue CountsConsistent SingleProbe
PROPERTIES AdapterSpec ProbeResolves SnapshotReturns
CHECK_DEADLOCK FALSE
