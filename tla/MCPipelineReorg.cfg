SPECIFICATION Spec
CONSTANTS
  bin = bin
  uni = uni
  Chain <- Reorg
  Buffer = 1
  DialErrors <- NetworkOnly
  Venues <- MCVenues
  Sizes <- MCSizes
  Prices <- MCPrices
  Word <- MCWord
  Results <- MCResults
INVARIANT CrossVenueAlerts
CHECK_DEADLOCK FALSE
