SPECIFICATION ArbdFairSpec
CONSTANTS
  bin = bin
  uni = uni
  Chain <- OneBlock
  Buffer = 1
  DialErrors <- DeadlineToo
  Venues <- MCVenues
  Sizes <- MCSizes
  Prices <- MCPrices
  Word <- MCWord
  Results <- MCResults
  Envs <- MCEnvs
  Files <- MCFiles
INVARIANT TypeOK
PROPERTIES LeavesNothing Ends
CHECK_DEADLOCK FALSE
