SPECIFICATION ArbdSpec
CONSTANTS
  bin = bin
  uni = uni
  Chain <- OneBlock
  Buffer = 1
  DialErrors <- DeadlineToo
  Venues <- MCVenues
  Sizes <- MCSizes
  Prices <- MCPrices
  Word <- MCWord
  Results <- MCResults
  Envs <- MCEnvs
  Files <- ZeroFiles
INVARIANT NonPositiveRejected
CHECK_DEADLOCK FALSE
