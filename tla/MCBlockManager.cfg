CONSTANTS
  a = a
  b = b
  c = c
  Requests <- MCRequests
  Prompt <- MCPrompt
  MaxNewTokens <- MCMaxNewTokens
  HonorsEos <- MCHonorsEos
  NumBlocks = 3
  BlockSize = 2
  PrefixCacheEnabled = TRUE
SPECIFICATION BMSpec
INVARIANTS
  TypeOK
  RefCountsOwners
  SharedBlocksAgree
  WriteIsolation
  CapacityOracle
PROPERTIES
  ReadersKeepBlocks
