\* Room for two requests of the largest size: MaxNumSequences times ceil(7 / 2) blocks.
CONSTANTS
  a = a
  b = b
  c = c
  d = d
  Requests <- MCFewRequests
  Prompt <- MCPrompt
  MaxNewTokens <- MCMaxNewTokens
  HonorsEos <- MCHonorsEos
  NumBlocks = 8
  BlockSize = 2
  PrefixCacheEnabled = TRUE
  MaxNumSequences = 2
  MaxNumBatchedTokens = 3
SPECIFICATION FairSpec
INVARIANTS
  NeverStalls
PROPERTIES
  EveryRequestFinishes
