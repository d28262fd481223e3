CONSTANTS
  a = a
  b = b
  c = c
  e = e
  Requests <- MCRequests
  Prompt <- MCPrompt
  MaxNewTokens <- MCMaxNewTokens
  HonorsEos <- MCHonorsEos
  NumBlocks = 4
  BlockSize = 2
  PrefixCacheEnabled = TRUE
  MaxNumSequences = 2
  MaxNumBatchedTokens = 3
  MaxContextLength = 6
SPECIFICATION EngineSpec
INVARIANTS
  KVCoherent
  SamplesAreGreedy
  RunnerInBounds
PROPERTIES
  EngineImplementsScheduler
