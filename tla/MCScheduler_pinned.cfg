\* Claim of the documentation that the code does not keep.
CONSTANTS
  a = a
  b = b
  c = c
  d = d
  Requests <- MCFewRequests
  Prompt <- MCPrompt
  MaxNewTokens <- MCMaxNewTokens
  HonorsEos <- MCHonorsEos
  NumBlocks = 4
  BlockSize = 2
  PrefixCacheEnabled = TRUE
  MaxNumSequences = 2
  MaxNumBatchedTokens = 4
SPECIFICATION Spec
INVARIANTS
  PinnedBlocksHaveActiveReader
