CONSTANTS
  a = a
  b = b
  c = c
  e = e
  Requests <- MCRequests
  Prompt <- MCPrompt
  MaxNewTokens <- MCMaxNewTokens
  HonorsEos <- MCHonorsEos
  NumBlocks = 4
  BlockSize = 2
  PrefixCacheEnabled = FALSE
  MaxNumSequences = 2
  MaxNumBatchedTokens = 2
  PrefillBlocks = 3
  PrefillTokenBudget = 2
  MaxContextLength = 9
SPECIFICATION PDFairSpec
INVARIANTS
  PagesAccounted
  PDKVCoherent
  EveryDecodeAdvances
PROPERTIES
  PDImplementsServing
  EveryPDRequestFinishes
