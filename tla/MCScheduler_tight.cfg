\* Four blocks: two of the larger requests do not fit together, so schedule() fails to
\* allocate, evicts, and at times makes no progress.
CONSTANTS
  a = a
  b = b
  c = c
  d = d
  Requests <- MCRequests
  Prompt <- MCPrompt
  MaxNewTokens <- MCMaxNewTokens
  HonorsEos <- MCHonorsEos
  NumBlocks = 4
  BlockSize = 2
  PrefixCacheEnabled = TRUE
  MaxNumSequences = 2
  MaxNumBatchedTokens = 4
SPECIFICATION Spec
INVARIANTS
  ItemsBacked
  NoLogicError
PROPERTIES
  SchedulerUsesPoolAsSpecified
  SchedulerImplementsServing
