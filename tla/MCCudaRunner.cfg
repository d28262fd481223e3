SPECIFICATION FairSpec
CONSTANTS
  a = a
  b = b
  Requests = {a, b}
  PromptLen <- MCPromptLen
  Total <- MCTotal
  Table <- MCTable
  PageSize = 3
  NumPages = 3
  MaxNumTokens = 3
  MaxNumSequences = 2
  Modes <- MCModes
  MaxFailures = 1
INVARIANTS
  PackedSpansItems
  SamplesBelongToItems
PROPERTY ServesUnlessStuck
