SPECIFICATION GenSpec
CONSTANTS
  Vocab = {0, 1, 2, 3, 4}
  StopTokens = {1, 4}
  Probs <- MCProbs
  BlockLength = 5
  Calls <- MCCalls
  NoCall = NoCall
  PadId = 0
  MaxGenBatch = 2
  ValidationBatches = {2, 3}
  ValidationRow <- MCValidationRow
  MaxWeight = 3
  MaxCalls = 2
  MaxEncodeChars = 6
  MaxConsecutive = 2
  MaxText = 8
  NumCompletions = 2
  Examples <- MCExamples
  EvalConfigs <- MCEvalConfigs
  MaxExamples = 4
INVARIANTS
  CacheHoldsOwnText
  NucleusIsSmallest
  PiecesReassemble
  EvaluationsAgree
PROPERTY GenerateImplementsAutoregress
\* The calls end; a failed assertion ends the program.
CHECK_DEADLOCK FALSE
