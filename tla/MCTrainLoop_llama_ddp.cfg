SPECIFICATION FairSpec
CONSTANTS
  Scripts = {"fineweb", "tinystories", "tinyshakespeare"}
  ModelDescs = {"gpt-2", "llama-3"}
  Corpora <- MCCorpora
  ShardSize = 10
  ValTokens = 6
  B = 1
  T = 2
  RunArgs <- MCSamplingArgs
INVARIANT SamplingSurvives
\* The programs end.
CHECK_DEADLOCK FALSE
