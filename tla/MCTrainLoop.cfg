SPECIFICATION FairSpec
CONSTANTS
  Scripts = {"fineweb", "tinystories", "tinyshakespeare"}
  ModelDescs = {"gpt-2", "llama-3"}
  Corpora <- MCCorpora
  ShardSize = 10
  ValTokens = 6
  B = 1
  T = 2
  RunArgs <- MCRunArgs
INVARIANTS
  ShardsCarryTheCorpus
  NextBatchInBounds
  RanksTrainOnDisjointTokens
  StepUsesWholeBatch
  ReplicasAgree
PROPERTY EveryRankEnds
\* The programs end.
CHECK_DEADLOCK FALSE
