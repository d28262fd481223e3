SPECIFICATION FairSpec
CONSTANTS
  Sources = {"gpt2", "llama3_meta", "llama3_hf"}
  L = 2
  V = 5
  PadTo = 4
  Channels = 2
  MaxT = 3
  Heads = 2
  KVHeads = 1
  HeadDim = 4
  TrainerArgs <- MCTrainerArgs
  TrainData <- MCTrainData
  World = 2
  NumBatches = 4
  MaxCrashes = 2
INVARIANTS
  ImportIsComplete
  ExportIsTheModel
  NewestIsComplete
  ResumeIsBitPerfect
PROPERTY TrainingEnds
\* Training ends; a compiled GPT-2 is never written.
CHECK_DEADLOCK FALSE
