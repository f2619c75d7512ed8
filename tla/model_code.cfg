SPECIFICATION Spec
CONSTANTS
  MaxCtx = 7
  MaxBlock = 4
  MaxHeads = 4
  MaxFeatures = 5
  MaxRows = 3
  MaxWords = 2
  MaxGroups = 9
  GroupSizes = {1, 3, 6, 8}
  MaxWorld = 5
  MaxLayers = 11
  MaxOps = 5
  MaxInputs = 2
  MaxTokens = 3
  MaxWeight = 33
INVARIANTS ScoresStayInBlock Int4KeepsWeights KeptNearZero RanksDivide OneTokenPerStep DraftsFollowCorpus AwqOwnGroups HeadSizedInputsOnly PositionsRestart AnswersExceptReplays SampledTokens QwenRunsAsLlama AnswerIsWhole StopStringsAtTokens InputsSeenAlone OnlyBiasedCheckpointsBuild TokenizerFromJsonOnly
CHECK_DEADLOCK FALSE
