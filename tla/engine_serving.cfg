SPECIFICATION Spec
CONSTANTS
  num_gpu_blocks = 4
  block_size = 2
  Req = {r1, r2, r3}
  Token = {1, 2}
  Prompts <- LongPrompts
  max_tokens_per_iter = 2
  max_prefill_chunk_size = 2
  MaxTokens = {3}
  LayerCounts = {0, 2}
  MaxLate = 2
  ForwardMayFail = TRUE
  MayShutDown = FALSE
INVARIANTS TypeOK OneQueueOneOwner BatchIsCurrent IterationBudget EveryRunningServed RegisteredBeforeUse KVHoldsContext DecodedFromOwnToken CachesLeftByDeadline
PROPERTIES ManagerSpec Serves
SYMMETRY RequestSymmetry
CHECK_DEADLOCK FALSE
