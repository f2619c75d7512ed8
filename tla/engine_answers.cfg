SPECIFICATION FairSpec
CONSTANTS
  num_gpu_blocks = 9
  block_size = 2
  Req = {r1, r2, r3}
  Token = {1, 2}
  Prompts <- LongPrompts
  max_tokens_per_iter = 1
  max_prefill_chunk_size = 2
  MaxTokens = {2}
  LayerCounts = {0}
  MaxLate = 0
  ForwardMayFail = FALSE
  MayShutDown = TRUE
PROPERTY EveryRequestAnswered
CHECK_DEADLOCK FALSE
