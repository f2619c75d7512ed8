SPECIFICATION FairSpec
CONSTANTS
  num_gpu_blocks = 1
  block_size = 2
  Req = {r1, r2}
  Token = {1, 2}
  Prompts <- LongPrompts
  max_tokens_per_iter = 2
  max_prefill_chunk_size = 2
  MaxTokens = {1}
  LayerCounts = {0}
  MaxLate = 2
  ForwardMayFail = FALSE
  MayShutDown = FALSE
PROPERTY DeadlineEndsRequest
CHECK_DEADLOCK FALSE
