SPECIFICATION Spec
CONSTANTS
  num_gpu_blocks = 8
  block_size = 2
  Req = {r1}
  Token = {1, 2}
  Prompts <- LongPrompts
  max_tokens_per_iter = 2
  max_prefill_chunk_size = 2
  MaxTokens = {1}
  LayerCounts = {0}
  MaxLate = 0
  ForwardMayFail = FALSE
  MayShutDown = FALSE
PROPERTY CachedBlocksComputed
CHECK_DEADLOCK FALSE
