SPECIFICATION Spec
CONSTANTS
  num_gpu_blocks = 6
  block_size = 2
  Req = {r1, r2}
  Token = {1, 2}
  Prompts <- OneTokenPrompts
  max_tokens_per_iter = 2
  max_prefill_chunk_size = 2
  MaxTokens = {1}
  LayerCounts = {1}
  MaxLate = 0
  ForwardMayFail = FALSE
  MayShutDown = FALSE
INVARIANT RegisteredAtAppend
SYMMETRY RequestSymmetry
CHECK_DEADLOCK FALSE
