SPECIFICATION MCSpec
CONSTANTS
  num_gpu_blocks = 9
  block_size = 2
  Req = {r1, r2}
  Token = {1, 2}
  Prompts <- Divergent
  LegacySizes = {}
  MaxRefs = 3
  fork = 1
PROPERTY CachedUnderOwnPrompt
SYMMETRY RequestSymmetry
CHECK_DEADLOCK FALSE
