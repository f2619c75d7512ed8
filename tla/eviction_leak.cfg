SPECIFICATION MCSpec
CONSTANTS
  num_gpu_blocks = 3
  block_size = 2
  Req = {r1}
  Token = {1, 2}
  Prompts <- Overflowing
  LegacySizes = {}
  MaxRefs = 2
  fork = 1
INVARIANT BlocksNeverLost
CHECK_DEADLOCK FALSE
