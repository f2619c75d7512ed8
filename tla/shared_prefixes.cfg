SPECIFICATION MCSpec
CONSTANTS
  num_gpu_blocks = 6
  block_size = 2
  Req = {r1, r2}
  Token = {t1, t2, t3}
  fork = t1
  Prompts <- SiblingPrompts
  LegacySizes = {}
  MaxRefs = 2
INVARIANT CacheWithinCapacity
PROPERTY LeastRecentSiblingFirst
SYMMETRY SiblingSymmetry
CHECK_DEADLOCK FALSE
