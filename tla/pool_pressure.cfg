SPECIFICATION MCSpec
CONSTANTS
  num_gpu_blocks = 4
  block_size = 2
  Req = {r1, r2, r3}
  Token = {1, 2}
  Prompts <- MCPrompts
  LegacySizes = {3}
  MaxRefs = 3
  fork = 1
INVARIANTS TypeOK RefsCoverHolders FreeBlocksUnheld NoDoubleFree PromptsFit
PROPERTIES SharingOnlyThroughCache LastReferenceFrees
SYMMETRY RequestSymmetry
CHECK_DEADLOCK FALSE
