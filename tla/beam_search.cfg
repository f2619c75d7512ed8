SPECIFICATION Spec
CONSTANTS
  num_beams = 3
  max_new_tokens = 3
  eos_token_id = 4
  PenalizeLength = TRUE
  Vocab = {1, 2, 3, 4}
  Prompts <- ShortPrompts
  MaxPromptLen = 3
  LogProb <- MCLogProb
INVARIANT BeamsAreCopies
PROPERTY DecodesGreedily
CHECK_DEADLOCK FALSE
