SPECIFICATION Spec
CONSTANTS
  MaxMedia = 1
  InlineCap = 1
  Slots <- MCWindowed
  ConfigSlot <- MCWindowedConfig
  Functions = {"web_search", "read_file"}
  Inputs <- MCTexts
  MaxItems = 5
INVARIANT CurrentTurnSent
CHECK_DEADLOCK FALSE
