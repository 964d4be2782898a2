SPECIFICATION Spec
CONSTANTS
  MaxMedia = 1
  InlineCap = 1
  Slots <- MCSlots
  ConfigSlot <- MCConfig
  Functions = {"web_search", "read_file"}
  Inputs <- MCInputs
  MaxItems = 5
INVARIANTS   NothingLost
CHECK_DEADLOCK FALSE
