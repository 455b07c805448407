SPECIFICATION Spec
CONSTANTS
  MAX_TASKS = 2
  StackSize = 208
  RawOffsets = {0, 9}
  Pushed = {"short", "long"}
INVARIANT StashedRspIsInterrupted
