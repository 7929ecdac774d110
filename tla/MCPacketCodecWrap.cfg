SPECIFICATION BufferSpec
CONSTANTS
  Base = 2
  MaxLen = 12
INVARIANT CompleteHasPayload
CHECK_DEADLOCK FALSE
