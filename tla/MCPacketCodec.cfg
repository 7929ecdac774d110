SPECIFICATION BufferSpec
CONSTANTS
  Base = 2
  MaxLen = 12
INVARIANT ParsedIsEncoded
PROPERTY VerdictIsFinal
CHECK_DEADLOCK FALSE
