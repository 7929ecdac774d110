SPECIFICATION FairStreamSpec
CONSTANTS
  Base = 2
  Streams = {"s"}
  Packets <- MCPackets
  InBufferLen <- MCInBufferLen
  Capacity = 6
  MaxSent = 3
INVARIANTS StreamTypeOK DeliveredInOrder RejectsOnlyInvalid NothingLeftBehind
PROPERTIES QueueSpec EverythingArrives
CHECK_DEADLOCK FALSE
