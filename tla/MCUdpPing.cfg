SPECIFICATION Spec
CONSTANTS
  Order <- PingOrder
  Script <- PingScript
  Polling = TRUE
  Together = FALSE
  MaxInterrupts = 2
  Ports = {"8090"}
  Groups = {}
  MayBeTaken = {"8090"}
  MaxFaults = 1
  MaxDrops = 1
  Checked = FALSE
INVARIANTS UdpType StandstillHasCause SuccessIsComplete PongAfterPing
CHECK_DEADLOCK FALSE
