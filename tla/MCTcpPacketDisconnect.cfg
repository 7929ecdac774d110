SPECIFICATION Spec
CONSTANTS
  Base = 2
  Streams = {"C2S", "S2C"}
  Packets <- MCPackets
  InBufferLen <- MCInBufferLen
  Capacity = 12
  MaxSent = 8
  HelloClient <- MCHelloClient
  HelloWorld <- MCHelloWorld
  LargeMsg <- MCLargeMsg
  Msg100 <- MCMsg100
  Msg50 <- MCMsg50
  Msg150 <- MCMsg150
  QUIT <- MCQUIT
  MayBeKilled = {"client", "server"}
INVARIANT DisconnectIsCleanExit
CHECK_DEADLOCK FALSE
