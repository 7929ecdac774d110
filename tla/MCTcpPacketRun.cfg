SPECIFICATION RunSpec
CONSTANTS
  Base = 2
  Streams = {"C2S", "S2C"}
  Packets <- MCPackets
  InBufferLen <- MCInBufferLen
  Capacity = 6
  MaxSent = 8
  HelloClient <- MCHelloClient
  HelloWorld <- MCHelloWorld
  LargeMsg <- MCLargeMsg
  Msg100 <- MCMsg100
  Msg50 <- MCMsg50
  Msg150 <- MCMsg150
  QUIT <- MCQUIT
  MayBeKilled = {"client", "server"}
  MaxInterrupts = 1
INVARIANTS SuccessIsDelivery BlamesTheServer
PROPERTIES RunnerSpec RunnerReturns
CHECK_DEADLOCK FALSE
