SPECIFICATION FairSpec
CONSTANTS
  Base = 2
  Streams = {"C2S", "S2C"}
  Packets <- MCPackets
  InBufferLen <- MCInBufferLen
  Capacity = 12
  MaxSent = 8
  HelloClient <- MCHelloClient
  HelloWorld <- MCHelloWorld
  LargeMsg <- MCLargeMsg
  Msg100 <- MCMsg100
  Msg50 <- MCMsg50
  Msg150 <- MCMsg150
  QUIT <- MCQUIT
  MayBeKilled = {"client", "server"}
INVARIANTS TcpTypeOK HalfDuplex FailureHasCause EndsAfterAll
PROPERTIES StreamSpec EverybodyExits
CHECK_DEADLOCK FALSE
