SPECIFICATION FairRunSpec
CONSTANTS
  MaxInterrupts = 2
  Ports = {"1", "2", "3", "4"}
  MaxFaults = 0
  MaxDrops = 1
  str <- MCstr
  UnicastPorts <- MCUnicastPorts
  MulticastPort = "3"
  MAX_PORT = 4
  UnicastClients <- MCUnicastClients
  MulticastClients <- MCMulticastClients
  Arguments <- MCArguments
  Followed <- MCFollowed
INVARIANTS FailureIsOverlap SuccessFitsTheHost SilenceHasCause RightGreeting
PROPERTIES TermFirst RunnerReturns
CHECK_DEADLOCK FALSE
