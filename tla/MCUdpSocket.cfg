SPECIFICATION Spec
CONSTANTS
  Objects = {a, b, c}
  Fds = {0, 1, 2}
  Ports = {7, 8}
  MaxQueue = 2
INVARIANTS UdpTypeOK UniqueOwner
PROPERTY HandleSpec
CHECK_DEADLOCK FALSE
