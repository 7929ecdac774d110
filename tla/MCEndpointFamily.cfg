SPECIFICATION ThreadsSpec
CONSTANTS
  Base = 2
  Texts <- MCTexts
  Addresses <- MCAddresses
  Objects <- MCObjects
  Threads = {t1, t2}
  Shared = shared
SYMMETRY Symmetry
INVARIANTS EndpointIsIpAndPort
CHECK_DEADLOCK FALSE
