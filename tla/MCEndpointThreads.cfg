SPECIFICATION ThreadsSpec
CONSTANTS
  Base = 2
  Texts <- MCTexts
  Addresses <- MCAddresses
  Objects <- MCObjects
  Threads = {t1, t2}
  Shared = shared
SYMMETRY Symmetry
INVARIANTS RaceHasCause TextIsRight EqualIsSame
PROPERTIES StepsAreCalls
CHECK_DEADLOCK FALSE
