SPECIFICATION SaveSpec
CONSTANTS
  Saver = {1, 2, 3}
  Before = 0
  Stale = 9
  NoFile = 8
  Leftovers = {2}
INVARIANT NoTempLeft
PROPERTIES
  Implements
CHECK_DEADLOCK FALSE
