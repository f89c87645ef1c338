SPECIFICATION Spec
CONSTANTS
  Osd <- MCOsd
  HostOf <- MCHostOf
  ShardCount = 3
  None = None
  NoHost = NoHost
  h1 = h1
  h2 = h2
  h3 = h3
INVARIANTS
  ClosedIsLeast
  AppliedInFull
  CycleIsReal
CHECK_DEADLOCK FALSE
