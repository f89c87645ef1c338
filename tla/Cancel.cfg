SPECIFICATION CancelSpec
CONSTANTS
  None = None
  NoHost = NoHost
  h1 = h1
  h2 = h2
  h3 = h3
  h4 = h4
  h5 = h5
  Osd <- MCOsd
  HostOf <- MCHostOf
  UtilOf <- MCUtilOf
  MinDelta = 1
  PGs <- MCFetched
  Commands <- MCCommands
INVARIANTS
  CancelsTakeEffect
  PinsKeepHostsApart
  AllOrNone
  Reported
  SkippedBlockersAreHopeless
CHECK_DEADLOCK FALSE
