SPECIFICATION Spec
CONSTANTS
  Width = 3
  PgNum = 3
  None = None
  Osd <- MCOsd
  Host <- MCHost
  HostOf <- MCHostOf
  Pg = {"e", "r"}
  Ec = {"e"}
  Seed <- MCSeed
  Starts <- MCStarts
  Arguments <- MCArguments
  Interval = 2
  MaxClock = 3
  MaxChanges = 2
INVARIANTS
  RateIsArrival
  CopiesAccountedFor
  ReasonsAreTrue
  ReplaysAgree
CHECK_DEADLOCK FALSE
