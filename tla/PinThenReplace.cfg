SPECIFICATION ShedSpec
CONSTANTS
  Osd <- MCOsd
  HostOf <- MCHostOf
  ClassOf <- MCPinClass
  Weight <- MCWeight
  Sized <- MCOsd
  Usable <- MCOsd
  Pg = {1, 2, 3}
  Ec <- MCEcOf3
  ShardSize <- MCPinSize
  Clusters <- MCPinClusters
  Sources <- MCPinSources
  Level = 60
  LevelClass = hdd
  Relieve = TRUE
  Cap = 89
  NearFull = 85
  BackfillFull = 90
  None = None
  NoHost = NoHost
  h0 = h0
  h1 = h1
  h2 = h2
  h3 = h3
  h4 = h4
  h5 = h5
  hdd = hdd
  ssd = ssd
  Full = 95
INVARIANTS
  HostsKeptApart
CHECK_DEADLOCK FALSE
