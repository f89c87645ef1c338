SPECIFICATION DivertSpec
CONSTANTS
  Osd <- MCOsd
  HostOf <- MCHostOf
  ClassOf <- MCClassOf
  Weight <- MCWeight
  Sized <- MCSized
  Usable <- MCUsable
  Pg <- MCPg
  Ec <- MCEc
  ShardSize <- MCShardSize
  Clusters <- MCClusters
  Sources = {}
  Level = 0
  LevelClass = None
  Relieve = TRUE
  Cap = 9
  NearFull = 8
  BackfillFull = 10
  ToofullUtil = 8
  Only <- MCPg
  None = None
  NoHost = NoHost
  h1 = h1
  h2 = h2
  h3 = h3
  h4 = h4
  h5 = h5
  hdd = hdd
INVARIANTS
  NoneForgotten
  FittingWillFit
PROPERTIES
  FullestServedFirst
CHECK_DEADLOCK FALSE
