SPECIFICATION ShedSpec
CONSTANTS
  Osd <- MCOsd
  HostOf <- MCHostOf
  ClassOf <- MCClassOf
  Weight <- MCWeight
  Sized <- MCSized
  Usable <- MCUsable
  Pg <- MCPg
  Ec <- MCEc
  ShardSize <- MCShedShardSize
  Clusters <- MCShedClusters
  Sources <- MCShedSources
  Level = 0
  LevelClass = None
  Relieve = FALSE
  Cap = 8
  NearFull = 9
  BackfillFull = 10
  None = None
  NoHost = NoHost
  h1 = h1
  h2 = h2
  h3 = h3
  h4 = h4
  h5 = h5
  hdd = hdd
INVARIANTS
  Accounted
  BlockersSettled
CHECK_DEADLOCK FALSE
