SPECIFICATION PlanSpec
CONSTANTS
  Osd <- MCOsd
  HostOf <- MCHostOf
  ClassOf <- MCClassOf
  Weight <- MCWeight
  Sized <- MCOsd
  Usable <- MCOsd
  Pg <- MCPg
  Ec <- MCEc
  ShardSize <- MCShardSize
  Clusters <- MCClusters
  Sources <- MCOneSource
  Level = 8
  LevelClass = hdd
  Relieve = TRUE
  Cap = 8
  NearFull = 9
  BackfillFull = 10
  None = None
  NoHost = NoHost
  h1 = h1
  h2 = h2
  h3 = h3
  h4 = h4
  h5 = h5
  hdd = hdd
INVARIANTS
  UpSetsValid
  TargetsHaveRoom
  UsageAccounted
  AppliedAsPlanned
  LevelKept
PROPERTIES
  ReliefKept
CHECK_DEADLOCK FALSE
