SPECIFICATION FairSpec
CONSTANTS
  AllSubsetsUpTo = 4
  MinPanel = 1
  VeIds <- MCVeIds
  StartFaults = TRUE
  Shapes <- MCShapes
  Devices <- MCDevices
  Backends <- MCBackends
  ShardFaults = TRUE
INVARIANTS ResultIsProduct PartitionTiles WorkersOwned SharedIsUp
PROPERTIES StoppedOnlyUnused CallEnds
