SPECIFICATION FrontSpec
CONSTANTS
  Nodes <- MCNodes
  Graphs = {}
  MaxPath = 5
  Files <- MCFiles
  INT = "INT"
  LAG_LAG = "LAG"
  DeviceNodes <- MCDeviceNodes
  Setups <- MCSetups
  Netlists <- MCNetlists
INVARIANTS
  ReadyIsOneDevice
  EdgesBothWays
  DegreesExact
  NoPathLost
  NoDeadEndLeft
  WrittenPipConnects
PROPERTY CacheServes
CHECK_DEADLOCK FALSE
