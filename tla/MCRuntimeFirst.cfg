SPECIFICATION Spec
CONSTANTS
  Nodes <- MCNodes
  Nets = {"netA", "netB"}
  Conns = {"c1", "c2", "c3"}
  Threads = {"t1", "t2"}
  NetOf <- MCNetOf
  Sink <- MCSink
  Paths <- MCPaths
  PinBounce = {"s1"}
  StaleTargets <- MCStaleTargets
  WorkList <- MCWorkList
  MayFail = TRUE
  InitiallyRouted = {TRUE, FALSE}
  MaxIter = 3
INVARIANTS
  OccupancyMatchesUsers
  NoHiddenOveruse
  UsersMatchRoutes
  PriceLostOnlyInRace
CHECK_DEADLOCK FALSE
