SPECIFICATION FairSpec
CONSTANTS
  Nodes <- MCNodes
  Children <- MCChildren
  NumConns = 4
  NetOf <- MCNetOf
  Source <- MCSource
  Sink <- MCSink
  EnterableSets <- MCEnterableSets
  Bounce <- MCBounce
  Labeled = {1}
  Garbage <- MCGarbage
  WatchDog = 13
  MaxIter = 6
INVARIANTS
  RouteWellFormed
  FailsOnlyIfUnreachable
  ConvergedMeansRouted
  OverlapOnlyWhileImproving
PROPERTY RoutingEnds
CHECK_DEADLOCK FALSE
