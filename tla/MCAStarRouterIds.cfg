SPECIFICATION Spec
CONSTANTS
  Nodes <- MCNodes
  Children <- MCChildren
  NumConns = 4
  NetOf <- MCNetOf
  Source <- MCSource
  Sink <- MCSink
  EnterableSets <- MCEnterableSets
  Bounce <- MCBounce
  Labeled = {}
  Garbage <- MCZero
  WatchDog = 13
  MaxIter = 7
INVARIANT ForeignSinksAvoided
CHECK_DEADLOCK FALSE
