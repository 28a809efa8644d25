SPECIFICATION FairSpec
CONSTANTS
  Conns = {c1, c2, c3}
  Boxes <- MCBoxes
  NumThreads = 2
INVARIANTS
  EachConnOnce
  NodeCoversConns
  NoConcurrentSharing
  DoneMeansAllRouted
PROPERTY TreeIsRouted
CHECK_DEADLOCK FALSE
