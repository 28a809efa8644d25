SPECIFICATION Spec
CONSTANTS
  Nodes <- MCNodes
  Nets = {"netA", "netD", "netE", "netL"}
  Conns = {"a1", "a2", "d1", "e1", "l1", "l2"}
  Threads = {0, 1}
  NetOf <- MCNetOf
  Sink <- MCSink
  Paths <- MCPaths
  PinBounce = {"s1", "s6"}
  StaleTargets <- MCStaleTargets
  ConnSeq <- MCConnSeq
  NumBatches = 2
  BatchNets <- MCBatchNets
  Labeled <- MCLabeled
  NodeOwner <- MCNodeOwner
  InitiallyRouted = {{}, {"e1"}}
  MaxIter = 2
INVARIANT ConvergedMeansRouted
CHECK_DEADLOCK FALSE
