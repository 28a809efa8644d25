SPECIFICATION FairSpec
CONSTANTS
  Nodes <- MCNodes
  Nets <- MCNets
  Wires <- MCWires
  MaxLayers = 3
  InputWatchdog = 5
  DirectWatchdog = 20
  Costs <- MCCosts
  Infinity = 1000
  MaxWires2 = 2
  MaxWires3 = 1
INVARIANTS
  SavedTree
  SavedShortest
PROPERTY NetIsWritten
CHECK_DEADLOCK FALSE
