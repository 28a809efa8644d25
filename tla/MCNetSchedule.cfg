SPECIFICATION Spec
CONSTANTS
  Nets = {n1, n2, n3, n4}
  Inputs <- MCInputs
  Layout <- MCLayout
  Margin <- MCMargin
  NetsPerBatch = 1
INVARIANTS
  PinsInReach
  OneThreadPerNet
  BatchesComplete
  RegionsApart
  LeftOutOnlyWithoutRoom
CHECK_DEADLOCK FALSE
