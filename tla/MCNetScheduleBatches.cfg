SPECIFICATION Spec
CONSTANTS
  Nets = {n1, n2, n3, n4}
  Inputs <- MCInputs
  Layout <- MCLayout
  Margin <- MCMargin
  NetsPerBatch = 4
INVARIANTS
  BatchIdInRange
CHECK_DEADLOCK FALSE
