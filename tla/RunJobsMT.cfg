SPECIFICATION FairSpec
CONSTANTS
  NumJobs = 4
  MaxThreads = 3
INVARIANTS
  EachJobOnce
  AllHandledAtReturn
PROPERTIES
  CallReturns
  ImplementsBarrier
CHECK_DEADLOCK FALSE
