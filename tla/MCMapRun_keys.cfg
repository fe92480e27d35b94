SPECIFICATION FairSpec
CONSTANTS
  LowerBoundaryBytes = 1
  UpperBoundaryBytes = 2
  SameSizeStepsLimit = 3
  Goroutine = {1, 10}
  NumElements = 2
  Configs <- MCSharedBoundary
PROPERTIES ResetLeavesOthers
CHECK_DEADLOCK FALSE
