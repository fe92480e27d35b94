SPECIFICATION FairSpec
CONSTANTS
  LowerBoundaryBytes = 1
  UpperBoundaryBytes = 2
  SameSizeStepsLimit = 3
  Goroutine = {1, 10}
  NumElements = 2
  Configs <- MCConfigs
INVARIANTS TypeOK ReadsWhatItIngested LeavesNothingBehind SizeServesItsSteps
PROPERTIES GoroutinesEnd
CHECK_DEADLOCK FALSE
