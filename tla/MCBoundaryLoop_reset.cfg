SPECIFICATION Spec
CONSTANTS
  LowerBoundaryBytes = 1
  UpperBoundaryBytes = 2
  SameSizeStepsLimit = 2
  NumElements = 3
  Configs <- MCFixed
PROPERTIES NeverAboveUpper
CHECK_DEADLOCK FALSE
