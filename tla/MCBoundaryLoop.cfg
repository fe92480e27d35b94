SPECIFICATION FairSpec
CONSTANTS
  LowerBoundaryBytes = 1
  UpperBoundaryBytes = 2
  SameSizeStepsLimit = 2
  NumElements = 3
  Configs <- MCConfigs
INVARIANTS TypeOK CacheTracksRemote
PROPERTIES RespectsBoundaries BehavesAsNeighbour LoopEnds
CHECK_DEADLOCK FALSE
