SPECIFICATION FairSpec
CONSTANTS
  Goroutine = {g1, g2, g3}
  Queue = {q1, q2, q3}
  Capacity = 1
  Configs <- MCConfigs
INVARIANTS TypeOK OwnQueueNeverBlocks FullQueueHasAMover QueuesEndEmpty
PROPERTIES GoroutinesEnd PollersEnd
CHECK_DEADLOCK FALSE
