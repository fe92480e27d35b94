SPECIFICATION FairSpec
CONSTANTS
  Worker = {w1, w2, w3}
  Counter = {"numFailedInserts", "numNilReads"}
  Capacity = 2
  MaxCount = 2
INVARIANTS TypeOK NoSendAfterClose FinishedIsFinal NeverOvercounts
PROPERTIES ImplementsView EventuallyFinished
