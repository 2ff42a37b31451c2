CONSTANTS
  Capacity = 2
  RecordFullRes = TRUE
  RingFrames = 2
  MaxFrames = 5
SPECIFICATION FairSpec
INVARIANT TypeOK
INVARIANT Accounting
INVARIANT StoppedStatsAreExact
INVARIANT QueueBounded
INVARIANT RowsHaveImages
PROPERTY KeepsTheLog
PROPERTY StopReturns
PROPERTY EveryFrameIsDecided
CHECK_DEADLOCK FALSE
