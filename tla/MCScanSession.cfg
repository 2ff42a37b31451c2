CONSTANTS
  None = None
  Controls <- MCControls
  Asides = {}
  MayRefuse = {"exposure"}
  Settle = 1
  MaxOpens = 2
  LockWait = 1
  EarlyMost = 3
SPECIFICATION FairSpec
INVARIANT TypeOK
INVARIANT LeftAsFound
INVARIANT OneOpeningPerScan
INVARIANT NothingStale
INVARIANT EarlyFramesAreFew

PROPERTY LockIsNotAwaitedForGood
PROPERTY StopReturns
