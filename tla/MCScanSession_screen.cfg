CONSTANTS
  None = None
  Controls <- MCControls
  Asides = {}
  MayRefuse = {}
  Settle = 1
  MaxOpens = 2
  LockWait = 1
  EarlyMost = 3
SPECIFICATION FairSpec
INVARIANT CaptureMatchesScreen
CHECK_DEADLOCK FALSE
