CONSTANTS
  None = None
  Controls <- MCControls
  Asides = {"temperature", "autoExposure"}
  MayRefuse = {"exposure"}
  Settle = 1
  MaxOpens = 2
  LockWait = 1
  EarlyMost = 3
SPECIFICATION FairSpec
INVARIANT NothingLeftBehind
CHECK_DEADLOCK FALSE
