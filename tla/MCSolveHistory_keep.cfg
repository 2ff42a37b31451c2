CONSTANTS
  None = None
  Cubes <- MCCubes
  Solved = 0
  Unsolvable = {}
  Methods = {"long", "short"}
  FirstMethod = "long"
  Turns <- MCTurns
  MoveAt <- MCMoveAt
  CubeAfter <- MCCubeAfter
  MaxResume = 2
  Capacity = 2
  ScanCubes = {2}
  MaxId = 3
  FailId = 2
  Restless = FALSE
SPECIFICATION Spec
PROPERTY KeepOffChangesNothing
