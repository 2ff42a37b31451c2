CONSTANTS
  None = None
  Cubes <- MCCubes
  Solved <- MCSolved
  Unsolvable = {}
  Methods <- MCMethods
  FirstMethod = "long"
  Turns <- MCTurns
  MoveAt <- MCMoveAt
  CubeAfter <- MCCubeAfter
  MaxResume = 0
  Holds = {"A0", "A1"}
  StatedHold = "A0"
  Up <- MCUp
  Cells = {1}
  View <- MCView
  Faces <- MCFaces
  Apply <- MCApply
  FitOff = 0
  Trust = 2
  Accuse = 2
  Doubt = 2
  FoundCells = {{1}}
  Glare = {}
  HandMoves <- MCHandMoves
  ScanCubes <- MCLowCubes
SPECIFICATION Spec
PROPERTY NothingTurnedIsLost
