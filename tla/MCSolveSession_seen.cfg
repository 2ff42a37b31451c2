CONSTANTS
  None = None
  Cubes <- MCCubes
  Solved <- MCSolved
  Unsolvable = {}
  Methods = {"short"}
  FirstMethod = "short"
  Turns <- MCTurns
  MoveAt <- MCMoveAt
  CubeAfter <- MCCubeAfter
  MaxResume = 0
  Holds <- MCHolds
  StatedHold = "A0"
  Up <- MCUp
  Cells <- MCCells
  View <- MCView
  Faces <- MCFaces
  Apply <- MCApply
  FitOff = 1
  Trust = 2
  Accuse = 2
  Doubt = 2
  FoundCells <- MCFoundCells
  Glare = {}
  HandMoves <- MCTwoTurns
  ScanCubes <- MCOneCube
SPECIFICATION Spec
INVARIANT SeenMoveStepsOn
