----------------------------- MODULE SolveSession -----------------------------
(***************************************************************************)
(* One sitting with the app and one cube: AppState's screens, the solve    *)
(* screen's stepping, SolveController and HeldCube, and the person with    *)
(* the cube in the hand.                                                   *)
(*                                                                         *)
(* Signals are delivered in the step that emits them, as Qt's direct       *)
(* connections do: stateChanged reaches HeldCube (OnStateChanged), AppState*)
(* and the solve screen, whose cube is painted anew (Repaint).  The solve  *)
(* screen lives in a Loader: leaving it drops a turn being shown.          *)
(*                                                                         *)
(* Scanning itself is one step here (the six sides of the cube in the hand *)
(* are read and agree); resuming from the history is not in this module.   *)
(***************************************************************************)
EXTENDS HeldCube

CONSTANTS
  FoundCells, \* bound: which of the stickers may be found
  Glare,      \* bound: the colours no sticker has that one may be misread as
  HandMoves,  \* bound: the turns the person makes
  ScanCubes   \* bound: the cubes the person scans

\* A scan only completes with a cube that can be solved (assemble_scan).
ASSUME ScanAssumption == ScanCubes \subseteq Cubes \ Unsolvable

\* A solution's cubes follow one another by its turns (SteppedSolution::from),
\* and a turn of the hand makes one cube another.
ASSUME TurnAssumption ==
  /\ \A m \in Methods, c \in Cubes \ Unsolvable : \A k \in 1..Turns(m, c) :
       Apply(CubeAfter(m, c, k - 1), MoveAt(m, c, k)) = CubeAfter(m, c, k)
  /\ \A c \in Cubes, m \in HandMoves : Apply(c, m) \in Cubes

\* Holds and the stickers of a side are few, and no sticker has a colour of the glare.
ASSUME ViewAssumption ==
  /\ IsFiniteSet(Holds) /\ IsFiniteSet(Cells) /\ FoundCells \subseteq SUBSET Cells
  /\ \A c \in Cubes, h \in Holds :
       /\ Cells \subseteq DOMAIN View(c, h)
       /\ \A i \in Cells : View(c, h)[i] \notin Glare

VARIABLES
  screen,        \* AppState.screen
  previous,      \* AppState.previousScreen
  scanComplete,  \* AppState.scanComplete
  beat,          \* completeBeat.running: the scan's last picture is still shown
  pendingStep,   \* SolveScreen.pendingStep
  playing,       \* Cube3DView.playing, of the solve screen's cube
  cube,          \* the cube in the hand
  grip,          \* how it is held
  fresh          \* history: steady frames seen since another cube was expected, up to Trust

screenVars == <<screen, previous, scanComplete, beat>>
stepVars == <<pendingStep, playing>>
handVars == <<cube, grip>>
vars == <<solveVars, heldVars, screenVars, stepVars, handVars, fresh>>

Screens == {"launch", "scan", "solve", "settings", "complete"}

Init ==
  /\ SolveInit
  /\ HeldInit
  /\ screen = "launch"
  /\ previous = "launch"
  /\ scanComplete = FALSE
  /\ beat = FALSE
  /\ pendingStep = 0
  /\ playing = FALSE
  /\ cube \in ScanCubes
  /\ grip = StatedHold
  /\ fresh = 0

\* The frames that count towards a verdict start again with the cube expected.
CountFresh ==
  fresh' = IF CurrentCube' # CurrentCube \/ stepped'.from # stepped.from THEN 0 ELSE fresh

-----------------------------------------------------------------------------
(* Stepping on the solve screen *)

\* Mutant of Repaint: a turn being shown survives the new painting.
RepaintUnderTurn == UNCHANGED stepVars

\* A new painting puts every layer back where it started: a turn being shown
\* stops there, and movePlayed is never emitted for it (resetLayers).
Repaint == playing' = FALSE /\ UNCHANGED pendingStep

\* onMovePlayed: the turn shown has landed and the solution follows it.
TakeStep ==
  /\ pendingStep = 1 => NextMove
  /\ pendingStep = -1 => PreviousMove
  /\ pendingStep = 0 => UNCHANGED solveVars
  /\ OnStateChanged
  /\ CountFresh

\* playMove: a turn starts to be shown.
Show(step) == pendingStep' = step /\ playing' = TRUE

\* finishPlaying: a turn still in flight lands first.
FinishPlaying ==
  IF playing THEN TakeStep ELSE UNCHANGED <<solveVars, heldVars, fresh>>

\* What is left of a step that cannot be shown, the solution being at an end.
NothingToShow ==
  /\ playing' = FALSE
  /\ pendingStep' = IF playing THEN 0 ELSE pendingStep

PressNext ==
  /\ screen = "solve" /\ ~isSolving
  /\ FinishPlaying
  /\ IF AtEnd(stepped') THEN NothingToShow ELSE Show(1)
  /\ UNCHANGED <<screenVars, handVars>>

PressPrevious ==
  /\ screen = "solve" /\ ~isSolving
  /\ FinishPlaying
  /\ IF AtStart(stepped') THEN NothingToShow ELSE Show(-1)
  /\ UNCHANGED <<screenVars, handVars>>

\* The animation runs to its end.
TurnLands ==
  /\ playing
  /\ TakeStep
  /\ pendingStep' = 0
  /\ playing' = FALSE
  /\ UNCHANGED <<screenVars, handVars>>

-----------------------------------------------------------------------------
(* Frames, while the solve screen watches *)

\* onMoveSeen: the step is shown as if Next was pressed, unless one already is.
OnMoveSeen ==
  IF announced' /\ ~announced /\ pendingStep = 0 /\ ~isSolving /\ ~AtEnd(stepped)
  THEN Show(1) ELSE UNCHANGED stepVars

\* What is read of the side in view: some of its stickers, at most one of them
\* not as it is.
Misread(found, i, g) == [lab |-> [View(cube, grip) EXCEPT ![i] = g], found |-> found]

Reads ==
  UNION {{[lab |-> View(cube, grip), found |-> found]}
           \cup {Misread(found, i, g) : i \in found, g \in Glare} : found \in FoundCells}

Frame ==
  /\ screen = "solve"
  /\ \/ FrameWithoutRead /\ UNCHANGED fresh
     \/ ~isSolving /\ FrameUnsteady /\ UNCHANGED fresh
     \/ /\ ~isSolving
        /\ \E read \in Reads : FrameSteady(read)
        /\ fresh' = IF fresh < Trust THEN fresh + 1 ELSE fresh
  /\ OnMoveSeen
  /\ UNCHANGED <<solveVars, screenVars, handVars>>

-----------------------------------------------------------------------------
(* The solve *)

\* The method is picked on the solve screen, which stops taking picks while it
\* solves, or on the settings screen, which never does.
ChooseMethod(m) ==
  /\ (screen = "solve" /\ ~isSolving) \/ screen = "settings"
  /\ SetMethod(m)
  /\ IF pending # None THEN Repaint ELSE UNCHANGED stepVars
  /\ UNCHANGED <<heldVars, screenVars, handVars, fresh>>

-----------------------------------------------------------------------------
(* Screens *)

\* onScreenChanged: any other screen forgets that a scan was complete, and the
\* solve screen's Loader drops the turn being shown.
Enter(s) ==
  /\ screen' = s
  /\ scanComplete' = FALSE
  /\ beat' = FALSE
  /\ pendingStep' = 0
  /\ playing' = FALSE

\* Leaving the solve screen stops the camera watching.
GoTo(s) ==
  /\ Enter(s)
  /\ IF screen = "solve" THEN OnWatchingStopped ELSE UNCHANGED heldVars
  /\ UNCHANGED <<solveVars, handVars, fresh>>

\* Mutant of Finish: the last turn need not have been reached.
FinishEarly == screen = "solve" /\ ~isSolving /\ GoTo("complete") /\ UNCHANGED previous

\* Mutant of OpenSettings: it can be opened over itself.
OpenSettingsTwice == GoTo("settings") /\ previous' = screen

BeginScan == screen \in {"launch", "complete"} /\ GoTo("scan") /\ UNCHANGED previous
CancelScan == screen = "scan" /\ GoTo("launch") /\ UNCHANGED previous
Rescan == screen = "solve" /\ ~isSolving /\ GoTo("scan") /\ UNCHANGED previous
Finish == screen = "solve" /\ AtEnd(stepped) /\ ~isSolving /\ GoTo("complete") /\ UNCHANGED previous
OpenSettings == screen # "settings" /\ GoTo("settings") /\ previous' = screen
CloseSettings == screen = "settings" /\ GoTo(previous) /\ UNCHANGED previous

\* The sixth side has been read and the six agree: the cube goes to the solver
\* and the scan screen stays up for a beat.
ScanCompletes ==
  /\ screen = "scan" /\ ~scanComplete
  /\ cube' \in ScanCubes
  /\ grip' = StatedHold
  /\ SolveCube(cube')
  /\ scanComplete' = TRUE
  /\ beat' = TRUE
  /\ UNCHANGED <<heldVars, screen, previous, stepVars, fresh>>

\* completeBeat runs out: on to the solution, if it is there.
BeatEnds ==
  /\ beat
  /\ IF isSolving
     THEN beat' = FALSE /\ UNCHANGED <<screen, scanComplete, stepVars>>
     ELSE Enter("solve")
  /\ UNCHANGED <<previous, solveVars, heldVars, handVars, fresh>>

\* Mutant of SolveLands: only the end of the beat looks whether to move on.
SolveLandsQuietly ==
  /\ ApplySolveResult
  /\ OnSolutionChanged
  /\ CountFresh
  /\ Repaint
  /\ UNCHANGED <<screenVars, handVars>>

\* The worker's result: HeldCube hears of the new solution, the solve screen's
\* cube is painted anew, and a scan screen whose beat is over makes way.
SolveLands ==
  /\ ApplySolveResult
  /\ OnSolutionChanged
  /\ CountFresh
  /\ IF screen = "scan" /\ scanComplete /\ ~beat
     THEN Enter("solve") /\ UNCHANGED previous
     ELSE Repaint /\ UNCHANGED screenVars
  /\ UNCHANGED handVars

-----------------------------------------------------------------------------
(* The person *)

TurnCube ==
  /\ screen = "solve"
  /\ \E m \in HandMoves : cube' = Apply(cube, m)
  /\ CurrentCube \in {cube, cube'}
  /\ UNCHANGED <<solveVars, heldVars, screenVars, stepVars, grip, fresh>>

RollCube ==
  /\ screen = "solve"
  /\ grip' \in Holds \ {grip}
  /\ UNCHANGED <<solveVars, heldVars, screenVars, stepVars, cube, fresh>>

Next ==
  \/ PressNext \/ PressPrevious \/ TurnLands
  \/ Frame
  \/ SolveLands
  \/ \E m \in Methods : ChooseMethod(m)
  \/ BeginScan \/ CancelScan \/ Rescan \/ Finish \/ OpenSettings \/ CloseSettings
  \/ ScanCompletes \/ BeatEnds
  \/ TurnCube \/ RollCube

\* A worker that runs to its end and a timer that fires: nothing is assumed of
\* the person or of the camera.
Fairness == WF_vars(SolveLands) /\ WF_vars(BeatEnds)

Spec == Init /\ [][Next]_vars
FairSpec == Spec /\ Fairness

-----------------------------------------------------------------------------
\* The type of every variable of the session.
TypeOK ==
  /\ SolveTypeOK
  /\ HeldTypeOK
  /\ screen \in Screens
  /\ previous \in Screens \ {"settings"}
  /\ scanComplete \in BOOLEAN
  /\ beat \in BOOLEAN
  /\ pendingStep \in {-1, 0, 1}
  /\ playing \in BOOLEAN
  /\ cube \in Cubes
  /\ grip \in Holds
  /\ fresh \in 0..Trust

\* A turn is only shown for the solution on screen: while one plays, nothing is
\* being solved and the step it will take stays inside the solution, so it can
\* never land on a solution that replaced the one it was shown for.
ShownTurnBelongs ==
  playing =>
    /\ screen = "solve" /\ ~isSolving
    /\ pendingStep \in {-1, 1}
    /\ pendingStep = 1 => ~AtEnd(stepped)
    /\ pendingStep = -1 => ~AtStart(stepped)

\* "complete" is only shown for a cube the solution has brought to solved, even
\* when the method is changed from a settings screen opened over it.
CompleteMeansSolved ==
  screen = "complete" => CurrentCube = Solved

\* A method change never moves the cube on screen: when a continuation lands,
\* the cube it starts from is the cube that was there.
ContinuationKeepsCube ==
  [][continuation' /\ stepped' # stepped /\ job' # job => CurrentCube' = CurrentCube]_vars

\* With nothing turned and the cube held as shown, the camera never says the
\* move has been made.  The only thing it can take for the move is a cube that
\* was rolled, after it was seen held as shown for this very move.
NoPhantomMove ==
  [][announced' /\ ~announced /\ cube = CurrentCube => grip # hold /\ matched]_vars

\* The evidence a move is announced on is all about that move: as many steady
\* frames as it takes, every one of them since this cube was expected.
EvidenceIsFresh ==
  [][announced' /\ ~announced => fresh' >= Trust]_vars

\* A cube that is as it should be, before the move or after it, is never called
\* a mistake ("being told a correct move was wrong is worse than having to press
\* Next").
NoFalseAccusation ==
  [][(sight' # sight /\ sight'.kind \in {"wrong", "unknown"})
       => cube # CurrentCube /\ (CurrentMove # None => cube # NextCube)]_vars

\* A scan that completed gives way to its solution, whichever comes later, the
\* end of the beat or the end of the solve: the scan screen is never left
\* waiting for an event that has already been.
CompleteScanMovesOn == scanComplete ~> ~scanComplete

\* SolveController.hpp on method: "Changing it re-solves from the cube as it
\* stands, so nothing already turned is lost".  A move that has been made on the
\* cube, seen by the camera and is being shown is already turned.
NothingTurnedIsLost ==
  [][isSolving' /\ ~isSolving /\ solvingCont' /\ announced /\ playing /\ cube = NextCube
       => pending' = cube]_vars

\* HeldCube.hpp on moveSeen: "The move the solution expects next has been made
\* on the real cube. Emitted once per move; whoever listens steps the solution
\* on."  On the solve screen, while a move that was announced is still the one
\* expected, a step is being shown.
SeenMoveStepsOn ==
  (screen = "solve" /\ announced /\ ~isSolving) => playing

=============================================================================
