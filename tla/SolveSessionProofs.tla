-------------------------- MODULE SolveSessionProofs --------------------------
(***************************************************************************)
(* What a session keeps, for any cube, any solver, any camera and any way  *)
(* of holding the cube.  A session drives the controller only through its  *)
(* operations (SessionIsSolve), so what SolveControllerProofs shows of the *)
(* controller holds here.  What the screens add is inductive as SessionInv.*)
(*                                                                         *)
(* What the camera says rests on what a read shows: one that shows a hold  *)
(* of a cube fits it (TrueReadIs), one with a sticker misread is one off   *)
(* (GlaredReadIs), and what each verdict says of the read it was given on  *)
(* is JudgeIs.  FreshInv ties the streak of a verdict to the frames seen   *)
(* since the cube expected last changed.                                   *)
(***************************************************************************)
EXTENDS SolveSession, SolveControllerProofs, FiniteSetTheorems

\* While a method change is being solved the cube on screen stays the one it
\* was asked for; nothing is resumed, and no cube here is unsolvable.
SolvingKeepsCube ==
  /\ resumeTurn = 0
  /\ pending \notin Unsolvable
  /\ stepped.from \notin Unsolvable
  /\ isSolving /\ solvingCont => pending = CurrentCube

\* The cube stays solved under "complete", and under settings opened from it.
SolvedBehindSettings ==
  (screen = "complete" \/ (screen = "settings" /\ previous = "complete")) =>
    /\ CurrentCube = Solved
    /\ isSolving => solvingCont

SessionInv ==
  SolveInv /\ ShownTurnBelongs /\ SolvingKeepsCube /\ SolvedBehindSettings

\* The actions of a session that leave the controller alone.
OffSolve ==
  \/ BeginScan \/ CancelScan \/ Rescan \/ Finish \/ OpenSettings \/ CloseSettings
  \/ BeatEnds \/ TurnCube \/ RollCube \/ Frame

LEMMA OffSolveUnchanged == OffSolve => UNCHANGED solveVars
BY DEF OffSolve, BeginScan, CancelScan, Rescan, Finish, OpenSettings, CloseSettings,
       GoTo, BeatEnds, TurnCube, RollCube, Frame

\* A turn that lands is one turn along the solution in place, or none.
LEMMA TakeStepIsSolve ==
  ASSUME playing, ShownTurnBelongs, TakeStep
  PROVE  NextMove \/ PreviousMove
BY DEF ShownTurnBelongs, TakeStep

\* Every step of a session is a step of the controller, or leaves it alone.
LEMMA SessionStepIsSolveStep ==
  ASSUME ShownTurnBelongs, [Next]_vars
  PROVE  [SolveNext]_solveVars
<1>1. CASE PressNext \/ PressPrevious
  <2>1. CASE playing
    BY <1>1, <2>1, TakeStepIsSolve DEF PressNext, PressPrevious, FinishPlaying, SolveNext
  <2>2. CASE ~playing
    BY <1>1, <2>2 DEF PressNext, PressPrevious, FinishPlaying
  <2> QED
    BY <2>1, <2>2
<1>2. CASE TurnLands
  BY <1>2, TakeStepIsSolve DEF TurnLands, SolveNext
<1>3. CASE SolveLands
  BY <1>3 DEF SolveLands, SolveNext
<1>4. CASE \E m \in Methods : ChooseMethod(m)
  BY <1>4 DEF ChooseMethod, SolveNext
<1>5. CASE ScanCompletes
  BY <1>5, ScanAssumption DEF ScanCompletes, SolveNext
<1>6. CASE OffSolve
  BY <1>6, OffSolveUnchanged
<1>7. CASE UNCHANGED vars
  BY <1>7 DEF vars
<1> QED
  BY <1>1, <1>2, <1>3, <1>4, <1>5, <1>6, <1>7 DEF Next, OffSolve

-----------------------------------------------------------------------------
\* The initial state.
LEMMA SessionInitInv == Init => SessionInv
<1> SUFFICES ASSUME Init PROVE SessionInv
  OBVIOUS
<1>1. SolveInv
  BY InitInv DEF Init
<1>2. CurrentCube = Solved
  BY SolverAssumption DEF Init, SolveInit, CurrentCube, CubeOf, SteppedFrom
<1>3. pending \notin Unsolvable /\ resumeTurn = 0 /\ ~isSolving
  BY SolverAssumption DEF Init, SolveInit
<1>4. stepped.from \notin Unsolvable
  BY SolverAssumption DEF Init, SolveInit, SteppedFrom
<1> QED
  BY <1>1, <1>2, <1>3, <1>4 DEF Init, SessionInv, ShownTurnBelongs, SolvingKeepsCube, SolvedBehindSettings

\* What the invariant says of the turn reached.
LEMMA SessionTypes ==
  ASSUME SolveInv
  PROVE  /\ stepped \in Stepped
         /\ TotalMoves(stepped) \in Nat
         /\ stepped.turn \in 0..TotalMoves(stepped)
         /\ CurrentCube \in Cubes
BY TurnInside, CubeOfType DEF SolveInv, SolveTypeOK, CurrentCube

\* At its end a solution has reached the solved cube.
LEMMA EndIsSolved ==
  ASSUME SolveInv, AtEnd(stepped)
  PROVE  CurrentCube = Solved
<1>1. stepped.method \in Methods /\ stepped.from \in Cubes
  BY SessionTypes DEF Stepped
<1> QED
  BY <1>1, SolverAssumption DEF AtEnd, TotalMoves, CurrentCube, CubeOf

\* Turns along a solution keep the cube solvable.
LEMMA CurrentIsSolvable ==
  ASSUME SessionInv
  PROVE  CurrentCube \notin Unsolvable
<1>1. stepped.turn \in 0..Turns(stepped.method, stepped.from)
  BY SessionTypes DEF SessionInv, TotalMoves
<1>2. stepped.from \in Cubes /\ stepped.method \in Methods
  BY SessionTypes DEF SessionInv, Stepped
<1>3. stepped.from \notin Unsolvable
  BY DEF SessionInv, SolvingKeepsCube
<1> QED
  BY <1>1, <1>2, <1>3, SolverAssumption DEF CurrentCube, CubeOf

\* A solution that lands starts at the cube it was asked for.
LEMMA LandedCube ==
  ASSUME SessionInv, ApplySolveResult
  PROVE  CurrentCube' = pending /\ pending' = pending /\ stepped'.from = pending
<1>1. job = [method |-> method, cube |-> pending] /\ method \in Methods /\ pending \in Cubes
  BY DEF SessionInv, SolveInv, WatchedJobIsLatest, SolveTypeOK, ApplySolveResult
<1>2. pending \notin Unsolvable /\ resumeTurn = 0
  BY DEF SessionInv, SolvingKeepsCube
<1>3. stepped' = SteppedOn(SteppedFrom(method, pending), 0)
  BY <1>1, <1>2 DEF ApplySolveResult, SolveStepped
<1>4. TotalMoves(SteppedFrom(method, pending)) \in Nat
  BY <1>1, SteppedFromType, TurnInside
<1>5. stepped' = SteppedFrom(method, pending)
  BY <1>3, <1>4 DEF SteppedOn, SteppedFrom
<1> QED
  BY <1>1, <1>5, SolverAssumption DEF CurrentCube, CubeOf, SteppedFrom, ApplySolveResult

\* Off the solve, a turn that was being shown goes on being shown or is dropped,
\* and one that starts has a turn to show.
LEMMA ScreensInv ==
  ASSUME SessionInv, OffSolve \/ UNCHANGED vars
  PROVE  SessionInv'
<1>1. UNCHANGED solveVars
  BY OffSolveUnchanged DEF vars
<1>2. CurrentCube' = CurrentCube /\ AtEnd(stepped)' = AtEnd(stepped) /\ AtStart(stepped)' = AtStart(stepped)
  BY <1>1 DEF solveVars, CurrentCube, CubeOf, AtEnd, AtStart, TotalMoves
<1>3. SolveInv'
  BY <1>1, StepInv DEF SessionInv
<1>4. SolvingKeepsCube'
  BY <1>1, <1>2 DEF SessionInv, SolvingKeepsCube, solveVars
<1>5. ShownTurnBelongs'
  <2>1. CASE UNCHANGED <<screen, stepVars>>
    BY <1>1, <1>2, <2>1 DEF SessionInv, ShownTurnBelongs, solveVars, stepVars
  <2>2. CASE Frame
    <3>1. screen = "solve" /\ screen' = screen /\ isSolving' = isSolving /\ stepped' = stepped
      BY <1>1, <2>2 DEF Frame, screenVars, solveVars
    <3>2. CASE UNCHANGED stepVars
      BY <1>2, <3>1, <3>2 DEF SessionInv, ShownTurnBelongs, stepVars
    <3>3. CASE ~isSolving /\ ~AtEnd(stepped) /\ Show(1)
      BY <1>2, <3>1, <3>3 DEF ShownTurnBelongs, Show
    <3> QED
      BY <2>2, <3>2, <3>3 DEF Frame, OnMoveSeen
  <2>3. CASE OffSolve /\ ~Frame
    BY <1>1, <1>2, <2>3 DEF OffSolve, BeginScan, CancelScan, Rescan, Finish, OpenSettings,
       CloseSettings, GoTo, Enter, BeatEnds, TurnCube, RollCube, SessionInv, ShownTurnBelongs,
       solveVars, stepVars, screenVars
  <2> QED
    BY <2>1, <2>2, <2>3 DEF vars, stepVars, screenVars
<1>6. SolvedBehindSettings'
  <2>1. CASE UNCHANGED <<screen, previous>>
    BY <1>1, <1>2, <2>1 DEF SessionInv, SolvedBehindSettings, solveVars
  <2>2. CASE Finish
    BY <1>1, <1>2, <2>2, EndIsSolved DEF Finish, SessionInv, SolvedBehindSettings, solveVars
  <2>3. CASE OpenSettings \/ CloseSettings
    <3>1. /\ screen = "settings" => screen' = previous /\ previous' = previous
          /\ screen # "settings" => screen' = "settings" /\ previous' = screen
      <4>1. CASE OpenSettings
        BY <4>1 DEF OpenSettings, GoTo, Enter
      <4>2. CASE CloseSettings
        BY <4>2 DEF CloseSettings, GoTo, Enter
      <4> QED
        BY <2>3, <4>1, <4>2
    <3>2. UNCHANGED <<isSolving, solvingCont>>
      BY <1>1 DEF solveVars
    <3> QED
      BY <1>2, <3>1, <3>2 DEF SessionInv, SolvedBehindSettings
  <2>4. CASE BeginScan \/ CancelScan \/ Rescan \/ BeatEnds
    BY <1>1, <1>2, <2>4 DEF BeginScan, CancelScan, Rescan, BeatEnds, GoTo, Enter, SessionInv,
       SolvedBehindSettings, solveVars
  <2>5. CASE TurnCube \/ RollCube \/ Frame \/ UNCHANGED vars
    BY <2>1, <2>5 DEF TurnCube, RollCube, Frame, vars, screenVars
  <2> QED
    BY <2>2, <2>3, <2>4, <2>5 DEF OffSolve
<1> QED
  BY <1>3, <1>4, <1>5, <1>6 DEF SessionInv

\* A turn that lands moves the solution in place by one; the cube is not solved
\* behind it, for only the solve screen shows turns.
LEMMA TakeStepInv ==
  ASSUME SessionInv, playing, TakeStep, UNCHANGED screenVars,
         playing' => /\ pendingStep' \in {-1, 1}
                     /\ pendingStep' = 1 => ~AtEnd(stepped')
                     /\ pendingStep' = -1 => ~AtStart(stepped')
  PROVE  SessionInv'
<1>1. screen = "solve" /\ ~isSolving
  BY DEF SessionInv, ShownTurnBelongs
<1>2. NextMove \/ PreviousMove
  BY TakeStepIsSolve DEF SessionInv
<1>3. SolveInv'
  BY <1>2, StepInv DEF SolveNext, SessionInv
<1>4. UNCHANGED <<isSolving, pending, resumeTurn>> /\ stepped'.from = stepped.from
  BY <1>2, SessionTypes DEF SessionInv, NextMove, PreviousMove, StepTo, Stepped
<1>5. ShownTurnBelongs'
  BY <1>1, <1>4 DEF ShownTurnBelongs, screenVars
<1>6. SolvingKeepsCube'
  BY <1>1, <1>4 DEF SessionInv, SolvingKeepsCube
<1>7. SolvedBehindSettings'
  BY <1>1 DEF SolvedBehindSettings, screenVars
<1> QED
  BY <1>3, <1>5, <1>6, <1>7 DEF SessionInv

LEMMA PressInv ==
  ASSUME SessionInv, PressNext \/ PressPrevious
  PROVE  SessionInv'
<1>1. screen = "solve" /\ ~isSolving /\ UNCHANGED screenVars /\ FinishPlaying
  BY DEF PressNext, PressPrevious
<1>2. playing' => /\ pendingStep' \in {-1, 1}
                  /\ pendingStep' = 1 => ~AtEnd(stepped')
                  /\ pendingStep' = -1 => ~AtStart(stepped')
  BY DEF PressNext, PressPrevious, NothingToShow, Show
<1>3. CASE playing
  BY <1>1, <1>2, <1>3, TakeStepInv DEF FinishPlaying
<1>4. CASE ~playing
  <2>1. UNCHANGED solveVars
    BY <1>1, <1>4 DEF FinishPlaying
  <2>2. SolveInv'
    BY <2>1, StepInv DEF SessionInv
  <2>3. UNCHANGED <<isSolving, screen, stepped>>
    BY <1>1, <2>1 DEF solveVars, screenVars
  <2>4. ShownTurnBelongs'
    BY <1>1, <1>2, <2>3 DEF ShownTurnBelongs
  <2>5. SolvingKeepsCube' /\ SolvedBehindSettings'
    BY <1>1, <2>1, <2>3 DEF SessionInv, SolvingKeepsCube, SolvedBehindSettings, solveVars
  <2> QED
    BY <2>2, <2>4, <2>5 DEF SessionInv
<1> QED
  BY <1>3, <1>4

LEMMA TurnLandsInv ==
  ASSUME SessionInv, TurnLands
  PROVE  SessionInv'
BY TakeStepInv DEF TurnLands

\* A solution that lands leaves the cube on screen where it is, if it was asked
\* for by a method change.
LEMMA SolveLandsInv ==
  ASSUME SessionInv, SolveLands
  PROVE  SessionInv'
<1>1. ApplySolveResult
  BY DEF SolveLands
<1>2. SolveInv'
  BY <1>1, StepInv DEF SolveNext, SessionInv
<1>3. CurrentCube' = pending /\ pending' = pending /\ stepped'.from = pending /\ ~isSolving' /\ resumeTurn' = 0
  BY <1>1, LandedCube DEF ApplySolveResult
<1>4. playing' = FALSE
  BY DEF SolveLands, Enter, Repaint
<1>5. SolvingKeepsCube'
  BY <1>3 DEF SessionInv, SolvingKeepsCube
<1>6. SolvedBehindSettings'
  <2>1. isSolving
    BY <1>1 DEF SessionInv, SolveInv, WatchedJobIsLatest, ApplySolveResult
  <2>2. screen' = "solve" \/ (screen' = screen /\ previous' = previous)
    BY DEF SolveLands, Enter, screenVars
  <2> QED
    BY <1>3, <2>1, <2>2 DEF SessionInv, SolvingKeepsCube, SolvedBehindSettings
<1> QED
  BY <1>2, <1>4, <1>5, <1>6 DEF SessionInv, ShownTurnBelongs

\* A method change solves the cube on screen, and stops the turn being shown.
LEMMA ChooseMethodInv ==
  ASSUME SessionInv, NEW m \in Methods, ChooseMethod(m)
  PROVE  SessionInv'
<1>1. SetMethod(m) /\ UNCHANGED screenVars /\ UNCHANGED stepped
  BY DEF ChooseMethod, SetMethod, Resolve, BeginSolve, RecordMethod
<1>2. SolveInv'
  BY <1>1, StepInv DEF SolveNext, SessionInv
<1>3. CurrentCube' = CurrentCube
  BY <1>1 DEF CurrentCube, CubeOf
<1>4. CASE Resolve(m)
  <2>1. /\ pending' = IF isSolving THEN pending ELSE CurrentCube
        /\ solvingCont' = IF isSolving THEN solvingCont ELSE TRUE
        /\ isSolving' /\ resumeTurn' = 0
    BY <1>4 DEF Resolve, BeginSolve
  <2>2. ~playing'
    BY <1>4 DEF Resolve, ChooseMethod, Repaint
  <2>3. CurrentCube \notin Unsolvable
    BY CurrentIsSolvable DEF SessionInv
  <2>4. SolvingKeepsCube'
    BY <1>1, <1>3, <2>1, <2>3 DEF SessionInv, SolvingKeepsCube
  <2>5. SolvedBehindSettings'
    BY <1>1, <1>3, <2>1 DEF SessionInv, SolvedBehindSettings, screenVars
  <2> QED
    BY <1>2, <2>2, <2>4, <2>5 DEF SessionInv, ShownTurnBelongs
<1>5. CASE RecordMethod
  <2>1. UNCHANGED <<isSolving, pending, resumeTurn, solvingCont, stepVars>> /\ pending = None
    BY <1>5 DEF RecordMethod, ChooseMethod
  <2>2. ShownTurnBelongs' /\ SolvedBehindSettings' /\ SolvingKeepsCube'
    BY <1>1, <1>3, <2>1 DEF SessionInv, ShownTurnBelongs, SolvedBehindSettings, SolvingKeepsCube,
       screenVars, stepVars
  <2> QED
    BY <1>2, <2>2 DEF SessionInv
<1> QED
  BY <1>1, <1>4, <1>5 DEF SetMethod

LEMMA ScanCompletesInv ==
  ASSUME SessionInv, ScanCompletes
  PROVE  SessionInv'
<1>1. cube' \in Cubes /\ cube' \notin Unsolvable /\ SolveCube(cube')
  BY ScanAssumption DEF ScanCompletes
<1>2. SolveInv'
  BY <1>1, StepInv DEF SolveNext, SessionInv
<1>3. screen = "scan" /\ screen' = "scan" /\ playing' = playing
  BY DEF ScanCompletes, stepVars
<1>4. SolvingKeepsCube'
  BY <1>1 DEF SolveCube, BeginSolve, SessionInv, SolvingKeepsCube
<1> QED
  BY <1>2, <1>3, <1>4 DEF SessionInv, ShownTurnBelongs, SolvedBehindSettings

LEMMA SessionStepInv == SessionInv /\ [Next]_vars => SessionInv'
<1> SUFFICES ASSUME SessionInv, [Next]_vars PROVE SessionInv'
  OBVIOUS
<1>1. CASE OffSolve \/ UNCHANGED vars
  BY <1>1, ScreensInv
<1>2. CASE PressNext \/ PressPrevious
  BY <1>2, PressInv
<1>3. CASE TurnLands
  BY <1>3, TurnLandsInv
<1>4. CASE SolveLands
  BY <1>4, SolveLandsInv
<1>5. CASE \E m \in Methods : ChooseMethod(m)
  BY <1>5, ChooseMethodInv
<1>6. CASE ScanCompletes
  BY <1>6, ScanCompletesInv
<1> QED
  BY <1>1, <1>2, <1>3, <1>4, <1>5, <1>6 DEF Next, OffSolve

-----------------------------------------------------------------------------
\* A session keeps its invariant.
THEOREM SessionInvariant == Spec => []SessionInv
BY SessionInitInv, SessionStepInv, PTL DEF Spec

\* The session drives the controller only through its operations.
THEOREM SessionIsSolve == Spec => SolveSpec
<1>1. Init => SolveInit
  BY DEF Init
<1>2. SessionInv /\ [Next]_vars => [SolveNext]_solveVars
  BY SessionStepIsSolveStep DEF SessionInv
<1> QED
  BY <1>1, <1>2, SessionInvariant, PTL DEF Spec, SolveSpec

\* A turn is only ever shown for the solution in place.
THEOREM ShownTurnAlwaysBelongs == Spec => []ShownTurnBelongs
<1>1. SessionInv => ShownTurnBelongs
  BY DEF SessionInv
<1> QED
  BY <1>1, SessionInvariant, PTL

\* The complete screen is only ever over a solved cube.
THEOREM CompleteAlwaysSolved == Spec => []CompleteMeansSolved
<1>1. SessionInv => CompleteMeansSolved
  BY DEF SessionInv, SolvedBehindSettings, CompleteMeansSolved
<1> QED
  BY <1>1, SessionInvariant, PTL

\* A method change, or any number of them before one lands, leaves the cube on
\* screen as it was.
THEOREM ContinuationAlwaysKeepsCube == Spec => ContinuationKeepsCube
<1>1. ASSUME SessionInv, [Next]_vars, continuation' /\ stepped' # stepped /\ job' # job
      PROVE  CurrentCube' = CurrentCube
  <2>1. SolveLands
    <3>1. ~(UNCHANGED solveVars)
      BY <1>1 DEF solveVars
    <3>2. ~(NextMove \/ PreviousMove)
      BY <1>1 DEF NextMove, PreviousMove, StepTo
    <3>3. ~(\E c \in Cubes : SolveCube(c)) /\ ~(\E m \in Methods : SetMethod(m))
      BY <1>1 DEF SolveCube, SetMethod, Resolve, BeginSolve, RecordMethod
    <3>4. ~(OffSolve \/ UNCHANGED vars)
      BY <3>1, OffSolveUnchanged DEF vars
    <3>5. ~(PressNext \/ PressPrevious \/ TurnLands)
      BY <1>1, <3>1, <3>2, TakeStepIsSolve DEF PressNext, PressPrevious, TurnLands, FinishPlaying,
         SessionInv
    <3>6. ~ScanCompletes /\ ~(\E m \in Methods : ChooseMethod(m))
      BY <3>3, ScanAssumption DEF ScanCompletes, ChooseMethod
    <3> QED
      BY <1>1, <3>4, <3>5, <3>6 DEF Next, OffSolve
  <2>2. ApplySolveResult
    BY <2>1 DEF SolveLands
  <2>3. isSolving /\ solvingCont
    BY <1>1, <2>2 DEF ApplySolveResult, SessionInv, SolveInv, WatchedJobIsLatest
  <2> QED
    BY <1>1, <2>2, <2>3, LandedCube DEF SessionInv, SolvingKeepsCube
<1>2. SessionInv /\ [Next]_vars =>
        [continuation' /\ stepped' # stepped /\ job' # job => CurrentCube' = CurrentCube]_vars
  BY <1>1
<1> QED
  BY <1>2, SessionInvariant, PTL DEF Spec, ContinuationKeepsCube

-----------------------------------------------------------------------------
(* What a read shows *)

\* The least of some natural numbers is one of them.
LEMMA LeastExists ==
  ASSUME NEW S, S \subseteq Nat, S # {}
  PROVE  \E n \in S : \A m \in S : ~(m < n)
<1>1. \E n \in S : \A m \in S : ~(<<m, n>> \in OpToRel(<, Nat))
  BY NatLessThanWellFounded, WFMin
<1>2. \A m, n \in Nat : <<m, n>> \in OpToRel(<, Nat) <=> m < n
  BY Zenon DEF OpToRel
<1> QED
  BY <1>1, <1>2, Zenon

LEMMA LeastIs ==
  ASSUME NEW S, S \subseteq Nat, S # {}
  PROVE  Min(S) \in S /\ \A n \in S : Min(S) <= n
<1>1. PICK n \in S : \A m \in S : ~(m < n)
  BY LeastExists
<1>2. \A m \in S : n <= m
  BY <1>1
<1> QED
  BY <1>2 DEF Min

\* Two holds of a cube that show a read the same stickers.
Alike(read, c, g, h) == \A i \in read.found : View(c, g)[i] = View(c, h)[i]

\* A read that shows cube c held as h, whole or but for one sticker, which has
\* come out a colour no sticker has.
Shows(read, c, h) == \A i \in read.found : read.lab[i] = View(c, h)[i]
ShowsBut(read, i, c, h) ==
  /\ i \in read.found /\ read.lab[i] \in Glare
  /\ \A j \in read.found \ {i} : read.lab[j] = View(c, h)[j]

\* Sticker i is all that tells hold h of cube c from another one.
InDoubt(c, h, found, i) ==
  \E g \in Holds :
    /\ View(c, g)[i] # View(c, h)[i]
    /\ \A j \in found \ {i} : View(c, g)[j] = View(c, h)[j]

\* What the camera reads is the cube in the hand, but for one sticker at most.
LEMMA ReadsShow ==
  ASSUME cube \in Cubes, grip \in Holds, NEW read \in Reads
  PROVE  /\ read.found \in FoundCells /\ read.found \subseteq Cells /\ IsFiniteSet(read.found)
         /\ Shows(read, cube, grip) \/ \E i \in read.found : ShowsBut(read, i, cube, grip)
         /\ Glare = {} => Shows(read, cube, grip)
<1>1. PICK found \in FoundCells :
        \/ read = [lab |-> View(cube, grip), found |-> found]
        \/ \E i \in found, g \in Glare : read = Misread(found, i, g)
  BY DEF Reads
<1>2. read.found = found
  BY <1>1 DEF Misread
<1>3. found \subseteq Cells /\ IsFiniteSet(found)
  BY ViewAssumption, FS_Subset
<1>4. CASE read = [lab |-> View(cube, grip), found |-> found]
  BY <1>2, <1>3, <1>4 DEF Shows
<1>5. ASSUME NEW i \in found, NEW g \in Glare, read = Misread(found, i, g)
      PROVE  ShowsBut(read, i, cube, grip)
  <2>1. read.lab = [View(cube, grip) EXCEPT ![i] = g] /\ found \subseteq DOMAIN View(cube, grip)
    BY <1>3, <1>5, ViewAssumption DEF Misread
  <2>2. \A j \in found : read.lab[j] = IF j = i THEN g ELSE View(cube, grip)[j]
    BY <2>1
  <2> QED
    BY <1>2, <2>2 DEF ShowsBut
<1> QED
  BY <1>1, <1>2, <1>3, <1>4, <1>5

\* No sticker is off exactly when the read shows the hold.
LEMMA OffIs ==
  ASSUME NEW read, IsFiniteSet(read.found), NEW c, NEW h
  PROVE  Off(read, c, h) \in Nat /\ (Off(read, c, h) = 0 <=> Shows(read, c, h))
<1> DEFINE wrong == {i \in read.found : View(c, h)[i] # read.lab[i]}
<1>1. IsFiniteSet(wrong)
  BY FS_Subset
<1>2. Off(read, c, h) = Cardinality(wrong)
  BY DEF Off
<1>3. Cardinality(wrong) \in Nat /\ (Cardinality(wrong) = 0 <=> wrong = {})
  BY <1>1, FS_CardinalityType, FS_EmptySet
<1> QED
  BY <1>2, <1>3 DEF Shows

\* A sticker with a colour no sticker has is off for every hold of every cube,
\* and the only one exactly when the rest of the read shows the hold.
LEMMA OffInGlare ==
  ASSUME NEW read, read.found \subseteq Cells, IsFiniteSet(read.found),
         NEW i \in read.found, read.lab[i] \in Glare,
         NEW c \in Cubes, NEW h \in Holds
  PROVE  Off(read, c, h) >= 1 /\ (Off(read, c, h) = 1 <=> ShowsBut(read, i, c, h))
<1> DEFINE wrong == {j \in read.found : View(c, h)[j] # read.lab[j]}
<1>1. i \in wrong
  BY ViewAssumption
<1>2. IsFiniteSet(wrong)
  BY FS_Subset
<1>3. Off(read, c, h) = Cardinality(wrong)
  BY DEF Off
<1>4. Cardinality(wrong) \in Nat /\ Cardinality(wrong) # 0
  BY <1>1, <1>2, FS_CardinalityType, FS_EmptySet
<1>5. Cardinality(wrong) = 1 <=> \E j : wrong = {j}
  BY <1>2, FS_Singleton
<1>6. (\E j : wrong = {j}) <=> wrong = {i}
  BY <1>1
<1>7. wrong = {i} <=> ShowsBut(read, i, c, h)
  <2>1. wrong = {i} <=> \A j \in read.found \ {i} : read.lab[j] = View(c, h)[j]
    BY <1>1
  <2> QED
    BY <2>1 DEF ShowsBut
<1> HIDE DEF wrong
<1>8. Cardinality(wrong) >= 1
  BY <1>4
<1>9. Cardinality(wrong) = 1 <=> ShowsBut(read, i, c, h)
  BY <1>5, <1>6, <1>7, Zenon
<1> QED
  BY <1>3, <1>8, <1>9

\* The distance of the best fit is that of a hold and no hold's is less.  The
\* holds that fit best are the answer, all of them, if they fit well enough and
\* look the same.
LEMMA ReadHoldIs ==
  ASSUME NEW read, IsFiniteSet(read.found), NEW c
  PROVE  /\ ReadHold(read, c).distance \in Nat
         /\ \A h \in Holds : ReadHold(read, c).distance <= Off(read, c, h)
         /\ \E h \in Holds : ReadHold(read, c).distance = Off(read, c, h)
         /\ ReadHold(read, c).holds # {} <=>
              /\ ReadHold(read, c).distance <= FitOff
              /\ \A g, h \in Holds :
                   Off(read, c, g) = ReadHold(read, c).distance /\
                   Off(read, c, h) = ReadHold(read, c).distance => Alike(read, c, g, h)
         /\ ReadHold(read, c).holds # {} =>
              ReadHold(read, c).holds = {h \in Holds : Off(read, c, h) = ReadHold(read, c).distance}
<1> DEFINE off == [h \in Holds |-> Off(read, c, h)]
           distance == Min({off[h] : h \in Holds})
           best == {h \in Holds : off[h] = distance}
           AllAlike == \A g, h \in best : Alike(read, c, g, h)
           clear == distance <= FitOff /\ (Cardinality(best) = 1 \/ AllAlike)
<1>1. ReadHold(read, c) = [distance |-> distance, holds |-> IF clear THEN best ELSE {}]
  BY DEF ReadHold, Alike
<1>2. \A h \in Holds : off[h] \in Nat /\ off[h] = Off(read, c, h)
  BY OffIs
<1>3. {off[h] : h \in Holds} \subseteq Nat /\ {off[h] : h \in Holds} # {}
  BY <1>2, HoldAssumption
<1>4. distance \in {off[h] : h \in Holds} /\ \A n \in {off[h] : h \in Holds} : distance <= n
  BY <1>3, LeastIs
<1>5. best # {}
  BY <1>4
<1>6. Cardinality(best) = 1 => AllAlike
  <2>1. IsFiniteSet(best)
    BY ViewAssumption, FS_Subset
  <2>2. Cardinality(best) = 1 => \E h : best = {h}
    BY <2>1, FS_Singleton
  <2> QED
    BY <2>2 DEF Alike
<1>7. clear <=> distance <= FitOff /\ AllAlike
  BY <1>6
<1>8. distance \in Nat /\ (\A h \in Holds : distance <= Off(read, c, h))
      /\ (\E h \in Holds : distance = Off(read, c, h))
  BY <1>2, <1>3, <1>4
<1>9. best = {h \in Holds : Off(read, c, h) = distance}
  BY <1>2
<1> HIDE DEF distance, best, clear, off
<1>10. AllAlike <=> \A g, h \in Holds : Off(read, c, g) = distance /\ Off(read, c, h) = distance
                                         => Alike(read, c, g, h)
  BY <1>9
<1>11. ReadHold(read, c).distance = distance /\ ReadHold(read, c).holds = IF clear THEN best ELSE {}
  BY <1>1
<1> QED
  BY <1>5, <1>7, <1>8, <1>9, <1>10, <1>11

\* A read that shows the hold is taken for it, and for what looks the same.
LEMMA TrueReadIs ==
  ASSUME NEW read, IsFiniteSet(read.found), NEW c, NEW h \in Holds, Shows(read, c, h)
  PROVE  ReadHold(read, c).distance = 0 /\ h \in ReadHold(read, c).holds
<1>1. Off(read, c, h) = 0
  BY OffIs
<1>2. ReadHold(read, c).distance = 0
  BY <1>1, ReadHoldIs
<1>3. \A g \in Holds : Off(read, c, g) = 0 => Shows(read, c, g)
  BY OffIs
<1>4. \A f, g \in Holds : Off(read, c, f) = 0 /\ Off(read, c, g) = 0 => Alike(read, c, f, g)
  BY <1>3 DEF Shows, Alike
<1>5. ReadHold(read, c).holds # {}
  BY <1>2, <1>4, ReadHoldIs, HoldAssumption
<1> QED
  BY <1>1, <1>2, <1>5, ReadHoldIs

\* A read in which one sticker has come out wrong is a sticker off at best: off
\* by no more if the rest shows the hold, and taken for it unless another hold
\* differs in that sticker alone.
LEMMA GlaredReadIs ==
  ASSUME NEW read, read.found \subseteq Cells, IsFiniteSet(read.found),
         NEW c \in Cubes, NEW i \in read.found, NEW h \in Holds, read.lab[i] \in Glare
  PROVE  /\ ReadHold(read, c).distance >= 1
         /\ ShowsBut(read, i, c, h) => ReadHold(read, c).distance = 1
         /\ ShowsBut(read, i, c, h) /\ FitOff >= 1 /\ ~InDoubt(c, h, read.found, i) =>
              h \in ReadHold(read, c).holds
         /\ h \in ReadHold(read, c).holds => FitOff >= 1 /\ ~InDoubt(c, h, read.found, i)
<1> DEFINE r == ReadHold(read, c)
<1>1. \A g \in Holds : Off(read, c, g) \in Nat /\ Off(read, c, g) >= 1
                       /\ (Off(read, c, g) = 1 <=> ShowsBut(read, i, c, g))
  BY OffIs, OffInGlare
<1>2. r.distance \in Nat /\ r.distance >= 1 /\ (ShowsBut(read, i, c, h) => r.distance = 1)
  BY <1>1, ReadHoldIs
<1>3. ASSUME ShowsBut(read, i, c, h), FitOff >= 1, ~InDoubt(c, h, read.found, i)
      PROVE  h \in r.holds
  <2>1. \A g \in Holds : Off(read, c, g) = 1 => Alike(read, c, g, h)
    <3> SUFFICES ASSUME NEW g \in Holds, Off(read, c, g) = 1, NEW j \in read.found
                 PROVE  View(c, g)[j] = View(c, h)[j]
      BY DEF Alike
    <3>1. \A k \in read.found \ {i} : View(c, g)[k] = View(c, h)[k]
      BY <1>1, <1>3 DEF ShowsBut
    <3> QED
      BY <1>3, <3>1 DEF InDoubt
  <2>2. \A f, g \in Holds : Off(read, c, f) = 1 /\ Off(read, c, g) = 1 => Alike(read, c, f, g)
    BY <2>1 DEF Alike
  <2>3. r.distance = 1 /\ Off(read, c, h) = 1
    BY <1>1, <1>2, <1>3
  <2>4. r.holds # {}
    BY <1>3, <2>2, <2>3, ReadHoldIs
  <2> QED
    BY <2>3, <2>4, ReadHoldIs
<1>4. ASSUME h \in r.holds
      PROVE  FitOff >= 1 /\ ~InDoubt(c, h, read.found, i)
  <2>1. /\ r.distance <= FitOff /\ Off(read, c, h) = r.distance
        /\ \A g \in Holds : Off(read, c, g) = r.distance => Alike(read, c, g, h)
    BY <1>4, ReadHoldIs
  <2>2. ASSUME NEW g \in Holds, View(c, g)[i] # View(c, h)[i],
               \A j \in read.found \ {i} : View(c, g)[j] = View(c, h)[j]
        PROVE  FALSE
    <3>1. View(c, g)[i] \notin Glare /\ View(c, h)[i] \notin Glare
      BY ViewAssumption
    <3>2. {j \in read.found : View(c, g)[j] # read.lab[j]}
            = {j \in read.found : View(c, h)[j] # read.lab[j]}
      BY <2>2, <3>1
    <3>3. Off(read, c, g) = Off(read, c, h)
      BY <3>2 DEF Off
    <3> QED
      BY <2>1, <2>2, <3>3 DEF Alike
  <2>3. ~InDoubt(c, h, read.found, i)
    BY <2>2 DEF InDoubt
  <2> QED
    BY <1>2, <2>1, <2>3, HoldAssumption
<1> QED
  BY <1>2, <1>3, <1>4

-----------------------------------------------------------------------------
(* The verdict on one frame *)

Verdicts == [kind : Kinds, hold : Holds \cup {None}, side : Faces \cup {None}]

\* A set with one element has an element.
LEMMA OneIsSome == \A S : Cardinality(S) = 1 => S # {}
BY FS_EmptySet

LEMMA VerdictFields ==
  \A kind, h, side : /\ Verdict(kind, h, side).kind = kind
                     /\ Verdict(kind, h, side).hold = h
                     /\ Verdict(kind, h, side).side = side
                     /\ Say(kind).kind = kind
BY DEF Verdict, Say

LEMMA SayType == \A kind \in Kinds : Say(kind) \in Verdicts
BY DEF Say, Verdict, Verdicts

LEMMA ChooseIs ==
  ASSUME NEW holds, holds \subseteq Holds, Choose(holds) # None
  PROVE  Choose(holds) \in holds
BY OneIsSome DEF Choose

\* A verdict on a hold is on one of the holds it was read from.
LEMMA SayOfHoldIs ==
  ASSUME NEW kind \in {"held", "moved"}, NEW holds, holds \subseteq Holds
  PROVE  /\ SayOfHold(kind, holds) \in Verdicts
         /\ SayOfHold(kind, holds).kind \in {kind, "unsure"}
         /\ SayOfHold(kind, holds).kind = kind => SayOfHold(kind, holds).hold \in holds
<1>1. CASE Choose(holds) = None
  BY <1>1, SayType, VerdictFields DEF SayOfHold, Kinds
<1>2. CASE Choose(holds) # None
  <2>1. Choose(holds) \in holds
    BY <1>2, ChooseIs
  <2>2. SayOfHold(kind, holds) = Verdict(kind, Choose(holds), None)
    BY <1>2 DEF SayOfHold
  <2>3. Verdict(kind, Choose(holds), None) \in Verdicts
    BY <2>1 DEF Verdict, Verdicts, Kinds
  <2> QED
    BY <2>1, <2>2, <2>3, VerdictFields
<1> QED
  BY <1>1, <1>2

LEMMA HoldsRead ==
  ASSUME NEW read, NEW c
  PROVE  ReadHold(read, c).holds \subseteq Holds
BY DEF ReadHold

\* A mistake is only called of a side seen whole that is two stickers off either
\* cube, and names a side that turns.
LEMMA JudgeMistakeIs ==
  ASSUME hold \in Holds, NEW read, NEW next
  PROVE  /\ JudgeMistake(read, next) \in Verdicts
         /\ JudgeMistake(read, next).kind \in {"nothing", "wrong", "unknown"}
         /\ JudgeMistake(read, next).kind \in {"wrong", "unknown"} =>
              /\ read.found = Cells
              /\ ~(Off(read, CurrentCube, hold) < 2)
              /\ ~(Off(read, next, hold) < 2)
<1> DEFINE instead == TurnedInstead(read)
           side == CHOOSE f \in instead : TRUE
           Silent == \/ read.found # Cells
                     \/ Off(read, CurrentCube, hold) < 2
                     \/ Off(read, next, hold) < 2
                     \/ CurrentMove # None /\ HalfWayThere(read)
<1>1. JudgeMistake(read, next) =
        IF Silent THEN NoVerdict
        ELSE IF seen /\ Cardinality(instead) = 1 THEN Verdict("wrong", hold, side)
        ELSE Say("unknown")
  BY DEF JudgeMistake
<1>2. instead \subseteq Faces
  BY DEF TurnedInstead
<1>3. Cardinality(instead) = 1 => side \in Faces
  BY <1>2, OneIsSome
<1>4. Cardinality(instead) = 1 => Verdict("wrong", hold, side) \in Verdicts
  BY <1>3 DEF Verdict, Verdicts, Kinds
<1>5. Say("nothing") \in Verdicts /\ Say("unknown") \in Verdicts
  BY SayType DEF Kinds
<1> HIDE DEF instead, side
<1> QED
  BY <1>1, <1>4, <1>5, VerdictFields DEF NoVerdict

\* What the verdict of a frame says of the read.
LEMMA JudgeIs ==
  ASSUME hold \in Holds, NEW read
  PROVE  /\ Judge(read) \in Verdicts
         /\ Judge(read).kind \in {"held", "moved"} => Judge(read).hold \in Holds
         /\ Judge(read).kind = "moved" =>
              /\ CurrentMove # None
              /\ \/ ReadHold(read, CurrentCube).distance > ReadHold(read, NextCube).distance
                 \/ /\ matched
                    /\ hold \notin ReadHold(read, CurrentCube).holds
                    /\ hold \in ReadHold(read, NextCube).holds
         /\ Judge(read).kind \in {"wrong", "unknown"} =>
              /\ read.found = Cells
              /\ ReadHold(read, CurrentCube).holds = {}
              /\ ~(Off(read, CurrentCube, hold) < 2)
              /\ CurrentMove # None =>
                   /\ ~(Off(read, NextCube, hold) < 2)
                   /\ \/ ReadHold(read, NextCube).holds = {}
                      \/ ~(ReadHold(read, CurrentCube).distance > ReadHold(read, NextCube).distance)
<1> DEFINE asked == CurrentMove # None
           next == IF asked THEN NextCube ELSE CurrentCube
           before == ReadHold(read, CurrentCube)
           after == ReadHold(read, next)
           here == before.holds
           there == IF asked THEN after.holds ELSE {}
           Made == there # {} /\ before.distance > after.distance
<1>1. Judge(read) =
        IF Made THEN SayOfHold("moved", there)
        ELSE IF hold \in here THEN Verdict("held", hold, None)
        ELSE IF hold \in there THEN IF matched THEN Verdict("moved", hold, None) ELSE Say("unsure")
        ELSE IF here # {} THEN SayOfHold("held", here)
        ELSE JudgeMistake(read, next)
  BY DEF Judge
<1>2. here \subseteq Holds /\ there \subseteq Holds
  BY HoldsRead
<1>3. /\ asked => next = NextCube /\ after = ReadHold(read, NextCube) /\ there = ReadHold(read, NextCube).holds
      /\ ~asked => there = {}
  OBVIOUS
<1>4. /\ Verdict("held", hold, None) \in Verdicts /\ Verdict("moved", hold, None) \in Verdicts
      /\ Say("unsure") \in Verdicts
  BY SayType DEF Verdict, Verdicts, Kinds
<1>5. before = ReadHold(read, CurrentCube) /\ here = before.holds
  OBVIOUS
<1> HIDE DEF next, before, after, here, there
<1>6. CASE Made
  <2>1. Judge(read) = SayOfHold("moved", there)
    BY <1>1, <1>6
  <2> QED
    BY <1>2, <1>3, <1>5, <1>6, <2>1, SayOfHoldIs
<1>7. CASE ~Made /\ (hold \in here \/ hold \in there)
  <2>1. CASE hold \in here
    BY <1>1, <1>4, <1>7, <2>1, VerdictFields
  <2>2. CASE hold \notin here /\ matched
    <3>1. Judge(read) = Verdict("moved", hold, None)
      BY <1>1, <1>7, <2>2
    <3> QED
      BY <1>3, <1>4, <1>5, <1>7, <2>2, <3>1, VerdictFields
  <2>3. CASE hold \notin here /\ ~matched
    <3>1. Judge(read) = Say("unsure")
      BY <1>1, <1>7, <2>3
    <3> QED
      BY <1>4, <3>1, VerdictFields
  <2> QED
    BY <2>1, <2>2, <2>3
<1>8. CASE ~Made /\ hold \notin here /\ hold \notin there /\ here # {}
  <2>1. Judge(read) = SayOfHold("held", here)
    BY <1>1, <1>8
  <2> QED
    BY <1>2, <2>1, SayOfHoldIs
<1>9. CASE ~Made /\ hold \notin there /\ here = {}
  <2>1. Judge(read) = JudgeMistake(read, next)
    BY <1>1, <1>9
  <2> QED
    BY <1>3, <1>5, <1>9, <2>1, JudgeMistakeIs
<1> QED
  BY <1>6, <1>7, <1>8, <1>9

\* What a steady frame does, by its verdict.
LEMMA FrameSteadyIs ==
  ASSUME NEW read, FrameSteady(read)
  PROVE  /\ Count(Judge(read))
         /\ CASE Judge(read).kind = "nothing" -> SetSightAfter(Trust, NoSight)
              [] Judge(read).kind = "held"    -> HeldFrame(Judge(read))
              [] Judge(read).kind = "moved"   -> MovedFrame(Judge(read))
              [] Judge(read).kind = "unsure"  -> SetSightAfter(Trust, Sight("unsure"))
              [] Judge(read).kind = "wrong"   ->
                   SetSightAfter(Accuse, [kind |-> "wrong", side |-> Judge(read).side])
              [] Judge(read).kind = "unknown" -> SetSightAfter(Doubt, Sight("unknown"))
BY DEF FrameSteady

-----------------------------------------------------------------------------
(* Types of a session *)

\* What HeldCube hears of a step of the session.
LEMMA HeldHears ==
  ASSUME SessionInv, [Next]_vars
  PROVE  \/ Frame
         \/ UNCHANGED heldVars /\ fresh' = fresh
         \/ /\ OnStateChanged /\ CountFresh
            /\ NextMove \/ PreviousMove
         \/ SolveLands /\ OnSolutionChanged /\ CountFresh
         \/ OnWatchingStopped /\ fresh' = fresh
<1>1. CASE PressNext \/ PressPrevious \/ TurnLands
  <2>1. CASE playing
    <3>1. TakeStep
      BY <1>1, <2>1 DEF PressNext, PressPrevious, TurnLands, FinishPlaying
    <3> QED
      BY <2>1, <3>1, TakeStepIsSolve DEF TakeStep, SessionInv
  <2>2. CASE ~playing
    BY <1>1, <2>2 DEF PressNext, PressPrevious, TurnLands, FinishPlaying
  <2> QED
    BY <2>1, <2>2
<1>2. CASE BeginScan \/ CancelScan \/ Rescan \/ Finish \/ OpenSettings \/ CloseSettings
  <2>1. \E s : GoTo(s)
    BY <1>2 DEF BeginScan, CancelScan, Rescan, Finish, OpenSettings, CloseSettings
  <2> QED
    BY <2>1 DEF GoTo
<1>3. CASE SolveLands
  BY <1>3 DEF SolveLands
<1>4. CASE ScanCompletes \/ BeatEnds \/ TurnCube \/ RollCube \/ UNCHANGED vars
  BY <1>4 DEF ScanCompletes, BeatEnds, TurnCube, RollCube, vars
<1>5. CASE \E m \in Methods : ChooseMethod(m)
  BY <1>5 DEF ChooseMethod
<1> QED
  BY <1>1, <1>2, <1>3, <1>4, <1>5 DEF Next

\* A verdict is counted up to the highest threshold, and no further.
LEMMA CountType ==
  ASSUME HeldTypeOK, NEW v \in Verdicts, Count(v)
  PROVE  last' \in Verdicts /\ streak' \in 1..Doubt /\ streak' <= streak + 1
BY HoldAssumption DEF HeldTypeOK, Count

Sights == [kind : {"none", "matched", "unsure", "wrong", "unknown"}, side : Faces \cup {None}]

LEMMA SightTypes ==
  /\ NoSight \in Sights /\ Sight("matched") \in Sights
  /\ Sight("unsure") \in Sights /\ Sight("unknown") \in Sights
  /\ \A side \in Faces \cup {None} : [kind |-> "wrong", side |-> side] \in Sights
BY DEF NoSight, Sight, Sights

\* Nothing said, and nothing counted.
LEMMA NothingTypes ==
  /\ NoVerdict \in Verdicts /\ 0 \in 0..Doubt /\ 0 \in 0..Trust
BY SayType, HoldAssumption DEF NoVerdict, Kinds

LEMMA HeldTypeIs ==
  HeldTypeOK <=> /\ hold \in Holds /\ seen \in BOOLEAN /\ sight \in Sights
                 /\ last \in Verdicts /\ streak \in 0..Doubt
                 /\ announced \in BOOLEAN /\ matched \in BOOLEAN
BY DEF HeldTypeOK, Sights, Verdicts

LEMMA HeldTypeNext ==
  HeldTypeOK' <=> /\ hold' \in Holds /\ seen' \in BOOLEAN /\ sight' \in Sights
                  /\ last' \in Verdicts /\ streak' \in 0..Doubt
                  /\ announced' \in BOOLEAN /\ matched' \in BOOLEAN
BY DEF HeldTypeOK, Sights, Verdicts

\* A steady frame, whatever its verdict, leaves a hold that is one and a sight
\* that can be shown.
LEMMA SteadyTypes ==
  ASSUME HeldTypeOK, NEW read, FrameSteady(read)
  PROVE  HeldTypeOK'
<1> DEFINE v == Judge(read)
<1>1. /\ v \in Verdicts /\ v.kind \in Kinds /\ v.side \in Faces \cup {None}
      /\ v.kind \in {"held", "moved"} => v.hold \in Holds
  BY JudgeIs DEF HeldTypeOK, Verdicts
<1>2. last' \in Verdicts /\ streak' \in 0..Doubt
  <2>1. Count(v)
    BY FrameSteadyIs
  <2> HIDE DEF v
  <2>2. last' \in Verdicts /\ streak' \in 1..Doubt
    BY <1>1, <2>1, CountType
  <2> QED
    BY <2>2
<1> HIDE DEF v
<1>9. /\ hold \in Holds /\ seen \in BOOLEAN /\ sight \in Sights
      /\ announced \in BOOLEAN /\ matched \in BOOLEAN
  BY HeldTypeIs
<1> SUFFICES /\ hold' \in Holds /\ seen' \in BOOLEAN /\ announced' \in BOOLEAN /\ matched' \in BOOLEAN
             /\ sight' \in Sights
  BY <1>2, HeldTypeNext
<1>3. CASE v.kind = "nothing"
  <2>1. SetSightAfter(Trust, NoSight)
    BY <1>3, FrameSteadyIs DEF v
  <2> QED
    BY <1>9, <2>1, SightTypes DEF SetSightAfter
<1>4. CASE v.kind = "held"
  <2>1. HeldFrame(v)
    BY <1>4, FrameSteadyIs DEF v
  <2> QED
    BY <1>1, <1>4, <1>9, <2>1, SightTypes DEF HeldFrame, Believe
<1>5. CASE v.kind = "moved"
  <2>1. MovedFrame(v)
    BY <1>5, FrameSteadyIs DEF v
  <2> QED
    BY <1>1, <1>5, <1>9, <2>1, SightTypes DEF MovedFrame, Believe
<1>6. CASE v.kind = "unsure"
  <2>1. SetSightAfter(Trust, Sight("unsure"))
    BY <1>6, FrameSteadyIs DEF v
  <2> QED
    BY <1>9, <2>1, SightTypes DEF SetSightAfter
<1>7. CASE v.kind = "wrong"
  <2>1. SetSightAfter(Accuse, [kind |-> "wrong", side |-> v.side])
    BY <1>7, FrameSteadyIs DEF v
  <2> QED
    BY <1>1, <1>9, <2>1, SightTypes DEF SetSightAfter
<1>8. CASE v.kind = "unknown"
  <2>1. SetSightAfter(Doubt, Sight("unknown"))
    BY <1>8, FrameSteadyIs DEF v
  <2> QED
    BY <1>9, <2>1, SightTypes DEF SetSightAfter
<1> QED
  BY <1>1, <1>3, <1>4, <1>5, <1>6, <1>7, <1>8 DEF Kinds

LEMMA HeldTypeStep ==
  ASSUME SessionInv, HeldTypeOK, fresh \in 0..Trust, [Next]_vars
  PROVE  HeldTypeOK' /\ fresh' \in 0..Trust
<1>1. CASE Frame
  <2>1. ASSUME FrameWithoutRead \/ FrameUnsteady
        PROVE  HeldTypeOK'
    <3>1. last' = NoVerdict /\ streak' = 0 /\ (sight' = NoSight \/ sight' = sight)
          /\ UNCHANGED <<hold, seen, announced>> /\ matched' = matched
      BY <2>1 DEF FrameWithoutRead, FrameUnsteady, Forget
    <3> QED
      BY <3>1, SightTypes, NothingTypes, HeldTypeIs, HeldTypeNext
  <2>2. fresh' \in 0..Trust
    BY <1>1, HoldAssumption DEF Frame
  <2> QED
    BY <1>1, <2>1, <2>2, SteadyTypes DEF Frame
<1>2. CASE UNCHANGED heldVars /\ fresh' = fresh
  BY <1>2 DEF heldVars, HeldTypeOK
<1>3. CountFresh => fresh' \in 0..Trust
  BY NothingTypes DEF CountFresh
<1>4. CASE OnStateChanged /\ CountFresh
  BY <1>3, <1>4, NothingTypes, HeldTypeIs, HeldTypeNext DEF OnStateChanged, OnCubeChanged, heldVars
<1>5. CASE OnSolutionChanged /\ CountFresh
  <2>1. announced' \in BOOLEAN
    BY <1>5 DEF OnSolutionChanged
  <2>2. hold' \in Holds /\ seen' \in BOOLEAN
    <3>1. seen' \in BOOLEAN
      BY <1>5 DEF OnSolutionChanged
    <3>2. hold' \in Holds
      BY <1>5, HoldAssumption, HeldTypeIs DEF OnSolutionChanged
    <3> QED
      BY <3>1, <3>2
  <2> QED
    BY <1>3, <1>5, <2>1, <2>2, SightTypes, NothingTypes, HeldTypeIs, HeldTypeNext DEF OnSolutionChanged, Forget
<1>6. CASE OnWatchingStopped /\ fresh' = fresh
  BY <1>6, SightTypes, NothingTypes, HeldTypeIs, HeldTypeNext DEF OnWatchingStopped, Forget
<1> QED
  BY <1>1, <1>2, <1>4, <1>5, <1>6, HeldHears

\* The screens, the turn being shown and the cube in the hand.
ScreenTypeOK ==
  /\ screen \in Screens
  /\ previous \in Screens \ {"settings"}
  /\ scanComplete \in BOOLEAN
  /\ beat \in BOOLEAN
  /\ pendingStep \in {-1, 0, 1}
  /\ playing \in BOOLEAN
  /\ cube \in Cubes
  /\ grip \in Holds

LEMMA ScreenTypeStep ==
  ASSUME SessionInv, ScreenTypeOK, [Next]_vars
  PROVE  ScreenTypeOK'
<1> USE DEF ScreenTypeOK
<1>1. ASSUME NEW s \in Screens, Enter(s)
      PROVE  /\ screen' \in Screens /\ scanComplete' \in BOOLEAN /\ beat' \in BOOLEAN
             /\ pendingStep' \in {-1, 0, 1} /\ playing' \in BOOLEAN
  BY <1>1 DEF Enter
<1>2. CASE PressNext \/ PressPrevious \/ TurnLands
  BY <1>2 DEF PressNext, PressPrevious, TurnLands, NothingToShow, Show, screenVars, handVars
<1>3. CASE Frame
  BY <1>3 DEF Frame, OnMoveSeen, Show, screenVars, stepVars, handVars
<1>4. CASE BeginScan \/ CancelScan \/ Rescan \/ Finish
  <2>1. \E s \in Screens : GoTo(s)
    BY <1>4 DEF BeginScan, CancelScan, Rescan, Finish, Screens
  <2> QED
    BY <1>1, <1>4, <2>1 DEF GoTo, BeginScan, CancelScan, Rescan, Finish, handVars
<1>5. CASE OpenSettings
  <2>1. "settings" \in Screens
    BY DEF Screens
  <2> QED
    BY <1>1, <1>5, <2>1 DEF OpenSettings, GoTo, handVars
<1>6. CASE CloseSettings
  BY <1>1, <1>6 DEF CloseSettings, GoTo, handVars
<1>7. CASE SolveLands
  <2>1. "solve" \in Screens
    BY DEF Screens
  <2>2. UNCHANGED handVars /\ previous' = previous
    BY <1>7 DEF SolveLands, screenVars
  <2>3. Enter("solve") \/ (UNCHANGED screenVars /\ Repaint)
    BY <1>7 DEF SolveLands
  <2> QED
    BY <1>1, <2>1, <2>2, <2>3 DEF Repaint, screenVars, handVars
<1>8. CASE BeatEnds
  <2>1. "solve" \in Screens
    BY DEF Screens
  <2> QED
    BY <1>1, <1>8, <2>1 DEF BeatEnds, stepVars, handVars
<1>9. CASE \E m \in Methods : ChooseMethod(m)
  BY <1>9 DEF ChooseMethod, Repaint, screenVars, stepVars, handVars
<1>10. CASE ScanCompletes
  BY <1>10, ScanAssumption, HoldAssumption DEF ScanCompletes, stepVars
<1>11. CASE TurnCube
  BY <1>11, TurnAssumption DEF TurnCube, screenVars, stepVars
<1>12. CASE RollCube
  BY <1>12 DEF RollCube, screenVars, stepVars
<1>13. CASE UNCHANGED vars
  BY <1>13 DEF vars, screenVars, stepVars, handVars
<1> QED
  BY <1>2, <1>3, <1>4, <1>5, <1>6, <1>7, <1>8, <1>9, <1>10, <1>11, <1>12, <1>13 DEF Next

LEMMA TypeInit == Init => TypeOK
<1> SUFFICES ASSUME Init PROVE TypeOK
  OBVIOUS
<1>1. SolveTypeOK
  BY SessionInitInv DEF SessionInv, SolveInv
<1>2. HeldTypeOK
  BY SightTypes, NothingTypes, HoldAssumption, HeldTypeIs DEF Init, HeldInit
<1>3. cube \in Cubes /\ grip \in Holds /\ fresh \in 0..Trust
  BY ScanAssumption, HoldAssumption DEF Init
<1> QED
  BY <1>1, <1>2, <1>3 DEF Init, TypeOK, Screens

LEMMA TypeStep ==
  ASSUME SessionInv, TypeOK, [Next]_vars
  PROVE  TypeOK'
<1>1. SolveTypeOK'
  BY SessionStepInv DEF SessionInv, SolveInv
<1>2. HeldTypeOK' /\ fresh' \in 0..Trust
  BY HeldTypeStep DEF TypeOK
<1>3. ScreenTypeOK'
  BY ScreenTypeStep DEF TypeOK, ScreenTypeOK
<1> QED
  BY <1>1, <1>2, <1>3 DEF TypeOK, ScreenTypeOK

\* Every variable of a session keeps its type: the hold shown is always one of
\* the holds, however the last verdict chose it, and what is said of a mistake
\* names a side that turns.
THEOREM SessionTypesHold == Spec => []TypeOK
<1>1. SessionInv /\ TypeOK /\ [Next]_vars => (SessionInv /\ TypeOK)'
  BY TypeStep, SessionStepInv
<1> QED
  BY <1>1, SessionInitInv, TypeInit, PTL DEF Spec

-----------------------------------------------------------------------------
(* The evidence for a move *)

\* Every frame of the streak has been seen since this cube was expected, or
\* enough have for whatever the streak says.
FreshInv == streak <= fresh \/ fresh >= Trust

LEMMA FreshStep ==
  ASSUME SessionInv, TypeOK, FreshInv, [Next]_vars
  PROVE  FreshInv'
<1>1. /\ streak \in 0..Doubt /\ fresh \in 0..Trust
      /\ streak' \in 0..Doubt /\ fresh' \in 0..Trust
  BY HeldTypeIs, HeldTypeNext, HeldTypeStep DEF TypeOK
<1>2. Trust \in Nat /\ Doubt \in Nat
  BY HoldAssumption
<1>3. CASE streak' = 0
  BY <1>1, <1>2, <1>3 DEF FreshInv
<1>4. CASE UNCHANGED <<streak, fresh>>
  BY <1>4 DEF FreshInv
<1>5. ASSUME NEW read, FrameSteady(read), fresh' = IF fresh < Trust THEN fresh + 1 ELSE fresh
      PROVE  FreshInv'
  <2>1. Judge(read) \in Verdicts /\ Count(Judge(read))
    BY <1>5, JudgeIs, FrameSteadyIs, HeldTypeIs DEF TypeOK
  <2>2. streak' <= streak + 1
    BY <2>1, CountType DEF TypeOK
  <2> QED
    BY <1>1, <1>2, <1>5, <2>2 DEF FreshInv
<1>6. CASE Frame
  <2>1. CASE FrameWithoutRead \/ FrameUnsteady
    BY <1>3, <2>1 DEF FrameWithoutRead, FrameUnsteady, Forget
  <2> QED
    BY <1>5, <1>6, <2>1 DEF Frame
<1>7. CASE OnStateChanged /\ CountFresh /\ (NextMove \/ PreviousMove)
  <2>1. stepped'.from = stepped.from
    BY <1>7, SessionTypes DEF SessionInv, NextMove, PreviousMove, StepTo, Stepped
  <2>2. CASE CurrentCube' # CurrentCube
    BY <1>3, <1>7, <2>2 DEF OnStateChanged, OnCubeChanged
  <2>3. CASE CurrentCube' = CurrentCube
    BY <1>4, <1>7, <2>1, <2>3 DEF OnStateChanged, CountFresh, heldVars
  <2> QED
    BY <2>2, <2>3
<1>8. CASE OnSolutionChanged \/ OnWatchingStopped
  BY <1>3, <1>8 DEF OnSolutionChanged, OnWatchingStopped, Forget
<1>9. CASE UNCHANGED heldVars /\ fresh' = fresh
  BY <1>4, <1>9 DEF heldVars
<1> QED
  BY <1>6, <1>7, <1>8, <1>9, HeldHears

SeenInv == SessionInv /\ TypeOK /\ FreshInv

LEMMA SeenInvInit == Init => SeenInv
<1> SUFFICES ASSUME Init PROVE SeenInv
  OBVIOUS
<1>1. FreshInv
  BY DEF Init, HeldInit, FreshInv
<1> QED
  BY <1>1, SessionInitInv, TypeInit DEF SeenInv

LEMMA SeenInvStep == SeenInv /\ [Next]_vars => SeenInv'
BY SessionStepInv, TypeStep, FreshStep DEF SeenInv

\* A move is only said to be made by a steady frame whose verdict says so.
LEMMA AnnouncedBy ==
  ASSUME SeenInv, [Next]_vars, announced', ~announced
  PROVE  \E read \in Reads : Judge(read).kind = "moved" /\ streak' >= Trust
<1>1. Frame
  BY HeldHears DEF SeenInv, heldVars, OnStateChanged, OnCubeChanged, OnSolutionChanged, OnWatchingStopped
<1>2. PICK read \in Reads : FrameSteady(read)
  BY <1>1 DEF Frame, FrameWithoutRead, FrameUnsteady
<1> DEFINE v == Judge(read)
<1>3. v.kind \in Kinds
  BY JudgeIs DEF SeenInv, TypeOK, HeldTypeOK, Verdicts
<1>4. CASE v.kind = "moved"
  <2>1. MovedFrame(v)
    BY <1>2, <1>4, FrameSteadyIs
  <2>2. SeesMove(v)
    BY <2>1 DEF MovedFrame
  <2> QED
    BY <2>2 DEF SeesMove
<1>5. CASE v.kind \in {"nothing", "unsure", "wrong", "unknown"}
  <2>1. \E n, s : SetSightAfter(n, s)
    BY <1>2, <1>5, FrameSteadyIs
  <2> QED
    BY <2>1 DEF SetSightAfter
<1>6. CASE v.kind = "held"
  <2>1. HeldFrame(v)
    BY <1>2, <1>6, FrameSteadyIs
  <2> QED
    BY <2>1 DEF HeldFrame
<1> QED
  BY <1>3, <1>4, <1>5, <1>6 DEF Kinds

\* A mistake is only called by a steady frame whose verdict says so.
LEMMA AccusedBy ==
  ASSUME SeenInv, [Next]_vars, sight' # sight, sight'.kind \in {"wrong", "unknown"}
  PROVE  \E read \in Reads : Judge(read).kind \in {"wrong", "unknown"}
<1>1. NoSight.kind = "none" /\ Sight("matched").kind = "matched" /\ Sight("unsure").kind = "unsure"
  BY DEF NoSight, Sight
<1>2. Frame
  BY <1>1, HeldHears DEF SeenInv, heldVars, OnStateChanged, OnCubeChanged, OnSolutionChanged, OnWatchingStopped
<1>3. PICK read \in Reads : FrameSteady(read)
  BY <1>1, <1>2 DEF Frame, FrameWithoutRead, FrameUnsteady
<1> DEFINE v == Judge(read)
<1>4. v.kind \in Kinds
  BY JudgeIs DEF SeenInv, TypeOK, HeldTypeOK, Verdicts
<1>5. CASE v.kind = "nothing"
  <2>1. SetSightAfter(Trust, NoSight)
    BY <1>3, <1>5, FrameSteadyIs
  <2> QED
    BY <1>1, <2>1 DEF SetSightAfter
<1>6. CASE v.kind = "unsure"
  <2>1. SetSightAfter(Trust, Sight("unsure"))
    BY <1>3, <1>6, FrameSteadyIs
  <2> QED
    BY <1>1, <2>1 DEF SetSightAfter
<1>7. CASE v.kind = "held"
  <2>1. HeldFrame(v)
    BY <1>3, <1>7, FrameSteadyIs
  <2> QED
    BY <1>1, <2>1 DEF HeldFrame, Believe
<1>8. CASE v.kind = "moved"
  <2>1. MovedFrame(v)
    BY <1>3, <1>8, FrameSteadyIs
  <2> QED
    BY <1>1, <2>1 DEF MovedFrame, Believe
<1> QED
  BY <1>4, <1>5, <1>6, <1>7, <1>8 DEF Kinds

\* A move is announced on frames that are all about that move.
THEOREM EvidenceIsAlwaysFresh == Spec => EvidenceIsFresh
<1>1. ASSUME SeenInv, [Next]_vars, announced', ~announced
      PROVE  fresh' >= Trust
  <2>1. streak' >= Trust
    BY <1>1, AnnouncedBy
  <2>2. streak' \in Nat /\ fresh' \in Nat /\ FreshInv'
    BY <1>1, SeenInvStep, HeldTypeNext DEF SeenInv, TypeOK
  <2> QED
    BY <2>1, <2>2, HoldAssumption DEF FreshInv
<1>2. SeenInv /\ [Next]_vars => [announced' /\ ~announced => fresh' >= Trust]_vars
  BY <1>1
<1> QED
  BY <1>2, SeenInvInit, SeenInvStep, PTL DEF Spec, EvidenceIsFresh

-----------------------------------------------------------------------------
(* What the camera takes for a move, and for a mistake *)

\* The cube after the move asked for is the next one of the solution.
LEMMA NextCubeIs ==
  ASSUME SessionInv, CurrentMove # None
  PROVE  /\ NextCube \in Cubes
         /\ stepped.turn + 1 \in 1..Turns(stepped.method, stepped.from)
         /\ CurrentCube = CubeAfter(stepped.method, stepped.from, stepped.turn)
         /\ NextCube = CubeAfter(stepped.method, stepped.from, stepped.turn + 1)
<1> DEFINE m == stepped.method
           c == stepped.from
           k == stepped.turn + 1
<1>1. m \in Methods /\ c \in Cubes \ Unsolvable
  BY SessionTypes DEF SessionInv, SolvingKeepsCube, Stepped
<1>2. ~AtEnd(stepped) /\ CurrentMove = MoveAt(m, c, k)
  BY DEF CurrentMove
<1>3. k \in 1..Turns(m, c) /\ k - 1 = stepped.turn
  BY <1>2, SessionTypes DEF SessionInv, AtEnd, TotalMoves
<1>4. CurrentCube = CubeAfter(m, c, stepped.turn)
  BY DEF CurrentCube, CubeOf
<1> HIDE DEF m, c, k
<1>5. Apply(CubeAfter(m, c, k - 1), MoveAt(m, c, k)) = CubeAfter(m, c, k)
  BY <1>1, <1>3, TurnAssumption
<1>6. CubeAfter(m, c, k) \in Cubes /\ Turns(m, c) \in Nat
  BY <1>1, <1>3, SolverAssumption
<1>7. NextCube = CubeAfter(m, c, k)
  BY <1>2, <1>3, <1>4, <1>5 DEF NextCube
<1> QED
  BY <1>3, <1>4, <1>6, <1>7 DEF m, c, k

\* Nothing turned, and yet the read is taken for the cube after the move: the
\* cube has been seen as it was, and it is held some other way, or one sticker
\* is misread that would have told the hold shown from another one.
LEMMA TakenForMove ==
  ASSUME SessionInv, TypeOK, cube = CurrentCube,
         NEW read \in Reads, Judge(read).kind = "moved"
  PROVE  /\ matched
         /\ grip = hold => \E i \in read.found : /\ InDoubt(CurrentCube, hold, read.found, i)
                                                 /\ ~InDoubt(NextCube, hold, read.found, i)
                                                 /\ Glare # {}
<1> DEFINE before == ReadHold(read, CurrentCube)
           after == ReadHold(read, NextCube)
<1>1. cube \in Cubes /\ grip \in Holds /\ hold \in Holds /\ CurrentMove # None /\ NextCube \in Cubes
  BY JudgeIs, NextCubeIs DEF TypeOK, HeldTypeOK
<1>2. \/ before.distance > after.distance
      \/ matched /\ hold \notin before.holds /\ hold \in after.holds
  BY <1>1, JudgeIs
<1>3. /\ read.found \subseteq Cells /\ IsFiniteSet(read.found)
      /\ Shows(read, cube, grip) \/ \E i \in read.found : ShowsBut(read, i, cube, grip)
      /\ Glare = {} => Shows(read, cube, grip)
  BY <1>1, ReadsShow
<1>4. before.distance \in Nat /\ after.distance \in Nat
  BY <1>3, ReadHoldIs
<1>5. CASE Shows(read, cube, grip)
  <2>1. before.distance = 0 /\ grip \in before.holds
    BY <1>1, <1>3, <1>5, TrueReadIs
  <2> QED
    BY <1>2, <1>4, <2>1
<1>6. ASSUME NEW i \in read.found, ShowsBut(read, i, cube, grip), Glare # {}
      PROVE  /\ matched
             /\ grip = hold => /\ InDoubt(CurrentCube, hold, read.found, i)
                               /\ ~InDoubt(NextCube, hold, read.found, i)
  <2>1. read.lab[i] \in Glare
    BY <1>6 DEF ShowsBut
  <2>2. before.distance = 1 /\ after.distance >= 1
    BY <1>1, <1>3, <1>6, <2>1, GlaredReadIs
  <2>3. matched /\ hold \notin before.holds /\ hold \in after.holds
    BY <1>2, <1>4, <2>2
  <2>4. FitOff >= 1 /\ ~InDoubt(NextCube, hold, read.found, i)
    BY <1>1, <1>3, <2>1, <2>3, GlaredReadIs
  <2>5. grip = hold => InDoubt(CurrentCube, hold, read.found, i)
    BY <1>1, <1>3, <1>6, <2>1, <2>3, <2>4, GlaredReadIs
  <2> QED
    BY <2>3, <2>4, <2>5
<1> QED
  BY <1>3, <1>5, <1>6

\* The cube is as it should be, and yet the read is called a mistake: it is not
\* held as shown, and one sticker is misread that does not let its side be told
\* from others, or that no side seen may be off by.
LEMMA TakenForMistake ==
  ASSUME SessionInv, TypeOK, NEW read \in Reads, Judge(read).kind \in {"wrong", "unknown"},
         cube = CurrentCube \/ (CurrentMove # None /\ cube = NextCube)
  PROVE  /\ grip # hold
         /\ Glare # {}
         /\ FitOff >= 1 => \E i \in Cells, c \in {CurrentCube, cube}, h \in Holds :
                             InDoubt(c, h, Cells, i)
<1> DEFINE before == ReadHold(read, CurrentCube)
           after == ReadHold(read, NextCube)
<1>1. cube \in Cubes /\ grip \in Holds /\ hold \in Holds /\ CurrentCube \in Cubes
  BY SessionTypes DEF SessionInv, TypeOK, HeldTypeOK
<1>2. /\ read.found = Cells /\ before.holds = {}
      /\ ~(Off(read, CurrentCube, hold) < 2)
      /\ CurrentMove # None =>
           /\ ~(Off(read, NextCube, hold) < 2)
           /\ after.holds = {} \/ ~(before.distance > after.distance)
  BY <1>1, JudgeIs
<1>3. /\ IsFiniteSet(read.found)
      /\ Shows(read, cube, grip) \/ \E i \in read.found : ShowsBut(read, i, cube, grip)
      /\ Glare = {} => Shows(read, cube, grip)
  BY <1>1, ReadsShow
<1>4. before.distance \in Nat /\ after.distance \in Nat
  BY <1>3, ReadHoldIs
<1>5. PICK h \in Holds : before.distance = Off(read, CurrentCube, h)
  BY <1>3, ReadHoldIs
<1>6. CurrentMove # None /\ cube = NextCube /\ after.holds # {} =>
        before.distance <= after.distance
  BY <1>2, <1>4
<1>7. ~Shows(read, cube, grip)
  <2> SUFFICES ASSUME Shows(read, cube, grip) PROVE FALSE
    OBVIOUS
  <2>1. ReadHold(read, cube).distance = 0 /\ ReadHold(read, cube).holds # {}
    BY <1>1, <1>3, TrueReadIs
  <2>2. before.distance = 0
    BY <1>2, <1>4, <1>6, <2>1
  <2>3. Shows(read, CurrentCube, h)
    BY <1>3, <1>5, <2>2, OffIs
  <2> QED
    BY <1>2, <1>3, <2>3, TrueReadIs
<1>8. PICK i \in read.found : ShowsBut(read, i, cube, grip)
  BY <1>3, <1>7
<1>9. read.lab[i] \in Glare
  BY <1>8 DEF ShowsBut
<1>10. grip # hold
  <2>1. Off(read, cube, grip) = 1
    BY <1>1, <1>2, <1>3, <1>8, <1>9, OffInGlare
  <2> QED
    BY <1>2, <2>1
<1>11. ASSUME FitOff >= 1, ~InDoubt(CurrentCube, h, Cells, i), ~InDoubt(cube, grip, Cells, i)
       PROVE  FALSE
  <2>1. ReadHold(read, cube).distance = 1 /\ ReadHold(read, cube).holds # {}
    BY <1>1, <1>2, <1>3, <1>8, <1>9, <1>11, GlaredReadIs
  <2>2. before.distance >= 1 /\ before.distance <= 1
    BY <1>1, <1>2, <1>3, <1>4, <1>6, <1>9, <2>1, GlaredReadIs
  <2>3. Off(read, CurrentCube, h) = 1
    BY <1>4, <1>5, <2>2
  <2>4. ShowsBut(read, i, CurrentCube, h)
    BY <1>1, <1>2, <1>3, <1>9, <2>3, OffInGlare
  <2> QED
    BY <1>1, <1>2, <1>3, <1>9, <1>11, <2>4, GlaredReadIs
<1>12. FitOff >= 1 => \E j \in Cells, c \in {CurrentCube, cube}, g \in Holds : InDoubt(c, g, Cells, j)
  BY <1>1, <1>2, <1>11
<1> QED
  BY <1>3, <1>7, <1>10, <1>12

\* A read that fits the cube in the hand in doubt when it is held as shown, and
\* not in doubt once the move is made.
MovedOutOfDoubt ==
  \E found \in FoundCells : \E i \in found :
    InDoubt(CurrentCube, hold, found, i) /\ ~InDoubt(NextCube, hold, found, i)

\* With nothing turned, the camera only says the move has been made after it was
\* seen held as shown for this very move, and then only of a cube that has been
\* rolled, or one held as shown of which the one sticker is misread that tells
\* the hold from another one before the move and not after it.
THEOREM PhantomIsRolledOrInDoubt ==
  Spec => [][announced' /\ ~announced /\ cube = CurrentCube =>
               matched /\ (grip # hold \/ MovedOutOfDoubt)]_vars
<1>1. ASSUME SeenInv, [Next]_vars, announced', ~announced, cube = CurrentCube
      PROVE  matched /\ (grip # hold \/ MovedOutOfDoubt)
  <2>1. PICK read \in Reads : Judge(read).kind = "moved"
    BY <1>1, AnnouncedBy
  <2>2. read.found \in FoundCells
    BY <1>1, ReadsShow DEF SeenInv, TypeOK
  <2> QED
    BY <1>1, <2>1, <2>2, TakenForMove DEF SeenInv, MovedOutOfDoubt
<1>2. SeenInv /\ [Next]_vars =>
        [announced' /\ ~announced /\ cube = CurrentCube =>
           matched /\ (grip # hold \/ MovedOutOfDoubt)]_vars
  BY <1>1
<1> QED
  BY <1>2, SeenInvInit, SeenInvStep, PTL DEF Spec

\* No sticker is misread, or no move of a solution takes a sticker that is all
\* that tells a hold from another one and makes it one that is not.
DoubtOutlivesMoves ==
  \/ Glare = {}
  \/ \A m \in Methods, c \in Cubes \ Unsolvable : \A k \in 1..Turns(m, c) :
       \A h \in Holds, found \in FoundCells : \A i \in found :
         InDoubt(CubeAfter(m, c, k - 1), h, found, i) => InDoubt(CubeAfter(m, c, k), h, found, i)

\* Then the only thing that can be taken for the move is a cube that was rolled.
THEOREM NoPhantomMoveEver == DoubtOutlivesMoves => (Spec => NoPhantomMove)
<1> SUFFICES ASSUME DoubtOutlivesMoves PROVE Spec => NoPhantomMove
  OBVIOUS
<1>1. ASSUME SeenInv, [Next]_vars, announced', ~announced, cube = CurrentCube
      PROVE  grip # hold /\ matched
  <2>1. PICK read \in Reads : Judge(read).kind = "moved"
    BY <1>1, AnnouncedBy
  <2>2. read.found \in FoundCells /\ hold \in Holds /\ CurrentMove # None
    BY <1>1, <2>1, JudgeIs, ReadsShow DEF SeenInv, TypeOK, HeldTypeOK
  <2>3. stepped.method \in Methods /\ stepped.from \in Cubes \ Unsolvable
    BY <1>1, SessionTypes DEF SeenInv, SessionInv, SolvingKeepsCube, Stepped
  <2>4. stepped.turn \in Nat /\ (stepped.turn + 1) - 1 = stepped.turn
    BY <1>1, SessionTypes DEF SeenInv, SessionInv
  <2>5. Glare = {} \/ \A i \in read.found :
          InDoubt(CurrentCube, hold, read.found, i) => InDoubt(NextCube, hold, read.found, i)
    BY <1>1, <2>2, <2>3, <2>4, NextCubeIs DEF SeenInv, DoubtOutlivesMoves
  <2> QED
    BY <1>1, <2>1, <2>5, TakenForMove DEF SeenInv
<1>2. SeenInv /\ [Next]_vars =>
        [announced' /\ ~announced /\ cube = CurrentCube => grip # hold /\ matched]_vars
  BY <1>1
<1> QED
  BY <1>2, SeenInvInit, SeenInvStep, PTL DEF Spec, NoPhantomMove

\* The cube is as it should be: as it was, or as the move asked for leaves it.
RightCube == cube = CurrentCube \/ (CurrentMove # None /\ cube = NextCube)

\* A cube that is as it should be and held as it is shown is never called a
\* mistake, whatever sticker is misread.
THEOREM HeldAsShownNeverAccused ==
  Spec => [][sight' # sight /\ sight'.kind \in {"wrong", "unknown"} /\ RightCube => grip # hold]_vars
<1>1. ASSUME SeenInv, [Next]_vars, sight' # sight, sight'.kind \in {"wrong", "unknown"}, RightCube
      PROVE  grip # hold
  BY <1>1, AccusedBy, TakenForMistake DEF SeenInv, RightCube
<1>2. SeenInv /\ [Next]_vars =>
        [sight' # sight /\ sight'.kind \in {"wrong", "unknown"} /\ RightCube => grip # hold]_vars
  BY <1>1
<1> QED
  BY <1>2, SeenInvInit, SeenInvStep, PTL DEF Spec

\* No sticker is misread, or a read one sticker off still fits and no hold of a
\* cube differs from another in one sticker of a side seen whole.
SidesAreTold ==
  \/ Glare = {}
  \/ /\ FitOff >= 1
     /\ \A c \in Cubes, h \in Holds, i \in Cells : ~InDoubt(c, h, Cells, i)

\* Then a cube that is as it should be is never called a mistake, however held.
THEOREM NoFalseAccusationEver == SidesAreTold => (Spec => NoFalseAccusation)
<1> SUFFICES ASSUME SidesAreTold PROVE Spec => NoFalseAccusation
  OBVIOUS
<1>1. ASSUME SeenInv, [Next]_vars, sight' # sight, sight'.kind \in {"wrong", "unknown"}
      PROVE  cube # CurrentCube /\ (CurrentMove # None => cube # NextCube)
  <2>1. PICK read \in Reads : Judge(read).kind \in {"wrong", "unknown"}
    BY <1>1, AccusedBy
  <2>2. cube \in Cubes /\ CurrentCube \in Cubes
    BY <1>1, SessionTypes DEF SeenInv, SessionInv, TypeOK
  <2> QED
    BY <1>1, <2>1, <2>2, TakenForMistake DEF SeenInv, SidesAreTold
<1>2. SeenInv /\ [Next]_vars =>
        [(sight' # sight /\ sight'.kind \in {"wrong", "unknown"})
           => cube # CurrentCube /\ (CurrentMove # None => cube # NextCube)]_vars
  BY <1>1
<1> QED
  BY <1>2, SeenInvInit, SeenInvStep, PTL DEF Spec, NoFalseAccusation

-----------------------------------------------------------------------------
(* Moving on: from a scan to its solution, from a move seen to its step     *)

\* A scan that is complete is on screen, and what will move it on is still to
\* come: the end of the beat, or the result of the solve.
ScanMovesOnInTime ==
  scanComplete => screen = "scan" /\ (beat \/ (isSolving /\ job # None))

\* The beat is that of a complete scan, and whatever is solved under the solve
\* screen continues the solution shown there.
MovingOnInv ==
  /\ scanComplete => screen = "scan" /\ (beat \/ isSolving)
  /\ beat => scanComplete
  /\ isSolving /\ (screen = "solve" \/ (screen = "settings" /\ previous = "solve")) => solvingCont

LEMMA MovingOnInit == Init => MovingOnInv
BY DEF Init, SolveInit, MovingOnInv

\* Steps along the solution leave the solve where it is.
LEMMA StepsKeepSolving ==
  ASSUME NextMove \/ PreviousMove
  PROVE  /\ UNCHANGED <<method, pending, isSolving, job, resumeTurn, solvingCont, continuation>>
         /\ SolveInv => stepped' # stepped
<1>1. UNCHANGED <<method, pending, isSolving, job, resumeTurn, solvingCont, continuation>>
  BY DEF NextMove, PreviousMove, StepTo
<1>2. ASSUME SolveInv PROVE stepped' # stepped
  <2>1. stepped \in Stepped /\ stepped.turn \in Nat
    BY <1>2, SessionTypes DEF Stepped
  <2>2. PICK t \in {stepped.turn + 1, stepped.turn - 1} : stepped' = [stepped EXCEPT !.turn = t]
    BY DEF NextMove, PreviousMove, StepTo
  <2>3. stepped'.turn = t
    BY <2>1, <2>2 DEF Stepped
  <2>4. t # stepped.turn
    BY <2>1, <2>2
  <2> QED
    BY <2>3, <2>4
<1> QED
  BY <1>1, <1>2

LEMMA MovingOnStep ==
  ASSUME SessionInv, MovingOnInv, [Next]_vars
  PROVE  MovingOnInv'
<1> USE DEF MovingOnInv
<1>1. CASE PressNext \/ PressPrevious \/ TurnLands
  <2>1. UNCHANGED screenVars
    BY <1>1 DEF PressNext, PressPrevious, TurnLands
  <2>2. UNCHANGED <<isSolving, solvingCont>>
    <3>1. CASE playing
      <4>1. TakeStep
        BY <1>1, <3>1 DEF PressNext, PressPrevious, TurnLands, FinishPlaying
      <4> QED
        BY <3>1, <4>1, TakeStepIsSolve, StepsKeepSolving DEF SessionInv
    <3>2. CASE ~playing
      BY <1>1, <3>2 DEF PressNext, PressPrevious, TurnLands, FinishPlaying, solveVars
    <3> QED
      BY <3>1, <3>2
  <2> QED
    BY <2>1, <2>2 DEF screenVars
<1>2. CASE Frame \/ TurnCube \/ RollCube \/ UNCHANGED vars
  BY <1>2 DEF Frame, TurnCube, RollCube, vars, screenVars, solveVars
<1>3. CASE SolveLands
  BY <1>3 DEF SolveLands, ApplySolveResult, Enter, screenVars
<1>4. CASE \E m \in Methods : ChooseMethod(m)
  <2>1. PICK m \in Methods : ChooseMethod(m)
    BY <1>4
  <2>2. UNCHANGED screenVars
    BY <2>1 DEF ChooseMethod
  <2>3. CASE Resolve(m)
    <3>1. isSolving' /\ solvingCont' = IF isSolving THEN solvingCont ELSE TRUE
      BY <2>3 DEF Resolve, BeginSolve
    <3> QED
      BY <2>2, <3>1 DEF screenVars
  <2>4. CASE RecordMethod
    BY <2>2, <2>4 DEF RecordMethod, screenVars
  <2> QED
    BY <2>1, <2>3, <2>4 DEF ChooseMethod, SetMethod
<1>5. CASE BeginScan \/ CancelScan \/ Rescan \/ Finish
  BY <1>5 DEF BeginScan, CancelScan, Rescan, Finish, GoTo, Enter, solveVars
<1>6. CASE OpenSettings \/ CloseSettings
  BY <1>6 DEF OpenSettings, CloseSettings, GoTo, Enter, solveVars
<1>7. CASE ScanCompletes
  BY <1>7 DEF ScanCompletes, SolveCube, BeginSolve
<1>8. CASE BeatEnds
  BY <1>8 DEF BeatEnds, Enter, solveVars
<1> QED
  BY <1>1, <1>2, <1>3, <1>4, <1>5, <1>6, <1>7, <1>8 DEF Next

\* What CompleteScanMovesOn rests on: a complete scan is never left waiting for
\* an event that has already been.  While the scan screen stays up, its beat is
\* still to end or the worker's result is still to come, and either moves on.
THEOREM CompleteScanNeverStuck == Spec => []ScanMovesOnInTime
<1>1. SessionInv /\ MovingOnInv /\ [Next]_vars => MovingOnInv'
  BY MovingOnStep
<1>2. SessionInv /\ MovingOnInv => ScanMovesOnInTime
  BY DEF SessionInv, SolveInv, WatchedJobIsLatest, MovingOnInv, ScanMovesOnInTime
<1> QED
  BY <1>1, <1>2, MovingOnInit, SessionInvariant, PTL DEF Spec

\* HeldCube.hpp on moveSeen: "Emitted once per move".  Until another cube is
\* expected, or the solution of a method change lands, a move that has been
\* announced stays announced, whatever screen is opened in between.
OnceForAMove ==
  [][announced /\ ~announced' =>
       CurrentCube' # CurrentCube \/ (job # None /\ job' = None /\ continuation')]_vars

\* A move is announced once, however long the cube is held in view after it and
\* whatever is opened over the solve screen.
THEOREM SeenOncePerMove == Spec => OnceForAMove
<1>1. ASSUME SeenInv, [Next]_vars, announced, ~announced'
      PROVE  CurrentCube' # CurrentCube \/ (job # None /\ job' = None /\ continuation')
  <2>1. CASE Frame
    <3>1. FrameWithoutRead \/ FrameUnsteady \/ \E read \in Reads : FrameSteady(read)
      BY <2>1 DEF Frame
    <3>2. ASSUME NEW read \in Reads, FrameSteady(read)
          PROVE  announced'
      <4>1. Judge(read).kind \in Kinds
        BY <1>1, JudgeIs DEF SeenInv, TypeOK, HeldTypeOK, Verdicts
      <4>2. \/ \E n, s : SetSightAfter(n, s)
            \/ HeldFrame(Judge(read))
            \/ MovedFrame(Judge(read))
        BY <3>2, <4>1, FrameSteadyIs DEF Kinds
      <4> QED
        BY <1>1, <4>2 DEF SetSightAfter, HeldFrame, MovedFrame
    <3> QED
      BY <1>1, <3>1, <3>2 DEF FrameWithoutRead, FrameUnsteady
  <2>2. CASE UNCHANGED heldVars \/ OnWatchingStopped
    <3>1. announced' = announced
      BY <2>2 DEF heldVars, OnWatchingStopped
    <3> QED
      BY <1>1, <3>1
  <2>3. CASE OnStateChanged
    <3>1. CASE CurrentCube' # CurrentCube
      BY <3>1
    <3>2. CASE UNCHANGED heldVars
      BY <1>1, <3>2 DEF heldVars
    <3> QED
      BY <2>3, <3>1, <3>2 DEF OnStateChanged
  <2>4. CASE SolveLands /\ OnSolutionChanged
    BY <1>1, <2>4 DEF SolveLands, OnSolutionChanged, ApplySolveResult
  <2> QED
    BY <1>1, <2>1, <2>2, <2>3, <2>4, HeldHears DEF SeenInv
<1>2. SeenInv /\ [Next]_vars =>
        [announced /\ ~announced' =>
           CurrentCube' # CurrentCube \/ (job # None /\ job' = None /\ continuation')]_vars
  BY <1>1
<1> QED
  BY <1>2, SeenInvInit, SeenInvStep, PTL DEF Spec, OnceForAMove

\* The solve screen shows a solution whose move has been announced, and shows
\* no step: nothing moves on until a button is pressed.
Silent == screen = "solve" /\ announced /\ ~isSolving /\ ~playing

\* What the solve screen is waiting for when a step it was to show is gone: the
\* turn was dropped by a new painting, pendingStep is still that of the step.
StepDropped == pendingStep # 0 /\ ~playing

\* With nothing asked for, the camera never says that it has been done.
LEMMA NothingSeenAtEnd ==
  ASSUME SeenInv, [Next]_vars, announced', ~announced
  PROVE  ~AtEnd(stepped)
<1>1. PICK read \in Reads : Judge(read).kind = "moved"
  BY AnnouncedBy
<1>2. CurrentMove # None
  BY <1>1, JudgeIs DEF SeenInv, TypeOK, HeldTypeOK
<1> QED
  BY <1>2 DEF CurrentMove

\* A turn that lands with the move still announced lands on a cube that looks
\* the same.
LEMMA LandsInSilence ==
  ASSUME SessionInv, playing, TakeStep, announced'
  PROVE  stepped' # stepped /\ CurrentCube' = CurrentCube
<1>1. stepped' # stepped
  BY TakeStepIsSolve, StepsKeepSolving DEF SessionInv
<1>2. CurrentCube' = CurrentCube
  BY DEF TakeStep, OnStateChanged, OnCubeChanged
<1> QED
  BY <1>1, <1>2

\* How far SeenMoveStepsOn is from being kept: a solve screen only falls silent
\* when it is entered with the move announced, when the move is announced after
\* a step was dropped, or when a step lands on a cube that looks the same (as
\* no turn of a real cube does).  A move announced in any other state is shown.
SilentOnlyAfter ==
  [][~Silent /\ Silent' =>
       \/ screen # "solve"
       \/ ~announced /\ StepDropped
       \/ stepped' # stepped /\ CurrentCube' = CurrentCube]_vars

\* The solution of a method change forgets what was announced for the old one.
LEMMA ContinuationForgets ==
  ASSUME SolveLands, solvingCont
  PROVE  ~announced'
BY DEF SolveLands, ApplySolveResult, OnSolutionChanged

\* The screen was up, and falls silent.
LEMMA SilentStep ==
  ASSUME SeenInv, MovingOnInv, [Next]_vars, ~Silent, Silent', screen = "solve"
  PROVE  \/ ~announced /\ StepDropped
         \/ stepped' # stepped /\ CurrentCube' = CurrentCube
<1> USE DEF Silent
<1>1. CASE PressNext \/ PressPrevious \/ TurnLands
  <2>1. CASE playing
    <3>1. TakeStep
      BY <1>1, <2>1 DEF PressNext, PressPrevious, TurnLands, FinishPlaying
    <3> QED
      BY <2>1, <3>1, LandsInSilence DEF SeenInv
  <2>2. CASE ~playing
    BY <1>1, <2>2 DEF PressNext, PressPrevious, TurnLands, FinishPlaying, heldVars, solveVars
  <2> QED
    BY <2>1, <2>2
<1>2. CASE Frame
  <2>1. isSolving' = isSolving /\ OnMoveSeen
    BY <1>2 DEF Frame, solveVars
  <2>2. ~announced => ~AtEnd(stepped)
    BY NothingSeenAtEnd
  <2>3. UNCHANGED stepVars
    BY <2>1 DEF OnMoveSeen, Show
  <2>4. ~playing
    BY <2>3 DEF stepVars
  <2>5. ~announced
    BY <2>1, <2>4
  <2>6. pendingStep # 0
    BY <2>1, <2>2, <2>5 DEF OnMoveSeen, Show
  <2> QED
    BY <2>4, <2>5, <2>6 DEF StepDropped
<1>3. CASE SolveLands
  \* What is solved under the solve screen continues what is shown there, and
  \* forgets what was announced.
  <2>1. isSolving
    BY <1>3 DEF SeenInv, SessionInv, SolveInv, WatchedJobIsLatest, SolveLands, ApplySolveResult
  <2>2. ~announced'
    BY <1>3, <2>1, ContinuationForgets DEF MovingOnInv
  <2> QED
    BY <2>2
<1>4. CASE \E m \in Methods : ChooseMethod(m)
  <2>1. PICK m \in Methods : ChooseMethod(m)
    BY <1>4
  <2>2. RecordMethod
    BY <2>1 DEF ChooseMethod, SetMethod, Resolve, BeginSolve
  <2> QED
    BY <2>1, <2>2 DEF ChooseMethod, RecordMethod, heldVars, stepVars
<1>5. CASE BeginScan \/ CancelScan \/ Rescan \/ Finish \/ OpenSettings \/ CloseSettings
  BY <1>5 DEF BeginScan, CancelScan, Rescan, Finish, OpenSettings, CloseSettings, GoTo, Enter
<1>6. CASE ScanCompletes \/ BeatEnds
  BY <1>6 DEF ScanCompletes, BeatEnds, MovingOnInv
<1>7. CASE TurnCube \/ RollCube \/ UNCHANGED vars
  <2>1. UNCHANGED <<screen, announced, isSolving, playing>>
    BY <1>7 DEF TurnCube, RollCube, vars, heldVars, screenVars, stepVars, solveVars
  <2> QED
    BY <2>1
<1> QED
  BY <1>1, <1>2, <1>3, <1>4, <1>5, <1>6, <1>7 DEF Next

\* The solve screen fails to show a move that was seen in those cases only.
THEOREM SilenceIsBounded == Spec => SilentOnlyAfter
<1> DEFINE Inv == SeenInv /\ MovingOnInv
<1>1. Init => Inv
  BY SeenInvInit, MovingOnInit
<1>2. Inv /\ [Next]_vars => Inv'
  BY SeenInvStep, MovingOnStep DEF SeenInv
<1>3. Inv /\ [Next]_vars =>
        [~Silent /\ Silent' =>
           \/ screen # "solve"
           \/ ~announced /\ StepDropped
           \/ stepped' # stepped /\ CurrentCube' = CurrentCube]_vars
  BY SilentStep
<1> QED
  BY <1>1, <1>2, <1>3, PTL DEF Spec, SilentOnlyAfter

=============================================================================
