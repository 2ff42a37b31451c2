------------------------ MODULE SolveControllerProofs ------------------------
(***************************************************************************)
(* What SolveController keeps, for any cubes and any methods that keep the *)
(* promises of SolverAssumption.  The three invariants are inductive taken *)
(* together: what a worker is solving is the latest request, so what lands *)
(* is the answer to it.                                                    *)
(***************************************************************************)
EXTENDS SolveController, TLAPS

\* The inductive invariant.
SolveInv == SolveTypeOK /\ WatchedJobIsLatest /\ ShownSolutionIsLatest

\* A solution of any cube, at its start, is a solution with a turn reached.
LEMMA SteppedFromType ==
  ASSUME NEW m \in Methods, NEW c \in Cubes
  PROVE  SteppedFrom(m, c) \in Stepped
BY SolverAssumption DEF SteppedFrom, Stepped, TotalMoves

\* solve_stepped always answers with a solution at its start, of the cube asked
\* for unless that one cannot be solved.
LEMMA SolveSteppedType ==
  ASSUME NEW m \in Methods, NEW c \in Cubes
  PROVE  /\ SolveStepped(m, c) \in Stepped
         /\ SolveStepped(m, c).method = m
         /\ SolveStepped(m, c).from = IF c \in Unsolvable THEN Solved ELSE c
         /\ SolveStepped(m, c).turn = 0
<1>1. (IF c \in Unsolvable THEN Solved ELSE c) \in Cubes
  BY SolverAssumption
<1> QED
  BY <1>1, SteppedFromType DEF SolveStepped, SteppedFrom

\* The turn reached lies inside the solution.
LEMMA TurnInside ==
  ASSUME NEW s \in Stepped
  PROVE  /\ TotalMoves(s) \in Nat
         /\ s.turn \in 0..TotalMoves(s)
<1>1. TotalMoves(s) \in Nat
  BY SolverAssumption DEF Stepped, TotalMoves
<1>2. s.turn \in Nat /\ s.turn <= TotalMoves(s)
  BY DEF Stepped
<1> QED
  BY <1>1, <1>2

\* Stepping on stops at the end, and changes nothing else.
LEMMA SteppedOnType ==
  ASSUME NEW s \in Stepped, NEW n \in Nat
  PROVE  /\ SteppedOn(s, n) \in Stepped
         /\ SteppedOn(s, n).method = s.method
         /\ SteppedOn(s, n).from = s.from
<1>1. TotalMoves(s) \in Nat
  BY SolverAssumption DEF Stepped, TotalMoves
<1>2. PICK t \in 0..TotalMoves(s) : SteppedOn(s, n) = [s EXCEPT !.turn = t]
  <2>1. CASE s.turn + n > TotalMoves(s)
    BY <1>1, <2>1 DEF SteppedOn
  <2>2. CASE ~(s.turn + n > TotalMoves(s))
    BY <1>1, <2>2 DEF SteppedOn, Stepped
  <2> QED
    BY <2>1, <2>2
<1>3. [s EXCEPT !.turn = t].method = s.method /\ [s EXCEPT !.turn = t].from = s.from
  BY DEF Stepped
<1>4. TotalMoves([s EXCEPT !.turn = t]) = TotalMoves(s)
  BY <1>3 DEF TotalMoves
<1>5. [s EXCEPT !.turn = t] \in Stepped
  BY <1>1, <1>4 DEF Stepped
<1> QED
  BY <1>2, <1>3, <1>5

\* A turn inside the solution is a turn reached.
LEMMA TurnType ==
  ASSUME NEW s \in Stepped, NEW t \in 0..TotalMoves(s)
  PROVE  /\ [s EXCEPT !.turn = t] \in Stepped
         /\ [s EXCEPT !.turn = t].method = s.method
         /\ [s EXCEPT !.turn = t].from = s.from
<1>1. TotalMoves(s) \in Nat
  BY SolverAssumption DEF Stepped, TotalMoves
<1>2. TotalMoves([s EXCEPT !.turn = t]) = TotalMoves(s)
  BY DEF TotalMoves, Stepped
<1> QED
  BY <1>1, <1>2 DEF Stepped

\* The cube at the turn reached is a cube.
LEMMA CubeOfType ==
  ASSUME NEW s \in Stepped
  PROVE  CubeOf(s) \in Cubes
<1>1. s.turn \in 0..Turns(s.method, s.from)
  BY SolverAssumption DEF Stepped, TotalMoves
<1> QED
  BY <1>1, SolverAssumption DEF CubeOf, Stepped

\* Whatever starts a solve leaves its worker on the latest request.
LEMMA BeginSolveInv ==
  ASSUME SolveInv,
         NEW c \in Cubes, NEW cont \in BOOLEAN, NEW turn \in Nat,
         method' \in Methods,
         BeginSolve(c, cont, turn)
  PROVE  SolveInv'
<1> USE DEF SolveInv
<1>1. SolveTypeOK'
  BY DEF BeginSolve, SolveTypeOK, Stepped, TotalMoves
<1>2. WatchedJobIsLatest'
  <2>1. job' # None
    BY SolverAssumption DEF BeginSolve
  <2> QED
    BY <2>1 DEF BeginSolve, WatchedJobIsLatest
<1>3. ShownSolutionIsLatest'
  BY DEF BeginSolve, ShownSolutionIsLatest
<1> QED
  BY <1>1, <1>2, <1>3

\* Whatever moves along the solution in place leaves the rest alone.
LEMMA StepToInv ==
  ASSUME SolveInv, NEW t \in 0..TotalMoves(stepped), StepTo(t)
  PROVE  SolveInv'
<1>1. stepped \in Stepped
  BY DEF SolveInv, SolveTypeOK
<1>2. stepped' \in Stepped /\ stepped'.method = stepped.method /\ stepped'.from = stepped.from
  BY <1>1, TurnType DEF StepTo
<1>3. SolveTypeOK'
  BY <1>2 DEF SolveInv, SolveTypeOK, StepTo
<1>4. WatchedJobIsLatest'
  BY DEF SolveInv, WatchedJobIsLatest, StepTo
<1>5. ShownSolutionIsLatest'
  BY <1>2 DEF SolveInv, ShownSolutionIsLatest, StepTo
<1> QED
  BY <1>3, <1>4, <1>5 DEF SolveInv

LEMMA InitInv == SolveInit => SolveInv
<1> SUFFICES ASSUME SolveInit PROVE SolveInv
  OBVIOUS
<1>1. stepped \in Stepped
  BY SteppedFromType, SolverAssumption DEF SolveInit
<1>2. SolveTypeOK
  BY <1>1, SolverAssumption DEF SolveInit, SolveTypeOK
<1> QED
  BY <1>2 DEF SolveInit, SolveInv, WatchedJobIsLatest, ShownSolutionIsLatest

\* Every operation of the controller keeps the invariant.
LEMMA StepInv == SolveInv /\ [SolveNext]_solveVars => SolveInv'
<1> SUFFICES ASSUME SolveInv, [SolveNext]_solveVars PROVE SolveInv'
  OBVIOUS
<1>1. ASSUME NEW c \in Cubes, SolveCube(c) PROVE SolveInv'
  <2>1. method' \in Methods
    BY <1>1 DEF SolveCube, SolveInv, SolveTypeOK
  <2> QED
    BY <1>1, <2>1, BeginSolveInv DEF SolveCube
<1>2. ASSUME NEW from \in Cubes, NEW m \in Methods, NEW turn \in -1..MaxResume,
             ResumeCube(from, m, turn)
      PROVE  SolveInv'
  <2>1. AtLeastZero(turn) \in Nat
    BY SolverAssumption DEF AtLeastZero
  <2>2. BeginSolve(from, FALSE, AtLeastZero(turn)) /\ method' \in Methods
    BY <1>2 DEF ResumeCube
  <2> QED
    BY <2>1, <2>2, BeginSolveInv
<1>3. ASSUME NEW m \in Methods, SetMethod(m) PROVE SolveInv'
  <2>1. method' \in Methods
    BY <1>3 DEF SetMethod
  <2>2. CASE Resolve(m)
    <3> DEFINE next == IF isSolving THEN pending ELSE CurrentCube
               cont == IF isSolving THEN solvingCont ELSE TRUE
    <3>1. next \in Cubes
      BY <2>2, CubeOfType DEF Resolve, CurrentCube, SolveInv, SolveTypeOK
    <3>2. cont \in BOOLEAN
      BY DEF SolveInv, SolveTypeOK
    <3>3. BeginSolve(next, cont, 0)
      BY <2>2 DEF Resolve
    <3> QED
      BY <2>1, <3>1, <3>2, <3>3, BeginSolveInv
  <2>3. CASE RecordMethod
    <3>1. ~isSolving
      BY <2>3, SolverAssumption DEF RecordMethod, SolveInv, SolveTypeOK, WatchedJobIsLatest
    <3>2. SolveTypeOK'
      BY <2>1, <2>3 DEF RecordMethod, SolveInv, SolveTypeOK
    <3>3. WatchedJobIsLatest'
      BY <2>3, <3>1 DEF RecordMethod, SolveInv, WatchedJobIsLatest
    <3>4. ShownSolutionIsLatest'
      BY <2>3 DEF RecordMethod, ShownSolutionIsLatest
    <3> QED
      BY <3>2, <3>3, <3>4 DEF SolveInv
  <2> QED
    BY <1>3, <2>2, <2>3 DEF SetMethod
<1>4. CASE ApplySolveResult
  <2> DEFINE answer == SolveStepped(job.method, job.cube)
  <2>1. job = [method |-> method, cube |-> pending]
    BY <1>4 DEF ApplySolveResult, SolveInv, WatchedJobIsLatest
  <2>2. method \in Methods /\ pending \in Cubes /\ resumeTurn \in Nat
    BY <1>4, <2>1 DEF ApplySolveResult, SolveInv, SolveTypeOK
  <2>3. /\ answer \in Stepped
        /\ answer.method = method
        /\ answer.from = IF pending \in Unsolvable THEN Solved ELSE pending
    BY <2>1, <2>2, SolveSteppedType
  <2>4. /\ stepped' \in Stepped
        /\ stepped'.method = answer.method
        /\ stepped'.from = answer.from
    BY <1>4, <2>2, <2>3, SteppedOnType DEF ApplySolveResult
  <2>5. SolveTypeOK'
    BY <1>4, <2>4 DEF ApplySolveResult, SolveInv, SolveTypeOK
  <2>6. WatchedJobIsLatest'
    BY <1>4 DEF ApplySolveResult, WatchedJobIsLatest
  <2>7. ShownSolutionIsLatest'
    BY <1>4, <2>3, <2>4 DEF ApplySolveResult, ShownSolutionIsLatest
  <2> QED
    BY <2>5, <2>6, <2>7 DEF SolveInv
<1>5. CASE NextMove
  <2>1. stepped.turn \in 0..TotalMoves(stepped) /\ TotalMoves(stepped) \in Nat
    BY TurnInside DEF SolveInv, SolveTypeOK
  <2>2. stepped.turn + 1 \in 0..TotalMoves(stepped)
    BY <1>5, <2>1 DEF NextMove, AtEnd
  <2> QED
    BY <1>5, <2>2, StepToInv DEF NextMove
<1>6. CASE PreviousMove
  <2>1. stepped.turn \in 0..TotalMoves(stepped) /\ TotalMoves(stepped) \in Nat
    BY TurnInside DEF SolveInv, SolveTypeOK
  <2>2. stepped.turn - 1 \in 0..TotalMoves(stepped)
    BY <1>6, <2>1 DEF PreviousMove, AtStart
  <2> QED
    BY <1>6, <2>2, StepToInv DEF PreviousMove
<1>7. CASE UNCHANGED solveVars
  BY <1>7 DEF solveVars, SolveInv, SolveTypeOK, Stepped, TotalMoves, WatchedJobIsLatest,
     ShownSolutionIsLatest
<1> QED
  BY <1>1, <1>2, <1>3, <1>4, <1>5, <1>6, <1>7 DEF SolveNext

\* The controller keeps its invariant, whatever is asked of it in whatever order.
THEOREM SolveInvariant == SolveSpec => []SolveInv
BY InitInv, StepInv, PTL DEF SolveSpec

\* The turn reached never leaves the solution in place, and every other part of
\* the controller's state keeps its type.
THEOREM SolveTypeCorrect == SolveSpec => []SolveTypeOK
<1>1. SolveInv => SolveTypeOK
  BY DEF SolveInv
<1> QED
  BY <1>1, SolveInvariant, PTL

\* A worker's result is awaited exactly while isSolving is set, and it answers
\* the latest request.
THEOREM WatchedJobIsAlwaysLatest == SolveSpec => []WatchedJobIsLatest
<1>1. SolveInv => WatchedJobIsLatest
  BY DEF SolveInv
<1> QED
  BY <1>1, SolveInvariant, PTL

\* With nothing being solved, the solution in place is of the latest cube by the
\* latest method, however many solves were replaced on the way.
THEOREM ShownSolutionIsAlwaysLatest == SolveSpec => []ShownSolutionIsLatest
<1>1. SolveInv => ShownSolutionIsLatest
  BY DEF SolveInv
<1> QED
  BY <1>1, SolveInvariant, PTL

=============================================================================
