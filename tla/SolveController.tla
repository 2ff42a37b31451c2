--------------------------- MODULE SolveController ---------------------------
(***************************************************************************)
(* SolveController: the solve being followed.  A cube handed to it is      *)
(* solved on a worker thread (a QFutureWatcher holds the one future whose  *)
(* result still counts); the solution that lands is stepped through, one   *)
(* turn at a time, forwards and back (SteppedSolution).                    *)
(*                                                                         *)
(* Everything here runs on the GUI thread except the solve itself, which   *)
(* is `job': the cube and the method the watched worker was given.  Giving *)
(* the watcher a new future drops the old one's result, so a superseded    *)
(* worker has no state here.  scanned_, which only the history reads, is   *)
(* kept by SolveHistory.                                                   *)
(*                                                                         *)
(* A cube is an opaque value.  What a method answers for a cube is a       *)
(* constant: how many turns (Turns), which turn comes k-th (MoveAt) and    *)
(* the cube after k of them (CubeAfter).                                   *)
(***************************************************************************)
EXTENDS Integers

CONSTANTS
  Cubes,               \* the cubes a scan can hand over
  Solved,              \* Cube::solved()
  Unsolvable,          \* the cubes solve_3x3 answers with an error
  Methods,             \* SolveController::Method
  FirstMethod,         \* method_'s initial value, Beginner
  None,                \* an empty std::optional
  Turns(_, _),         \* Turns(m, c): the length of method m's solution of c
  MoveAt(_, _, _),     \* MoveAt(m, c, k): its k-th turn, counted from 1
  CubeAfter(_, _, _),  \* CubeAfter(m, c, k): the cube after its first k turns
  MaxResume            \* bound: the highest turn a resumed solve is left at

\* What the solvers promise (cube::solver's own tests): a solution starts at
\* the cube it was asked for and ends at the solved cube, and a solved cube
\* needs no turns.  Turning a cube does not make it unsolvable.
ASSUME SolverAssumption ==
  /\ Solved \in Cubes \ Unsolvable
  /\ Unsolvable \subseteq Cubes
  /\ FirstMethod \in Methods
  /\ None \notin Cubes \cup [method : Methods, cube : Cubes]
  /\ MaxResume \in Nat
  /\ \A m \in Methods, c \in Cubes :
       /\ Turns(m, c) \in Nat
       /\ CubeAfter(m, c, 0) = c
       /\ CubeAfter(m, c, Turns(m, c)) = Solved
       /\ \A k \in 0..Turns(m, c) : CubeAfter(m, c, k) \in Cubes
       /\ c \notin Unsolvable => \A k \in 0..Turns(m, c) : CubeAfter(m, c, k) \notin Unsolvable
  /\ \A m \in Methods : Turns(m, Solved) = 0

VARIABLES
  stepped,         \* stepped_: the solution in place and the turn reached
  method,          \* method_
  pending,         \* pending_: the cube the latest solve was started from
  isSolving,       \* isSolving_
  job,             \* what the watched worker is solving, or None
  resumeTurn,      \* resume_turn_
  solvingCont,     \* solving_continuation_
  continuation     \* continuation_

solveVars == <<stepped, method, pending, isSolving, job, resumeTurn,
               solvingCont, continuation>>

-----------------------------------------------------------------------------
\* SteppedSolution::from, with the position at the start.  moves_ and cubes_
\* are functions of the method and the cube, so they are not stored.
SteppedFrom(m, c) == [method |-> m, from |-> c, turn |-> 0]

TotalMoves(s) == Turns(s.method, s.from)
AtEnd(s) == s.turn = TotalMoves(s)
AtStart(s) == s.turn = 0
CubeOf(s) == CubeAfter(s.method, s.from, s.turn)

CurrentCube == CubeOf(stepped)

\* currentMove(): the turn expected next, or nothing at the end.
CurrentMove ==
  IF AtEnd(stepped) THEN None
  ELSE MoveAt(stepped.method, stepped.from, stepped.turn + 1)

\* solve_stepped: an unsolvable cube gets the solved cube and no turns.
SolveStepped(m, c) == SteppedFrom(m, IF c \in Unsolvable THEN Solved ELSE c)

\* SteppedSolution::next called `turns' times, stopping at the end.
SteppedOn(s, turns) ==
  [s EXCEPT !.turn = IF s.turn + turns > TotalMoves(s) THEN TotalMoves(s)
                     ELSE s.turn + turns]

AtLeastZero(n) == IF n < 0 THEN 0 ELSE n

-----------------------------------------------------------------------------
SolveInit ==
  /\ stepped = SteppedFrom(FirstMethod, Solved)
  /\ method = FirstMethod
  /\ pending = None
  /\ isSolving = FALSE
  /\ job = None
  /\ resumeTurn = 0
  /\ solvingCont = FALSE
  /\ continuation = FALSE

\* beginSolve, with the turn resumeCube() sets after it.
BeginSolve(cube, cont, turn) ==
  /\ pending' = cube
  /\ solvingCont' = cont
  /\ resumeTurn' = turn
  /\ isSolving' = TRUE
  /\ job' = [method |-> method', cube |-> cube]
  /\ UNCHANGED <<stepped, continuation>>

SolveCube(cube) == UNCHANGED method /\ BeginSolve(cube, FALSE, 0)

\* resumeCube: a method other than the one in force is recorded, not acted on.
ResumeCube(from, m, turn) == method' = m /\ BeginSolve(from, FALSE, AtLeastZero(turn))

\* Mutant of Resolve: a solve in flight is left to finish.
ResolveOnceIdle(m) ==
  /\ pending # None
  /\ IF isSolving
     THEN UNCHANGED <<stepped, pending, isSolving, job, resumeTurn, solvingCont, continuation>>
     ELSE BeginSolve(CurrentCube, TRUE, 0)

\* Mutant of Resolve: the cube solved again is the one that was scanned.
ResolveFromScan(m) ==
  /\ pending # None
  /\ BeginSolve(pending, IF isSolving THEN solvingCont ELSE TRUE, 0)

\* setMethod once something has been scanned.  A solve in flight is replaced:
\* its cube is the one to solve, and what it continues stays what it was.
Resolve(m) ==
  /\ pending # None
  /\ BeginSolve(IF isSolving THEN pending ELSE CurrentCube,
                IF isSolving THEN solvingCont ELSE TRUE, 0)

\* setMethod before anything is: only recorded.
RecordMethod ==
  /\ pending = None
  /\ UNCHANGED <<stepped, pending, isSolving, job, resumeTurn, solvingCont, continuation>>

SetMethod(m) ==
  /\ m # method
  /\ method' = m
  /\ Resolve(m) \/ RecordMethod

\* The watched worker's result arrives on the GUI thread.
ApplySolveResult ==
  /\ job # None
  /\ stepped' = SteppedOn(SolveStepped(job.method, job.cube), resumeTurn)
  /\ resumeTurn' = 0
  /\ isSolving' = FALSE
  /\ continuation' = solvingCont
  /\ job' = None
  /\ UNCHANGED <<method, pending, solvingCont>>

\* Both are no-ops at the ends, and neither looks at isSolving.
StepTo(turn) ==
  /\ stepped' = [stepped EXCEPT !.turn = turn]
  /\ UNCHANGED <<method, pending, isSolving, job, resumeTurn, solvingCont, continuation>>

NextMove == ~AtEnd(stepped) /\ StepTo(stepped.turn + 1)
PreviousMove == ~AtStart(stepped) /\ StepTo(stepped.turn - 1)

SolveNext ==
  \/ \E c \in Cubes : SolveCube(c)
  \/ \E from \in Cubes, m \in Methods, turn \in -1..MaxResume : ResumeCube(from, m, turn)
  \/ \E m \in Methods : SetMethod(m)
  \/ ApplySolveResult
  \/ NextMove
  \/ PreviousMove

SolveSpec == SolveInit /\ [][SolveNext]_solveVars

-----------------------------------------------------------------------------
Stepped == {s \in [method : Methods, from : Cubes, turn : Nat] : s.turn <= TotalMoves(s)}

\* The type of the controller's state.  The turn reached never leaves the
\* solution in place, so topColors() and currentMove() always have a cube.
SolveTypeOK ==
  /\ stepped \in Stepped
  /\ method \in Methods
  /\ pending \in Cubes \cup {None}
  /\ isSolving \in BOOLEAN
  /\ job \in [method : Methods, cube : Cubes] \cup {None}
  /\ resumeTurn \in Nat
  /\ solvingCont \in BOOLEAN
  /\ continuation \in BOOLEAN

\* Exactly while isSolving is set a worker's result is still to come, and it is
\* the answer to the latest request: the latest cube, by the method chosen now.
WatchedJobIsLatest ==
  /\ isSolving <=> job # None
  /\ isSolving => job = [method |-> method, cube |-> pending]

\* No late result: once nothing is being solved, the solution on screen is of
\* the cube last handed over and by the method now chosen, however many solves
\* were replaced on the way (setMethod's "the QFutureWatcher drops the old
\* future's result").
ShownSolutionIsLatest ==
  (~isSolving /\ pending # None) =>
     /\ stepped.method = method
     /\ stepped.from = IF pending \in Unsolvable THEN Solved ELSE pending

=============================================================================
