---------------------------- MODULE MoveMerging ----------------------------
(***************************************************************************)
(* merge_adjacent_moves() (lib/src/solver/solver.cpp): the moves of a      *)
(* solution, in steps, with every run of moves of one face made into one,  *)
(* across the steps too. A solution is put together here a move at a time, *)
(* as the stages of a solver do, and merged at every point.                *)
(*                                                                         *)
(* A solution is the line of its moves, each with the number of its step.  *)
(* What moves do to a cube is taken from its edges: a quarter-turn of a    *)
(* face sends its four round (Cube::apply).                                *)
(***************************************************************************)
EXTENDS Integers, Sequences, SequencesExt

CONSTANTS
  Faces,
  Edges,
  EdgesOf,   \* the edges of each face, in the order a turn sends them
  Turns,     \* quarter-turns of a move
  MaxMoves,  \* of a solution; bounds AddMove
  MaxSteps   \* of a solution; bounds NextStage

\* A move has one to three quarter-turns (Move), or none, which the stages do not
\* make but merging allows for. A face has four edges, one in each place.
ASSUME MergingAssumption ==
  /\ Turns \subseteq 0..3
  /\ \A f \in Faces : /\ EdgesOf[f] \in [1..4 -> Edges]
                      /\ \A i, j \in 1..4 : EdgesOf[f][i] = EdgesOf[f][j] => i = j

VARIABLES
  solution,  \* its moves
  steps      \* how many steps it has

mergingVars == <<solution, steps>>

Moves == [step : Nat, face : Faces, turns : 0..3]

-----------------------------------------------------------------------------
(* One stack over the whole solution; an entry keeps the step it began in. *)

\* Mutant of Push: the sum of two turns is not brought under a whole one.
PushUnwrapped(kept, move) ==
  LET turns == move.turns % 4
      merged == Last(kept).turns + turns
  IN IF turns = 0 THEN kept
     ELSE IF kept = <<>> \/ Last(kept).face # move.face
     THEN Append(kept, [move EXCEPT !.turns = turns])
     ELSE IF merged = 0 THEN Front(kept)
     ELSE [kept EXCEPT ![Len(kept)].turns = merged]

(* A move is merged with the top of the stack if that is of its face, and  *)
(* a pair that cancels is gone.                                            *)
Push(kept, move) ==
  LET turns == move.turns % 4
      merged == (Last(kept).turns + turns) % 4
  IN IF turns = 0 THEN kept
     ELSE IF kept = <<>> \/ Last(kept).face # move.face
     THEN Append(kept, [move EXCEPT !.turns = turns])
     ELSE IF merged = 0 THEN Front(kept)
     ELSE [kept EXCEPT ![Len(kept)].turns = merged]

(* Every entry goes back to its step, in the order of the stack: that is   *)
(* the stack itself as long as its steps are in order.                     *)
Merged(line) ==
  LET kept[n \in 0..Len(line)] ==
        IF n = 0 THEN <<>> ELSE Push(kept[n - 1], line[n])
  IN kept[Len(line)]

-----------------------------------------------------------------------------
MergingInit == solution = <<>> /\ steps = 1

AddMove(face, turns) ==
  /\ Len(solution) < MaxMoves
  /\ solution' = Append(solution, [step |-> steps, face |-> face, turns |-> turns])
  /\ UNCHANGED steps

NextStage ==
  /\ steps < MaxSteps
  /\ steps' = steps + 1 /\ UNCHANGED solution

MergingNext == (\E face \in Faces, turns \in Turns : AddMove(face, turns)) \/ NextStage

MergingSpec == MergingInit /\ [][MergingNext]_mergingVars

-----------------------------------------------------------------------------
MergingTypeOK == solution \in Seq(Moves) /\ steps \in Nat

(* Where each edge of a cube is after a turn, and after a line of moves.   *)
(* A move of other than one to three quarters does nothing.                *)
Sent(edge, face, turns) ==
  LET ring == EdgesOf[face] IN
  IF turns \in 1..3 /\ \E i \in 1..4 : ring[i] = edge
  THEN ring[(((CHOOSE i \in 1..4 : ring[i] = edge) - 1 + turns) % 4) + 1]
  ELSE edge
Turned(cube, move) == [e \in Edges |-> Sent(cube[e], move.face, move.turns)]
Effect(line) ==
  LET cube[n \in 0..Len(line)] ==
        IF n = 0 THEN [e \in Edges |-> e] ELSE Turned(cube[n - 1], line[n])
  IN cube[Len(line)]

(* The merged solution does to a cube what the solution does; no two moves *)
(* of one face are beside each other, not even with empty steps between    *)
(* them or where the moves between have gone; its steps are in order; each *)
(* move is a turn of one to three quarters, in a step that turned its      *)
(* face; and there is nothing left to merge.                               *)
MergedDoesTheSame ==
  LET merged == Merged(solution) IN
  /\ Effect(merged) = Effect(solution)
  /\ \A i \in 1..Len(merged) - 1 : /\ merged[i].face # merged[i + 1].face
                                   /\ merged[i].step <= merged[i + 1].step
  /\ \A i \in DOMAIN merged :
       /\ merged[i].turns \in 1..3
       /\ \E j \in DOMAIN solution : /\ solution[j].face = merged[i].face
                                     /\ solution[j].step = merged[i].step
  /\ Merged(merged) = merged
=============================================================================
