--------------------------- MODULE MCSolveHistory ---------------------------
(***************************************************************************)
(* A cube with one side that turns, in three positions, solved by quarter   *)
(* turns one way (long) or at once (short), and a list that holds two.     *)
(***************************************************************************)
EXTENDS SolveHistory

MCCubes == 0..2
MCTurns(m, c) == IF m = "long" THEN c ELSE IF c = 0 THEN 0 ELSE 1
MCMoveAt(m, c, k) == IF m = "long" THEN 2 ELSE 3 - c
MCCubeAfter(m, c, k) == IF k = 0 THEN c ELSE IF m = "long" THEN c - k ELSE 0
=============================================================================
