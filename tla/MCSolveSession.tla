---------------------------- MODULE MCSolveSession ----------------------------
(***************************************************************************)
(* A small cube for SolveSession.  It has two sides that turn: A, with four*)
(* positions, and B, with two.  Two holds show side A, the second a quarter*)
(* roll from the first, so A turned and the cube rolled look the same; one *)
(* shows side B, of whose two stickers one is carried round by A and the   *)
(* other has colours side A has too, so a read of it alone can fit both.   *)
(***************************************************************************)
EXTENDS SolveSession, SequencesExt

MCCubes == [a : 0..3, b : 0..1]
MCSolved == [a |-> 0, b |-> 0]
MCFaces == {"A", "B"}

MCApply(c, m) ==
  IF m.face = "A" THEN [c EXCEPT !.a = (c.a + m.turns) % 4]
  ELSE [c EXCEPT !.b = (c.b + m.turns) % 2]

\* "long" turns A a quarter at a time, then B; "short" turns B, then A at once.
Repeat(m, n) == [i \in 1..n |-> m]
PlanB(c) == Repeat(Move("B", 1), c.b)
Plan(m, c) ==
  IF m = "long" THEN Repeat(Move("A", 3), c.a) \o PlanB(c)
  ELSE PlanB(c) \o (IF c.a = 0 THEN <<>> ELSE <<Move("A", 4 - c.a)>>)

MCMethods == {"long", "short"}

\* Each plan and the cubes along it, worked out once.
Plans == [m \in MCMethods, c \in MCCubes |-> Plan(m, c)]
CubesAlong ==
  [m \in MCMethods, c \in MCCubes |->
     [k \in 0..Len(Plans[m, c]) |-> FoldLeft(MCApply, c, SubSeq(Plans[m, c], 1, k))]]

MCTurns(m, c) == Len(Plans[m, c])
MCMoveAt(m, c, k) == Plans[m, c][k]
MCCubeAfter(m, c, k) == CubesAlong[m, c][k]

MCHolds == {"A0", "A1", "B0"}
MCUp(h) == IF h = "A1" THEN "y" ELSE "x"
MCCells == {1, 2, 3}

\* The side seen whole, or no more than one of its stickers.
MCFoundCells == {{1, 2, 3}, {1}}
Views ==
  [c \in MCCubes, h \in MCHolds |->
     CASE h = "A0" -> <<c.a, 4 + c.a, 10>>
       [] h = "A1" -> <<(c.a + 1) % 4, 4 + ((c.a + 1) % 4), 10>>
       [] h = "B0" -> <<c.b, 8 + (c.a % 2), 11>>]
MCView(c, h) == Views[c, h]

MCScanCubes == {[a |-> 2, b |-> 1], [a |-> 1, b |-> 0]}
MCLowCubes == {[a |-> 2, b |-> 0], [a |-> 1, b |-> 0]}
MCOneCube == {[a |-> 3, b |-> 0]}
MCHandMoves == {Move("A", 3), Move("A", 2), Move("B", 1)}

\* The move asked for, which turns side A as a roll does, and another one.
MCTwoTurns == {Move("A", 1), Move("B", 1)}
=============================================================================
