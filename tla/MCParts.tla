------------------------------ MODULE MCParts ------------------------------
(***************************************************************************)
(* Two controls of which one can be set, with a first lock that may fail   *)
(* to read them back, a ring of two slots, two tabs, a scan whose looks    *)
(* lie near, loosely near and far apart, and two faces that share an edge. *)
(***************************************************************************)
EXTENDS Parts

MCFound ==
  LET one == CHOOSE c \in Controls : TRUE
  IN {[c \in Controls |-> IF c = one THEN "manual" ELSE "continuous"]}
MCLooks == {0, 4, 6, 12}
MCTurns == {0, 1, 3}
MCFaces == {"U", "R"}
MCEdges == {"UF", "UL", "UB", "UR", "BR", "DR", "FR"}
MCEdgesOf == [U |-> <<"UF", "UL", "UB", "UR">>, R |-> <<"UR", "BR", "DR", "FR">>]
=============================================================================
