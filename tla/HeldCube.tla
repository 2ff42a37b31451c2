------------------------------- MODULE HeldCube -------------------------------
(***************************************************************************)
(* HeldCube: how the cube is held while it is solved, and whether the move *)
(* asked for has been made, from what the camera reads of one side.        *)
(*                                                                         *)
(* A read is the colours of the side's stickers and which of them were     *)
(* found.  A hold is one way of holding the cube; View(c, h) is what cube  *)
(* c held as h shows the camera.  The distance of a read from a hold is    *)
(* counted in stickers: one wrong sticker is worth more than               *)
(* kHoldClearDistance, and FitOff of them is the most kHoldFitDistance     *)
(* still accepts.                                                          *)
(*                                                                         *)
(* judged_cube_ is not kept: stateChanged follows every change of the      *)
(* current cube, so it always equals CurrentCube between steps.  Nor is    *)
(* previous_centre_: the frame after it was lost only sets it again.       *)
(***************************************************************************)
EXTENDS SolveController, FiniteSets, FiniteSetsExt

CONSTANTS
  Holds, StatedHold,     \* all_holds() and kStatedHold
  Up(_),                 \* hold.up
  Cells,                 \* the stickers of one side
  View(_, _),            \* camera_view(cube, hold), a function on Cells
  Faces,                 \* the sides a move can turn
  Apply(_, _),           \* cube.apply(move), a move being [face, turns]
  FitOff,                \* the most stickers a read may be off and still fit
  Trust, Accuse, Doubt   \* kFramesToTrust, kFramesToAccuse, kFramesToDoubt

ASSUME HoldAssumption ==
  /\ StatedHold \in Holds
  /\ FitOff \in Nat
  /\ Trust \in Nat \ {0} /\ Accuse \in Nat /\ Doubt \in Nat
  /\ Trust <= Accuse /\ Accuse <= Doubt

VARIABLES
  hold,        \* hold_: the hold the screen shows
  seen,        \* seen_
  sight,       \* sight_ with wrong_side_: [kind, side]
  last,        \* last_: the verdict of the last steady frame
  streak,      \* streak_: how many frames running have said it
  announced,   \* move_announced_
  matched      \* matched_this_move_

heldVars == <<hold, seen, sight, last, streak, announced, matched>>

-----------------------------------------------------------------------------
\* What the camera can say of the cube.
Sight(kind) == [kind |-> kind, side |-> None]
NoSight == Sight("none")
Verdict(kind, h, side) == [kind |-> kind, hold |-> h, side |-> side]
Say(kind) == Verdict(kind, None, None)
NoVerdict == Say("nothing")

\* stickers_off, and the distance fit() gives a hold.
Off(read, c, h) ==
  LET shown == View(c, h)
  IN Cardinality({i \in read.found : shown[i] # read.lab[i]})

\* read_hold: the distance of the best fit, and the holds that look the same as
\* it in the stickers found, none of which a hold that looks different comes
\* close to.  Holds at the same distance that look different rule each other out.
ReadHold(read, c) ==
  LET off == [h \in Holds |-> Off(read, c, h)]
      distance == Min({off[h] : h \in Holds})
      best == {h \in Holds : off[h] = distance}
      Alike(g, h) == \A i \in read.found : View(c, g)[i] = View(c, h)[i]
      clear == distance <= FitOff /\ (Cardinality(best) = 1 \/ \A g, h \in best : Alike(g, h))
  IN [distance |-> distance, holds |-> IF clear THEN best ELSE {}]

Move(face, turns) == [face |-> face, turns |-> turns]

\* The cube after the move asked for; only meaningful when there is one.
NextCube == Apply(CurrentCube, CurrentMove)

\* choose: the hold shown if the read fits it, else the one with the same side
\* on top, else nothing.
Choose(holds) ==
  IF Cardinality(holds) = 1 THEN CHOOSE h \in holds : TRUE
  ELSE IF hold \in holds THEN hold
  ELSE IF \E h \in holds : Up(h) = Up(hold)
  THEN CHOOSE h \in holds : Up(h) = Up(hold)
  ELSE None

SayOfHold(kind, holds) ==
  IF Choose(holds) = None THEN Say("unsure") ELSE Verdict(kind, Choose(holds), None)

\* half_way_there: one quarter of the half turn asked for.
HalfWayThere(read) ==
  /\ CurrentMove.turns = 2
  /\ \E t \in {1, 3} : hold \in ReadHold(read, Apply(CurrentCube, Move(CurrentMove.face, t))).holds

\* side_turned_instead: the sides one turn of which explains the read clearly
\* better than the cube as it stood does.
TurnedInstead(read) ==
  LET asItStood == ReadHold(read, CurrentCube).distance
      Explains(m) ==
        LET reading == ReadHold(read, Apply(CurrentCube, m))
        IN hold \in reading.holds /\ asItStood > reading.distance
  IN {f \in Faces : \E t \in 1..3 : Move(f, t) # CurrentMove /\ Explains(Move(f, t))}

\* Mutant of JudgeMistake: the side need not be seen whole, nor far from both.
JudgeMistakeHastily(read, next) ==
  IF seen /\ Cardinality(TurnedInstead(read)) = 1
  THEN Verdict("wrong", hold, CHOOSE f \in TurnedInstead(read) : TRUE)
  ELSE Say("unknown")

\* The last part of judge: neither cube shows this side.  Only a side seen
\* whole, with two stickers wrong for either cube, is called a mistake.
JudgeMistake(read, next) ==
  LET instead == TurnedInstead(read)
  IN IF \/ read.found # Cells
        \/ Off(read, CurrentCube, hold) < 2
        \/ Off(read, next, hold) < 2
        \/ CurrentMove # None /\ HalfWayThere(read)
     THEN NoVerdict
     ELSE IF seen /\ Cardinality(instead) = 1
     THEN Verdict("wrong", hold, CHOOSE f \in instead : TRUE)
     ELSE Say("unknown")

\* Mutant of Judge: a read that fits the cube after the move is taken for it.
JudgeEagerly(read) ==
  LET asked == CurrentMove # None
      next == IF asked THEN NextCube ELSE CurrentCube
      here == ReadHold(read, CurrentCube).holds
      there == IF asked THEN ReadHold(read, next).holds ELSE {}
  IN IF there # {} THEN SayOfHold("moved", there)
     ELSE IF hold \in here THEN Verdict("held", hold, None)
     ELSE IF here # {} THEN SayOfHold("held", here)
     ELSE JudgeMistake(read, next)

\* judge.  With nothing asked for, `there' is empty.
Judge(read) ==
  LET asked == CurrentMove # None
      next == IF asked THEN NextCube ELSE CurrentCube
      before == ReadHold(read, CurrentCube)
      after == ReadHold(read, next)
      here == before.holds
      there == IF asked THEN after.holds ELSE {}
  IN IF there # {} /\ before.distance > after.distance THEN SayOfHold("moved", there)
     ELSE IF hold \in here THEN Verdict("held", hold, None)
     ELSE IF hold \in there
     THEN IF matched THEN Verdict("moved", hold, None) ELSE Say("unsure")
     ELSE IF here # {} THEN SayOfHold("held", here)
     ELSE JudgeMistake(read, next)

-----------------------------------------------------------------------------
HeldInit ==
  /\ hold = StatedHold
  /\ seen = FALSE
  /\ sight = NoSight
  /\ last = NoVerdict
  /\ streak = 0
  /\ announced = FALSE
  /\ matched = FALSE

\* forget()
Forget == last' = NoVerdict /\ streak' = 0

\* Mutant of OnCubeChanged: the verdict on the move before goes on counting.
OnCubeChangedCountingOn ==
  /\ announced' = FALSE
  /\ matched' = FALSE
  /\ UNCHANGED <<hold, seen, sight, last, streak>>

\* stateChanged with another cube now expected.
OnCubeChanged ==
  /\ announced' = FALSE
  /\ matched' = FALSE
  /\ last' = NoVerdict
  /\ streak' = 0
  /\ UNCHANGED <<hold, seen, sight>>

OnStateChanged ==
  IF CurrentCube' # CurrentCube THEN OnCubeChanged ELSE UNCHANGED heldVars

\* solutionChanged, then the stateChanged that follows it.  A continuation keeps
\* the hold; a new cube starts from the stated one.  What was announced is only
\* forgotten for a continuation, or if the cube is another one.
OnSolutionChanged ==
  /\ Forget
  /\ matched' = FALSE
  /\ sight' = NoSight
  /\ announced' = (announced /\ ~continuation' /\ CurrentCube' = CurrentCube)
  /\ seen' = (seen /\ continuation')
  /\ hold' = IF continuation' THEN hold ELSE StatedHold

\* runningChanged with the camera no longer watching.
OnWatchingStopped ==
  /\ Forget
  /\ matched' = FALSE
  /\ sight' = NoSight
  /\ UNCHANGED <<hold, seen, announced>>

\* onFrameWatched, no side in view or a solve in flight.
FrameWithoutRead ==
  /\ Forget
  /\ sight' = NoSight
  /\ UNCHANGED <<hold, seen, announced, matched>>

\* onFrameWatched, a side in view that is not held still.
FrameUnsteady ==
  /\ last' = NoVerdict
  /\ streak' = 0
  /\ UNCHANGED <<hold, seen, sight, announced, matched>>

\* The streak is capped at Doubt: no threshold is above it.
Count(v) ==
  /\ last' = v
  /\ streak' = IF v # last THEN 1 ELSE IF streak < Doubt THEN streak + 1 ELSE streak

SetSightAfter(frames, s) ==
  /\ sight' = IF streak' >= frames THEN s ELSE sight
  /\ UNCHANGED <<hold, seen, announced, matched>>

\* A hold that has been seen for long enough is the one shown from now on.
Believe(v) == hold' = v.hold /\ seen' = TRUE /\ sight' = Sight("matched")

HeldFrame(v) ==
  IF streak' >= Trust
  THEN Believe(v) /\ matched' = TRUE /\ UNCHANGED announced
  ELSE UNCHANGED <<hold, seen, sight, announced, matched>>

\* The frame that says the move has been made: moveSeen is emitted.
SeesMove(v) == v.kind = "moved" /\ streak' >= Trust /\ ~announced

MovedFrame(v) ==
  IF SeesMove(v)
  THEN Believe(v) /\ announced' = TRUE /\ UNCHANGED matched
  ELSE UNCHANGED <<hold, seen, sight, announced, matched>>

\* onFrameWatched, a side held still: the verdict is counted and acted on.
FrameSteady(read) ==
  LET v == Judge(read)
  IN /\ Count(v)
     /\ CASE v.kind = "nothing" -> SetSightAfter(Trust, NoSight)
          [] v.kind = "held"    -> HeldFrame(v)
          [] v.kind = "moved"   -> MovedFrame(v)
          [] v.kind = "unsure"  -> SetSightAfter(Trust, Sight("unsure"))
          [] v.kind = "wrong"   -> SetSightAfter(Accuse, [kind |-> "wrong", side |-> v.side])
          [] v.kind = "unknown" -> SetSightAfter(Doubt, Sight("unknown"))

Kinds == {"nothing", "held", "moved", "unsure", "wrong", "unknown"}

\* The type of what HeldCube keeps.
HeldTypeOK ==
  /\ hold \in Holds
  /\ seen \in BOOLEAN
  /\ sight \in [kind : {"none", "matched", "unsure", "wrong", "unknown"}, side : Faces \cup {None}]
  /\ last \in [kind : Kinds, hold : Holds \cup {None}, side : Faces \cup {None}]
  /\ streak \in 0..Doubt
  /\ announced \in BOOLEAN
  /\ matched \in BOOLEAN

=============================================================================
