------------------------------- MODULE FrameLog -------------------------------
(***************************************************************************)
(* FrameLog: what a recording promises of the frames offered to it.  Every *)
(* frame is offered once, and its fate is decided once.  Frames are        *)
(* written in the order they were offered; one is lost only when           *)
(* RoomFor frames already wait, or once the recording has broken, after    *)
(* which nothing more is written; and a recording that is closed has       *)
(* decided every frame.                                                    *)
(***************************************************************************)
EXTENDS Naturals, Sequences, FiniteSets

CONSTANT RoomFor  \* how many frames can wait

VARIABLES
  open,    \* a recording is being made
  fate,    \* of each frame offered, in order: "waiting", "written" or "lost"
  broken   \* writing has failed

logVars == <<open, fate, broken>>

Waiting == {i \in DOMAIN fate : fate[i] = "waiting"}

LogInit == open = FALSE /\ fate = <<>> /\ broken = FALSE

Open == ~open /\ open' = TRUE /\ fate' = <<>> /\ broken' = FALSE

\* A frame offered waits its turn, or is lost at once.
Accept == ~broken /\ fate' = Append(fate, "waiting")
Lose == (broken \/ Cardinality(Waiting) >= RoomFor) /\ fate' = Append(fate, "lost")
Offer == open /\ (Accept \/ Lose) /\ UNCHANGED <<open, broken>>

\* The frame that has waited longest is written.
Write ==
  /\ ~broken
  /\ \E i \in Waiting :
       /\ \A j \in Waiting : i <= j
       /\ fate' = [fate EXCEPT ![i] = "written"]
  /\ UNCHANGED <<open, broken>>

\* Writing fails: every frame still waiting is lost.
Break ==
  /\ Waiting # {} /\ ~broken
  /\ fate' = [i \in DOMAIN fate |-> IF i \in Waiting THEN "lost" ELSE fate[i]]
  /\ broken' = TRUE
  /\ UNCHANGED open

Close == open /\ Waiting = {} /\ open' = FALSE /\ UNCHANGED <<fate, broken>>

LogNext == Open \/ Offer \/ Write \/ Break \/ Close

LogSpec == LogInit /\ [][LogNext]_logVars
=============================================================================
