------------------------------- MODULE Parts -------------------------------
(***************************************************************************)
(* Five parts that share no state with the rest of the program or with     *)
(* each other: the browser's camera, the profile recorder, the page's      *)
(* isolation, the sides of a scan and the merging of moves. A behaviour is *)
(* one of one of them, chosen at the start; the others stand still.        *)
(***************************************************************************)
EXTENDS WebCamera, ProfileRecorder, PageIsolation, SideScan, MoveMerging

VARIABLE part

partsVars == <<part, vars, recorderVars, isolationVars, sidesVars, mergingVars>>

-----------------------------------------------------------------------------
PartsInit ==
  /\ part \in {"camera", "recorder", "isolation", "scan", "merging"}
  /\ Init /\ RecorderInit /\ IsolationInit /\ SidesInit /\ MergingInit
  /\ part # "isolation" => ~served /\ ~able /\ ~honoured

Camera(step) ==
  /\ part = "camera" /\ step
  /\ UNCHANGED <<part, recorderVars, isolationVars, sidesVars, mergingVars>>

PartsNext ==
  \/ Camera(Next)
  \/ /\ part = "recorder" /\ RecorderNext
     /\ UNCHANGED <<part, vars, isolationVars, sidesVars, mergingVars>>
  \/ /\ part = "isolation" /\ IsolationNext
     /\ UNCHANGED <<part, vars, recorderVars, sidesVars, mergingVars>>
  \/ /\ part = "scan" /\ SidesNext
     /\ UNCHANGED <<part, vars, recorderVars, isolationVars, mergingVars>>
  \/ /\ part = "merging" /\ MergingNext
     /\ UNCHANGED <<part, vars, recorderVars, isolationVars, sidesVars>>

(* The camera's fairness, of behaviours that are the camera's.             *)
PartsSpec ==
  PartsInit /\ [][PartsNext]_partsVars
  /\ WF_partsVars(Camera(\E s \in Requests : PageStep(s)))

-----------------------------------------------------------------------------
(* The variables of every part have their types.                           *)
PartsTypeOK ==
  TypeOK /\ RecorderTypeOK /\ IsolationTypeOK /\ SidesTypeOK /\ MergingTypeOK
=============================================================================
