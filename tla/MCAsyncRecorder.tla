--------------------------- MODULE MCAsyncRecorder ---------------------------
(***************************************************************************)
(* A recorder whose queue holds two frames, of which five are pushed to a  *)
(* recording: enough to fill it, drop one, and fail with frames waiting.   *)
(* The ring has two places, so the fifth pass replaces a file that has     *)
(* itself replaced one.                                                    *)
(***************************************************************************)
EXTENDS AsyncRecorder
=============================================================================
