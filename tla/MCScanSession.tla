---------------------------- MODULE MCScanSession ----------------------------
(***************************************************************************)
(* A camera with two controls, that opens at most so often.  In the large  *)
(* run it may refuse to take one of them back, and nothing but a control   *)
(* is written.                                                             *)
(***************************************************************************)
EXTENDS ScanSession

MCControls == <<"autoWhiteBalance", "exposure">>
=============================================================================
