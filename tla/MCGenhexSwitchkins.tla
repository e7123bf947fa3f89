------------------------- MODULE MCGenhexSwitchkins -------------------------
(***************************************************************************)
(* Model-checking instance of GenhexSwitchkins: the motion controller may  *)
(* request the three valid types and one out-of-range value (3), and a     *)
(* forward solve may produce one of two poses, enough to tell the latest   *)
(* pose of a model from an older one.                                      *)
(***************************************************************************)
EXTENDS GenhexSwitchkins

MCRequests == 0 .. 3
MCNVals == 2
=============================================================================
