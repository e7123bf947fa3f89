---------------------------- MODULE MCSwitchkins ----------------------------
(* Small instances of Switchkins for TLC: the three valid types and one   *)
(* value kinematicsSwitch rejects.                                         *)
EXTENDS Switchkins

MCRequests == 0 .. 3
MCGenser == {"genser"}
MCAll == {"genser", "genhex", "xyzac", "xyzbc"}
MCTrt == {"xyzac", "xyzbc"}
=============================================================================
