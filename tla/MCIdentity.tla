----------------------------- MODULE MCIdentity -----------------------------
(* Small instances of Identity for TLC: three joints, strings over X Y Z,  *)
(* two joint values.  max_joints is EMCMOT_MAX_JOINTS, as trivkins and    *)
(* xyzac/xyzbc pass; allow_duplicates 0 as the switchkins modules pass and *)
(* 1 as trivkins passes.                                                   *)
EXTENDS Identity

MCMaxJoints == 3
MCAxisSet == {0, 1, 2}
MCVals == {0, 1}
=============================================================================
