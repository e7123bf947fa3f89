------------------------------ MODULE Identity ------------------------------
(***************************************************************************)
(* Identity kinematics of kins_util.c: identityKinematicsSetup() builds    *)
(* the per-axis joint numbers _JX .. _JW (here the function J) from the    *)
(* table that map_coordinates_to_jnumbers() returns, and                   *)
(* identityKinematicsForward/Inverse copy values between the joints and    *)
(* the pose fields through J.  The mapper is modelled step by step in      *)
(* CoordMap; here its successful results are the prefix-filled tables     *)
(* CoordMap's MapCorrect run shows it returns.  Joint and pose values are  *)
(* taken from a small set Vals; the caller (trivkins and the switchkins    *)
(* modules) keeps one joint array and one pose buffer across calls.        *)
(***************************************************************************)
EXTENDS Integers

CONSTANTS
    EMCMOT_MAX_JOINTS,  \* entries of axis_idx_for_jno[]
    MaxJointsArg,       \* the max_joints the loading module passes
    AllowDuplicates,    \* the allow_duplicates the loading module passes
    AxisSet,            \* the axes the coordinates strings may name
    Vals                \* joint and pose values

ASSUME MaxJointsAssumption == EMCMOT_MAX_JOINTS \in Nat \ {0}
ASSUME MaxJointsArgAssumption == MaxJointsArg \in 1 .. EMCMOT_MAX_JOINTS
ASSUME AllowDuplicatesAssumption == AllowDuplicates \in {0, 1}
ASSUME AxisSetAssumption == AxisSet \subseteq 0 .. 8
ASSUME ValsAssumption == Vals # {}

Axes == 0 .. 8                        \* X Y Z A B C U V W
Joints == 0 .. EMCMOT_MAX_JOINTS - 1
Unassigned == -1

\* The tables a successful map_coordinates_to_jnumbers() leaves: letters
\* for joints 0 .. k-1 with 1 <= k <= max_joints, -1 after them, and no
\* axis twice unless duplicates are allowed.
MapResults ==
    { t \in [Joints -> AxisSet \cup {Unassigned}] :
        /\ \E k \in 1 .. MaxJointsArg : \A j \in Joints : t[j] = Unassigned <=> j >= k
        /\ AllowDuplicates = 0 =>
              \A i, j \in Joints : t[i] = t[j] /\ t[i] # Unassigned => i = j }

\* A pose buffer or a joint array handed in by the caller (the fields of
\* axes no string names hold one fixed value).
DefaultVal == CHOOSE v \in Vals : TRUE
PoseArgs == { p \in [Axes -> Vals] : \A a \in Axes \ AxisSet : p[a] = DefaultVal }
JointArgs == [Joints -> Vals]

VARIABLES
    phase,             \* "loading" until identityKinematicsSetup returned
    axis_idx_for_jno,  \* the static table of identityKinematicsSetup
    J,                 \* the statics _JX .. _JW: joint of each axis or -1
    inited,            \* identity_kinematics_inited
    joints,            \* the caller's joint array
    pos,               \* the caller's pose buffer
    last               \* the last call and its argument

vars == <<phase, axis_idx_for_jno, J, inited, joints, pos, last>>

Init ==
    /\ phase = "loading"
    /\ axis_idx_for_jno = [j \in Joints |-> 0]
    /\ J = [a \in Axes |-> -1]
    /\ inited = 0
    /\ joints \in JointArgs
    /\ pos = [a \in Axes |-> DefaultVal]
    /\ last = [call |-> "none", arg |-> joints]

\* Fault variants (for the checks) of the loop over axis_idx_for_jno[]:
\* one entry past the end (a zeroed static word, read as axis X), and one
\* entry short.
AssignJointsPastEnd(t) ==
    LET t2 == [j \in 0 .. EMCMOT_MAX_JOINTS |-> IF j \in Joints THEN t[j] ELSE 0]
    IN  [a \in Axes |-> IF \E j \in DOMAIN t2 : t2[j] = a
                           THEN CHOOSE j \in DOMAIN t2 :
                                  t2[j] = a /\ \A k \in DOMAIN t2 : t2[k] = a => k <= j
                           ELSE J[a]]
AssignJointsShort(t) ==
    LET S == 0 .. EMCMOT_MAX_JOINTS - 2
    IN  [a \in Axes |-> IF \E j \in S : t[j] = a
                           THEN CHOOSE j \in S : t[j] = a /\ \A k \in S : t[k] = a => k <= j
                           ELSE J[a]]

\* The loop over jno = 0 .. EMCMOT_MAX_JOINTS-1 setting _JX = jno when
\* entry jno names X, and so on: the last joint naming an axis wins, and an
\* axis no joint names keeps its old value.
AssignJoints(t) ==
    [a \in Axes |-> IF \E j \in Joints : t[j] = a
                       THEN CHOOSE j \in Joints : t[j] = a /\ \A k \in Joints : t[k] = a => k <= j
                       ELSE J[a]]

\* identityKinematicsSetup: the mapping fails (the loading module fails),
\* or J is built from the table and inited is set.
SetupMapFails ==
    /\ phase = "loading"
    /\ phase' = "failed"
    /\ UNCHANGED <<axis_idx_for_jno, J, inited, joints, pos, last>>

identityKinematicsSetup ==
    /\ phase = "loading"
    /\ \E t \in MapResults :
          /\ axis_idx_for_jno' = t
          /\ J' = AssignJoints(t)
    /\ inited' = 1
    /\ phase' = "ready"
    /\ UNCHANGED <<joints, pos, last>>

\* identityKinematicsForward: each axis with a joint gets that joint's
\* value; the other pose fields keep theirs.
identityKinematicsForward ==
    /\ phase = "ready" /\ inited = 1
    /\ \E jv \in JointArgs :
          /\ pos' = [a \in Axes |-> IF J[a] >= 0 THEN jv[J[a]] ELSE pos[a]]
          /\ joints' = jv
          /\ last' = [call |-> "fwd", arg |-> jv]
    /\ UNCHANGED <<phase, axis_idx_for_jno, J, inited>>

\* Fault variant (for the checks): the guard if (_JX >= 0) written > 0.
identityKinematicsInverseGuardOff ==
    /\ phase = "ready" /\ inited = 1
    /\ \E p \in PoseArgs :
          /\ joints' = [j \in Joints |->
                          IF \E a \in Axes : J[a] = j /\ J[a] > 0
                             THEN p[CHOOSE a \in Axes : J[a] = j] ELSE joints[j]]
          /\ last' = [call |-> "inv", arg |-> p]
    /\ UNCHANGED <<phase, axis_idx_for_jno, J, inited, pos>>

\* identityKinematicsInverse: joints[_JX] = pos->tran.x and so on for every
\* axis with a joint; no two axes share a joint, so the order of the nine
\* writes does not matter; the other joints keep their values.
identityKinematicsInverse ==
    /\ phase = "ready" /\ inited = 1
    /\ \E p \in PoseArgs :
          /\ joints' = [j \in Joints |->
                          IF \E a \in Axes : J[a] = j
                             THEN p[CHOOSE a \in Axes : J[a] = j] ELSE joints[j]]
          /\ last' = [call |-> "inv", arg |-> p]
    /\ UNCHANGED <<phase, axis_idx_for_jno, J, inited, pos>>

\* trivkins' kinematicsHome: the flags are cleared and the call is
\* kinematicsForward's, which is identityKinematicsForward.
kinematicsHome == identityKinematicsForward

Next ==
    \/ SetupMapFails
    \/ identityKinematicsSetup
    \/ identityKinematicsForward
    \/ identityKinematicsInverse
    \/ kinematicsHome

Spec == Init /\ [][Next]_vars

-----------------------------------------------------------------------------
\* Every variable keeps the range of its C declaration.
TypeOK ==
    /\ phase \in {"loading", "ready", "failed"}
    /\ axis_idx_for_jno \in [Joints -> Axes \cup {Unassigned}]
    /\ J \in [Axes -> Joints \cup {-1}]
    /\ inited \in {0, 1}
    /\ joints \in JointArgs
    /\ pos \in [Axes -> Vals]
    /\ last \in [call : {"none", "fwd", "inv"}, arg : JointArgs \cup PoseArgs]

\* The joints the mapper assigned to axis a.
JointsOf(a) == {j \in Joints : axis_idx_for_jno[j] = a}

\* identityKinematicsForward (spec 4.2): every axis that some joint drives
\* gets the value of one of its joints, and every other pose field is left
\* as it was.
ForwardCopiesStep ==
    last'.call = "fwd" =>
        \A a \in Axes :
           IF JointsOf(a) = {} THEN pos'[a] = pos[a]
           ELSE \E j \in JointsOf(a) : pos'[a] = last'.arg[j]
ForwardCopies == [][ForwardCopiesStep]_vars

\* identityKinematicsInverse (spec 4.2, 8): every joint the mapper assigned
\* to an axis receives that axis's pose value (all joints of a duplicated
\* letter, e.g. {0,1} for X in "XXYZ"), and unassigned joints are untouched.
InverseCoversStep ==
    last'.call = "inv" =>
        \A j \in Joints :
           joints'[j] = IF axis_idx_for_jno[j] = Unassigned THEN joints[j]
                        ELSE last'.arg[axis_idx_for_jno[j]]
InverseCovers == [][InverseCoversStep]_vars

-----------------------------------------------------------------------------
(***************************************************************************)
(* The inductive invariant the proofs rest on: until setup has run, no     *)
(* axis has a joint and no call was made; after it, the table is one the   *)
(* mapper returns, every axis that a joint names has in J the last of      *)
(* those joints (the search of AssignJoints keeps the highest index, as   *)
(* the loop of identityKinematicsSetup overwrites J), every other axis -1. *)
(***************************************************************************)
JointOfAxis ==
    \A a \in Axes : IF JointsOf(a) = {} THEN J[a] = Unassigned
                    ELSE J[a] \in JointsOf(a) /\ \A k \in JointsOf(a) : k <= J[a]
IInv ==
    /\ TypeOK
    /\ phase # "ready" => /\ J = [a \in Axes |-> Unassigned]
                          /\ last.call = "none"
    /\ phase = "ready" => /\ axis_idx_for_jno \in MapResults
                          /\ JointOfAxis
=============================================================================
