--------------------------- MODULE Identity_proofs ---------------------------
(***************************************************************************)
(* Proofs about identityKinematicsSetup/Forward/Inverse (kins_util.c) for  *)
(* every joint count, axis set and value set: the type invariant, the      *)
(* inductive invariant IInv and ForwardCopies for every table the mapper   *)
(* returns, duplicate letters included; InverseCovers for the tables the   *)
(* switchable modules load (DISALLOW_DUPLICATES), the only ones it holds   *)
(* for.                                                                    *)
(***************************************************************************)
EXTENDS Identity, WellFoundedInduction, TLAPS

\* A non-empty set of joints has a highest joint.  The maximum is taken as
\* the minimum of the distances EMCMOT_MAX_JOINTS - 1 - k, which < on Nat
\* being well-founded provides without an induction.
LEMMA LastJointExists ==
    ASSUME NEW T \in SUBSET Joints, T # {}
    PROVE  \E c \in T : \A k \in T : k <= c
<1> DEFINE N == EMCMOT_MAX_JOINTS - 1
           D == {N - k : k \in T}
<1>1. D \subseteq Nat /\ D # {}
  BY MaxJointsAssumption DEF Joints
<1>2. PICK x \in D : \A y \in D : ~(<<y, x>> \in OpToRel(<, Nat))
  BY <1>1, NatLessThanWellFounded, WFMin
<1>3. ASSUME NEW y \in D PROVE x <= y
  <2>1. y \in Nat /\ x \in Nat
    BY <1>1
  <2>2. y < x => <<y, x>> \in OpToRel(<, Nat)
    BY <2>1, Zenon DEF OpToRel
  <2>3. ~(y < x)
    BY <1>2, <2>2
  <2>. QED
    BY <2>1, <2>3
<1>4. PICK c \in T : x = N - c
  OBVIOUS
<1>5. ASSUME NEW k \in T PROVE k <= c
  <2>1. N - k \in D
    OBVIOUS
  <2>2. x <= N - k
    BY <1>3, <2>1
  <2>3. k \in Int /\ c \in Int /\ N \in Int
    BY MaxJointsAssumption DEF Joints
  <2>. QED
    BY <1>4, <2>2, <2>3
<1>. QED
  BY <1>5

\* The loop of identityKinematicsSetup leaves in J, for an axis some joint
\* names, the last joint that names it.
LEMMA AssignLast ==
    ASSUME NEW t \in [Joints -> Axes \cup {Unassigned}], NEW a \in Axes,
           \E j \in Joints : t[j] = a
    PROVE  /\ AssignJoints(t)[a] \in Joints
           /\ t[AssignJoints(t)[a]] = a
           /\ \A k \in Joints : t[k] = a => k <= AssignJoints(t)[a]
<1>1. \E c \in Joints : t[c] = a /\ \A k \in Joints : t[k] = a => k <= c
  <2>1. \E c \in {j \in Joints : t[j] = a} : \A k \in {j \in Joints : t[j] = a} : k <= c
    BY LastJointExists
  <2>. QED
    BY <2>1
<1>2. LET c == CHOOSE c \in Joints : t[c] = a /\ \A k \in Joints : t[k] = a => k <= c
      IN  c \in Joints /\ t[c] = a /\ \A k \in Joints : t[k] = a => k <= c
  BY <1>1
<1>. QED
  BY <1>2 DEF AssignJoints

\* An axis that no joint names keeps its entry in J.
LEMMA AssignNone ==
    ASSUME NEW t, NEW a \in Axes, ~\E j \in Joints : t[j] = a
    PROVE  AssignJoints(t)[a] = J[a]
BY DEF AssignJoints

\* The tables the mapper returns are tables of axes and -1.
LEMMA MapResultsType == MapResults \subseteq [Joints -> Axes \cup {Unassigned}]
BY AxisSetAssumption DEF MapResults, Axes

LEMMA IInvInit == Init => IInv
<1> SUFFICES ASSUME Init PROVE IInv
  OBVIOUS
<1>1. DefaultVal \in Vals
  BY ValsAssumption DEF DefaultVal
<1>. QED
  BY <1>1 DEF Init, IInv, TypeOK, JointArgs, Unassigned, Joints, Axes

\* Every step preserves IInv.
LEMMA IInvStep == IInv /\ [Next]_vars => IInv'
<1> SUFFICES ASSUME IInv, [Next]_vars PROVE IInv'
  OBVIOUS
<1>1. CASE SetupMapFails
  BY <1>1 DEF SetupMapFails, IInv, TypeOK
<1>2. CASE identityKinematicsSetup
  <2>1. PICK t \in MapResults : axis_idx_for_jno' = t /\ J' = AssignJoints(t)
    BY <1>2 DEF identityKinematicsSetup
  <2>2. J = [a \in Axes |-> Unassigned] /\ last.call = "none"
    BY <1>2 DEF identityKinematicsSetup, IInv
  <2>3. t \in [Joints -> Axes \cup {Unassigned}]
    BY MapResultsType
  <2>4. ASSUME NEW a \in Axes
        PROVE  IF JointsOf(a)' = {} THEN J'[a] = Unassigned
                                    ELSE J'[a] \in JointsOf(a)' /\ \A k \in JointsOf(a)' : k <= J'[a]
    <3>1. CASE \E j \in Joints : t[j] = a
      <4>1. /\ J'[a] \in Joints /\ t[J'[a]] = a
            /\ \A k \in Joints : t[k] = a => k <= J'[a]
        BY <2>1, <2>3, <3>1, AssignLast
      <4>. QED
        BY <2>1, <3>1, <4>1 DEF JointsOf
    <3>2. CASE ~\E j \in Joints : t[j] = a
      <4>1. J'[a] = Unassigned
        BY <2>1, <2>2, <3>2, AssignNone
      <4>. QED
        BY <2>1, <3>2, <4>1 DEF JointsOf
    <3>. QED
      BY <3>1, <3>2
  <2>5. J' \in [Axes -> Joints \cup {-1}]
    <3>1. J' = [a \in Axes |-> J'[a]]
      BY <2>1 DEF AssignJoints
    <3>2. \A a \in Axes : J'[a] \in Joints \cup {-1}
      BY <2>4 DEF JointsOf, Unassigned
    <3>. QED
      BY <3>1, <3>2
  <2>6. JointOfAxis'
    BY <2>4 DEF JointOfAxis
  <2>. QED
    BY <1>2, <2>1, <2>3, <2>5, <2>6 DEF identityKinematicsSetup, IInv, TypeOK
<1>3. CASE identityKinematicsForward
  <2>1. PICK jv \in JointArgs :
            /\ pos' = [a \in Axes |-> IF J[a] >= 0 THEN jv[J[a]] ELSE pos[a]]
            /\ joints' = jv
            /\ last' = [call |-> "fwd", arg |-> jv]
    BY <1>3 DEF identityKinematicsForward
  <2>2. pos' \in [Axes -> Vals]
    BY <2>1 DEF IInv, TypeOK, JointArgs, Joints
  <2>. QED
    BY <1>3, <2>1, <2>2 DEF identityKinematicsForward, IInv, TypeOK, JointOfAxis,
                            JointsOf
<1>4. CASE identityKinematicsInverse
  <2>1. PICK p \in PoseArgs :
            /\ joints' = [j \in Joints |->
                            IF \E a \in Axes : J[a] = j
                               THEN p[CHOOSE a \in Axes : J[a] = j] ELSE joints[j]]
            /\ last' = [call |-> "inv", arg |-> p]
    BY <1>4 DEF identityKinematicsInverse
  <2>2. p \in [Axes -> Vals]
    BY DEF PoseArgs
  <2>3. joints' \in JointArgs
    BY <2>1, <2>2 DEF IInv, TypeOK, JointArgs
  <2>. QED
    BY <1>4, <2>1, <2>3 DEF identityKinematicsInverse, IInv, TypeOK, JointOfAxis,
                            JointsOf
<1>5. CASE UNCHANGED vars
  BY <1>5 DEF vars, IInv, TypeOK, JointOfAxis, JointsOf
<1>. QED
  BY <1>1, <1>2, <1>3, <1>4, <1>5 DEF Next, kinematicsHome

\* IInv holds in every reachable state, with or without duplicate letters.
THEOREM IInvariant == Spec => []IInv
<1>. QED
  BY IInvInit, IInvStep, PTL DEF Spec

\* Every variable of the identity model keeps the range of its C
\* declaration (the _JX.._JW statics, the table, the caller's buffers).
THEOREM TypeCorrect == Spec => []TypeOK
<1>1. IInv => TypeOK
  BY DEF IInv
<1>. QED
  BY <1>1, IInvariant, PTL

-----------------------------------------------------------------------------
\* In a state of IInv after setup, an axis has a joint in J exactly when
\* some joint names it, and then J holds the last joint that names it.
LEMMA JointOfAxisFacts ==
    ASSUME IInv, phase = "ready", NEW a \in Axes
    PROVE  /\ JointsOf(a) = {} => J[a] = Unassigned
           /\ JointsOf(a) # {} => /\ J[a] \in Joints
                                  /\ axis_idx_for_jno[J[a]] = a
                                  /\ \A k \in JointsOf(a) : k <= J[a]
BY DEF IInv, JointOfAxis, JointsOf

\* Without duplicate letters that joint is the only one naming the axis.
LEMMA UniqueJoint ==
    ASSUME AllowDuplicates = 0, IInv, phase = "ready", NEW a \in Axes,
           JointsOf(a) # {}
    PROVE  JointsOf(a) = {J[a]}
<1>1. axis_idx_for_jno \in MapResults /\ J[a] \in JointsOf(a)
  BY DEF IInv, JointOfAxis
<1>. QED
  BY <1>1 DEF MapResults, JointsOf, Axes, Unassigned

\* Before setup no call has been made.
LEMMA NoCallBeforeSetup ==
    ASSUME IInv, phase # "ready" PROVE last.call = "none"
BY DEF IInv

\* Every step satisfies the step formula of ForwardCopies.
LEMMA ForwardStep == IInv /\ [Next]_vars => [ForwardCopiesStep]_vars
<1> SUFFICES ASSUME IInv, [Next]_vars PROVE [ForwardCopiesStep]_vars
  OBVIOUS
<1>1. CASE identityKinematicsForward
  <2>1. PICK jv \in JointArgs :
            /\ pos' = [a \in Axes |-> IF J[a] >= 0 THEN jv[J[a]] ELSE pos[a]]
            /\ last' = [call |-> "fwd", arg |-> jv]
    BY <1>1 DEF identityKinematicsForward
  <2>2. phase = "ready" /\ UNCHANGED axis_idx_for_jno
    BY <1>1 DEF identityKinematicsForward
  <2>3. ASSUME NEW a \in Axes
        PROVE  IF JointsOf(a) = {} THEN pos'[a] = pos[a]
               ELSE \E j \in JointsOf(a) : pos'[a] = last'.arg[j]
    <3>1. CASE JointsOf(a) = {}
      BY <2>1, <2>2, <3>1, JointOfAxisFacts DEF Unassigned
    <3>2. CASE JointsOf(a) # {}
      <4>1. J[a] \in Joints /\ J[a] \in JointsOf(a)
        BY <2>2, <3>2, JointOfAxisFacts DEF JointsOf
      <4>2. pos'[a] = last'.arg[J[a]]
        BY <2>1, <4>1 DEF Joints
      <4>. QED
        BY <3>2, <4>1, <4>2
    <3>. QED
      BY <3>1, <3>2
  <2>. QED
    BY <2>1, <2>3 DEF ForwardCopiesStep
<1>2. CASE identityKinematicsInverse
  BY <1>2 DEF identityKinematicsInverse, ForwardCopiesStep
<1>3. CASE SetupMapFails \/ identityKinematicsSetup
  <2>1. phase # "ready" /\ UNCHANGED last
    BY <1>3 DEF SetupMapFails, identityKinematicsSetup
  <2>. QED
    BY <2>1, NoCallBeforeSetup DEF ForwardCopiesStep
<1>4. CASE UNCHANGED vars
  BY <1>4 DEF vars
<1>. QED
  BY <1>1, <1>2, <1>3, <1>4 DEF Next, kinematicsHome

\* ForwardCopies (identityKinematicsForward): for every table the mapper
\* returns, duplicate letters included, every axis a joint drives gets the
\* value of one of its joints (the last) and every
\* other pose field keeps its value, for every joint count and value set.
THEOREM ForwardCopiesHolds == Spec => ForwardCopies
<1>. QED
  BY IInvariant, ForwardStep, PTL DEF Spec, ForwardCopies

\* Every step satisfies the step formula of InverseCovers.
LEMMA InverseStep ==
    ASSUME AllowDuplicates = 0
    PROVE  IInv /\ [Next]_vars => [InverseCoversStep]_vars
<1> SUFFICES ASSUME IInv, [Next]_vars PROVE [InverseCoversStep]_vars
  OBVIOUS
<1>1. CASE identityKinematicsInverse
  <2>1. PICK p \in PoseArgs :
            /\ joints' = [j \in Joints |->
                            IF \E a \in Axes : J[a] = j
                               THEN p[CHOOSE a \in Axes : J[a] = j] ELSE joints[j]]
            /\ last' = [call |-> "inv", arg |-> p]
    BY <1>1 DEF identityKinematicsInverse
  <2>2. phase = "ready"
    BY <1>1 DEF identityKinematicsInverse
  <2>3. axis_idx_for_jno \in [Joints -> Axes \cup {Unassigned}]
    BY DEF IInv, TypeOK
  \* An axis whose entry in J is joint j is the axis the table gives j.
  <2>4. ASSUME NEW j \in Joints, NEW a \in Axes, J[a] = j
        PROVE  axis_idx_for_jno[j] = a
    <3>1. JointsOf(a) # {}
      BY <2>2, <2>4, JointOfAxisFacts DEF Joints, Unassigned
    <3>. QED
      BY <2>2, <2>4, <3>1, JointOfAxisFacts
  <2>5. ASSUME NEW j \in Joints
        PROVE  joints'[j] = IF axis_idx_for_jno[j] = Unassigned THEN joints[j]
                            ELSE last'.arg[axis_idx_for_jno[j]]
    <3>1. CASE axis_idx_for_jno[j] = Unassigned
      <4>1. ~\E a \in Axes : J[a] = j
        BY <2>4, <3>1 DEF Axes, Unassigned
      <4>. QED
        BY <2>1, <3>1, <4>1
    <3>2. CASE axis_idx_for_jno[j] # Unassigned
      <4>1. axis_idx_for_jno[j] \in Axes
        BY <2>3, <3>2
      <4>2. J[axis_idx_for_jno[j]] = j
        BY <2>2, <4>1, UniqueJoint, JointOfAxisFacts DEF JointsOf
      <4>3. (CHOOSE a \in Axes : J[a] = j) = axis_idx_for_jno[j]
        <5>1. \E a \in Axes : J[a] = j
          BY <4>1, <4>2
        <5>2. LET c == CHOOSE a \in Axes : J[a] = j IN c \in Axes /\ J[c] = j
          BY <5>1
        <5>. QED
          BY <5>2, <2>4
      <4>. QED
        BY <2>1, <3>2, <4>1, <4>2, <4>3
    <3>. QED
      BY <3>1, <3>2
  <2>. QED
    BY <2>1, <2>5 DEF InverseCoversStep
<1>2. CASE identityKinematicsForward
  BY <1>2 DEF identityKinematicsForward, InverseCoversStep
<1>3. CASE SetupMapFails \/ identityKinematicsSetup
  <2>1. phase # "ready" /\ UNCHANGED last
    BY <1>3 DEF SetupMapFails, identityKinematicsSetup
  <2>. QED
    BY <2>1, NoCallBeforeSetup DEF InverseCoversStep
<1>4. CASE UNCHANGED vars
  BY <1>4 DEF vars
<1>. QED
  BY <1>1, <1>2, <1>3, <1>4 DEF Next, kinematicsHome

\* InverseCovers (identityKinematicsInverse): for a table without
\* duplicates, every joint the mapper assigned gets its axis's pose value
\* and every other joint keeps its value, for every joint count.
THEOREM InverseCoversHolds == AllowDuplicates = 0 => (Spec => InverseCovers)
<1> SUFFICES ASSUME AllowDuplicates = 0 PROVE Spec => InverseCovers
  OBVIOUS
<1>. QED
  BY IInvariant, InverseStep, PTL DEF Spec, InverseCovers
=============================================================================
