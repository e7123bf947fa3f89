-------------------------- MODULE GenhexSwitchkins --------------------------
(***************************************************************************)
(* The switchable dispatcher of genhex-switchkins.c: the model selector    *)
(* switchkins_type, the pose-continuity cache (lastpose, use_lastpose),    *)
(* the kinstype.is-N output pins, and the three calls the motion           *)
(* controller makes on it: kinematicsSwitch, kinematicsForward and         *)
(* kinematicsInverse.  Model 0 is the iterative hexapod solver, model 1    *)
(* identity kinematics and model 2 the switchtype2 extension slot.         *)
(*                                                                         *)
(* Data is abstracted: a pose is a record naming the model whose forward   *)
(* solve produced it (by) and which of NVals results it is (v); the zero   *)
(* pose of a static EmcPose has by = NoModel and v = 0.  The initial state *)
(* is the one rtapi_app_main leaves after a successful load.  The motion   *)
(* controller passes the same feedback buffer (pos) to every Forward call, *)
(* so pos holds the last pose Forward wrote.                               *)
(***************************************************************************)
EXTENDS Integers

CONSTANTS
    Requests,   \* the values the motion controller may pass to kinematicsSwitch
    NVals       \* how many different poses one forward solve may produce

ASSUME RequestsAssumption == Requests \subseteq Nat
ASSUME NValsAssumption == NVals \in Nat \ {0}

\* #define GENHEX_KTYPES 3: genhexkins, identity, switchtype2.
GENHEX_KTYPES == 3
KTypes == 0 .. GENHEX_KTYPES - 1
NoModel == -1

Pose == [by : KTypes \cup {NoModel}, v : 0 .. NVals]
\* A static EmcPose starts zeroed: the seed of a model never used before.
ZeroPose == [by |-> NoModel, v |-> 0]

\* Return codes of the model solvers after a successful load: the iterative
\* genhex solver may fail to converge; identity and switchtype2 are inited.
ForwardResults(k) == IF k = 0 THEN {0, -1} ELSE {0}
InverseResults(k) == IF k = 0 THEN {0, -1} ELSE {0}
\* genhex_gui_forward_kins() is outside this code: its result is unknown.
GuiResults == {0, -1}

Calls == {"none", "switch", "fwd", "inv"}

VARIABLES
    switchkins_type,  \* static hal_u32_t switchkins_type
    use_lastpose,     \* static int use_lastpose[GENHEX_KTYPES]
    lastpose,         \* static EmcPose lastpose[GENHEX_KTYPES]
    kinstype_is,      \* the pins kinstype.is-0 .. kinstype.is-2
    pos,              \* the caller's pose buffer passed to kinematicsForward
    produced,         \* history: the latest pose each model's solve produced
    last,             \* observation of the last call: what ran, from which seed
    oob               \* an array of GENHEX_KTYPES entries was indexed outside

vars == <<switchkins_type, use_lastpose, lastpose, kinstype_is, pos,
          produced, last, oob>>

\* The flag or pin pattern kinematicsSwitch writes: entry n set, the others
\* cleared; all cleared when n names no model (the default: branch).
OneHot(n) == [k \in KTypes |-> IF k = n THEN 1 ELSE 0]

Observation(call, ret, ran, seed, cached) ==
    [call |-> call, ret |-> ret, ran |-> ran, seed |-> seed, cached |-> cached]

\* rtapi_app_main has set switchkins_type = 0 and called kinematicsSwitch(0).
Init ==
    /\ switchkins_type = 0
    /\ use_lastpose = OneHot(0)
    /\ lastpose = [k \in KTypes |-> ZeroPose]
    /\ kinstype_is = OneHot(0)
    /\ pos = ZeroPose
    /\ produced = [k \in KTypes |-> ZeroPose]
    /\ last = Observation("none", 0, NoModel, ZeroPose, FALSE)
    /\ oob = FALSE

\* Fault variant (for the checks): use_lastpose[switchkins_type] = 1 moved
\* above the validating switch, so a rejected type writes past the array.
kinematicsSwitchFlagFirst(n) ==
    /\ switchkins_type' = n
    /\ use_lastpose' = [k \in KTypes \cup {n} |-> IF k = n THEN 1 ELSE 0]
    /\ kinstype_is' = OneHot(n)
    /\ last' = Observation("switch", IF n \in KTypes THEN 0 ELSE -1,
                           NoModel, ZeroPose, FALSE)
    /\ UNCHANGED <<lastpose, pos, produced, oob>>

\* kinematicsSwitch(new_kins_type): every seed flag is cleared, the selector
\* is overwritten before it is validated, and a valid type gets its pin and
\* its seed flag set.
kinematicsSwitch(n) ==
    /\ switchkins_type' = n
    /\ use_lastpose' = OneHot(n)
    /\ kinstype_is' = OneHot(n)
    /\ last' = Observation("switch", IF n \in KTypes THEN 0 ELSE -1,
                           NoModel, ZeroPose, FALSE)
    /\ UNCHANGED <<lastpose, pos, produced, oob>>

\* Fault variant (for the checks): the use_lastpose block dropped, so the
\* solve always starts from the caller's buffer.
ForwardSolveUnseeded(k) ==
    \E r \in ForwardResults(k), v \in 1 .. NVals, g \in GuiResults :
      LET result == [by |-> k, v |-> v]
      IN  /\ use_lastpose' = use_lastpose
          /\ pos' = result
          /\ lastpose' = [lastpose EXCEPT ![k] = result]
          /\ produced' = [produced EXCEPT ![k] = result]
          /\ last' = Observation("fwd", IF r # 0 THEN r ELSE g, k, pos, FALSE)
          /\ UNCHANGED <<switchkins_type, kinstype_is, oob>>

\* Fault variant (for the checks): save_lastpose moved below the solver's
\* error check, so a solve that did not converge leaves the cache alone.
ForwardSolveSaveOnSuccess(k) ==
    LET cached == use_lastpose[k] = 1
        start  == IF cached THEN lastpose[k] ELSE pos
    IN  \E r \in ForwardResults(k), v \in 1 .. NVals, g \in GuiResults :
          LET result == [by |-> k, v |-> v]
          IN  /\ use_lastpose' = [use_lastpose EXCEPT ![k] = 0]
              /\ pos' = result
              /\ lastpose' = IF r = 0 THEN [lastpose EXCEPT ![k] = result]
                                    ELSE lastpose
              /\ produced' = [produced EXCEPT ![k] = result]
              /\ last' = Observation("fwd", IF r # 0 THEN r ELSE g, k,
                                     start, cached)
              /\ UNCHANGED <<switchkins_type, kinstype_is, oob>>

\* kinematicsForward for a selector naming a model: seed the buffer from the
\* cache if a switch asked for it, run the model's solve, save its result in
\* the cache whether or not it converged, then compute the GUI pose.
ForwardSolve(k) ==
    LET cached == use_lastpose[k] = 1
        start  == IF cached THEN lastpose[k] ELSE pos
    IN  \E r \in ForwardResults(k), v \in 1 .. NVals, g \in GuiResults :
          LET result == [by |-> k, v |-> v]
          IN  /\ use_lastpose' = [use_lastpose EXCEPT ![k] = 0]
              /\ pos' = result
              /\ lastpose' = [lastpose EXCEPT ![k] = result]
              /\ produced' = [produced EXCEPT ![k] = result]
              /\ last' = Observation("fwd", IF r # 0 THEN r ELSE g, k,
                                     start, cached)
              /\ UNCHANGED <<switchkins_type, kinstype_is, oob>>

\* kinematicsForward for a selector naming no model: use_lastpose is read
\* (and, if the stray word is nonzero, lastpose read into the buffer and the
\* stray word cleared) outside the arrays before the switch rejects the type.
ForwardBadType ==
    /\ oob' = TRUE
    /\ \E p \in {pos} \cup Pose : pos' = p
    /\ last' = Observation("fwd", -1, NoModel, ZeroPose, FALSE)
    /\ UNCHANGED <<switchkins_type, use_lastpose, lastpose, kinstype_is,
                   produced>>

\* Fault variant (for the checks): the default: branch delegates to
\* identity kinematics, as genser-switchkins.c does.
kinematicsForwardDefaultIdentity ==
    IF switchkins_type \in {0, 2}
        THEN ForwardSolve(switchkins_type)
        ELSE ForwardSolve(1)

kinematicsForward ==
    IF switchkins_type \in KTypes
        THEN ForwardSolve(switchkins_type)
        ELSE ForwardBadType

\* kinematicsInverse: delegate to the selected model, no cache bookkeeping.
kinematicsInverse ==
    /\ IF switchkins_type \in KTypes
           THEN \E r \in InverseResults(switchkins_type) :
                    last' = Observation("inv", r, switchkins_type, ZeroPose, FALSE)
           ELSE last' = Observation("inv", -1, NoModel, ZeroPose, FALSE)
    /\ UNCHANGED <<switchkins_type, use_lastpose, lastpose, kinstype_is, pos,
                   produced, oob>>

Next ==
    \/ \E n \in Requests : kinematicsSwitch(n)
    \/ kinematicsForward
    \/ kinematicsInverse

Spec == Init /\ [][Next]_vars

-----------------------------------------------------------------------------
\* Every variable has the type the C declarations give it.
TypeOK ==
    /\ switchkins_type \in Nat
    /\ use_lastpose \in [KTypes -> {0, 1}]
    /\ lastpose \in [KTypes -> Pose]
    /\ kinstype_is \in [KTypes -> {0, 1}]
    /\ pos \in Pose
    /\ produced \in [KTypes -> Pose]
    /\ last \in [call : Calls, ret : {0, -1}, ran : KTypes \cup {NoModel},
                 seed : Pose, cached : BOOLEAN]
    /\ oob \in BOOLEAN

\* Pose continuity across switches (kinematicsForward, kinematicsSwitch):
\* every forward solve of model k starts from the latest pose that model k
\* itself produced (the zero pose if it never ran), never from the pose of
\* the model that was active before a switch.
WarmStartStep ==
    (last'.call = "fwd" /\ last'.ran \in KTypes)
        => last'.seed = produced[last'.ran]
WarmStartSeed == [][WarmStartStep]_vars

\* A call that reports success ran the model that the selector names and
\* that the kinstype.is-N pins announce (kinematicsForward/Inverse routing).
NoSilentMisroute ==
    (last.call \in {"fwd", "inv"} /\ last.ret = 0)
        => /\ last.ran = switchkins_type
           /\ kinstype_is[last.ran] = 1

\* The spec (4.5): a rejected kinematicsSwitch leaves the selector, the
\* seed flags and the pins as they were.
BadSwitchLeavesState ==
    [][ (last'.call = "switch" /\ last'.ret = -1)
            => UNCHANGED <<switchkins_type, use_lastpose, kinstype_is>> ]_vars

\* No call indexes use_lastpose or lastpose outside their GENHEX_KTYPES
\* entries (kinematicsForward after kinematicsSwitch accepted the value).
NoOutOfBounds == ~oob

-----------------------------------------------------------------------------
(***************************************************************************)
(* The inductive invariant the proofs rest on.  The cache slot of every    *)
(* model is the latest pose that model produced, and unless a seed is      *)
(* pending for the active model the caller's buffer still holds that       *)
(* model's latest pose: between two Forward calls of one model only        *)
(* kinematicsSwitch, which raises the seed flag, can intervene.            *)
(***************************************************************************)
CacheIsHistory == lastpose = produced
BufferHoldsActivePose ==
    (switchkins_type \in KTypes /\ use_lastpose[switchkins_type] = 0)
        => pos = lastpose[switchkins_type]
PinsNameSelector == kinstype_is = OneHot(switchkins_type)
SuccessRanSelected ==
    (last.call \in {"fwd", "inv"} /\ last.ret = 0)
        => last.ran = switchkins_type
IInv ==
    /\ TypeOK
    /\ CacheIsHistory
    /\ BufferHoldsActivePose
    /\ PinsNameSelector
    /\ SuccessRanSelected
=============================================================================
