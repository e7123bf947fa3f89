----------------------- MODULE GenhexSwitchkins_proofs -----------------------
(***************************************************************************)
(* Proofs about the genhex-switchkins dispatcher, for every set of switch  *)
(* requests and every number of solver results: the type invariant, the    *)
(* inductive invariant IInv, and from it the two properties the           *)
(* GenhexSwitchkins run checks, pose continuity across switches            *)
(* (WarmStartSeed) and success only from the announced model               *)
(* (NoSilentMisroute).                                                     *)
(***************************************************************************)
EXTENDS GenhexSwitchkins, TLAPS

\* The pattern kinematicsSwitch writes is a flag array of GENHEX_KTYPES
\* entries, whatever value it was asked for.
LEMMA OneHotType ==
    ASSUME NEW n \in Int
    PROVE  OneHot(n) \in [KTypes -> {0, 1}]
BY DEF OneHot

\* A forward solve of a valid type leaves a pose of that type.
LEMMA ResultType ==
    ASSUME NEW k \in KTypes, NEW v \in 1 .. NVals
    PROVE  [by |-> k, v |-> v] \in Pose
BY DEF Pose

LEMMA ZeroPoseType == ZeroPose \in Pose
BY NValsAssumption DEF ZeroPose, Pose, NoModel

\* Every step of the dispatcher preserves the type invariant.
LEMMA TypeStep == TypeOK /\ [Next]_vars => TypeOK'
<1> SUFFICES ASSUME TypeOK, [Next]_vars PROVE TypeOK'
  OBVIOUS
<1>1. ASSUME NEW n \in Requests, kinematicsSwitch(n) PROVE TypeOK'
  <2>1. n \in Nat
    BY RequestsAssumption
  <2>. QED
    BY <1>1, <2>1, OneHotType, ZeroPoseType
       DEF kinematicsSwitch, TypeOK, Observation, Calls, NoModel
<1>2. CASE kinematicsForward /\ switchkins_type \in KTypes
  <2> DEFINE k == switchkins_type
  <2>1. PICK r \in ForwardResults(k), v \in 1 .. NVals, g \in GuiResults :
              LET result == [by |-> k, v |-> v]
              IN  /\ use_lastpose' = [use_lastpose EXCEPT ![k] = 0]
                  /\ pos' = result
                  /\ lastpose' = [lastpose EXCEPT ![k] = result]
                  /\ produced' = [produced EXCEPT ![k] = result]
                  /\ last' = Observation("fwd", IF r # 0 THEN r ELSE g, k,
                               IF use_lastpose[k] = 1 THEN lastpose[k] ELSE pos,
                               use_lastpose[k] = 1)
                  /\ UNCHANGED <<switchkins_type, kinstype_is, oob>>
    BY <1>2 DEF kinematicsForward, ForwardSolve
  <2>2. [by |-> k, v |-> v] \in Pose
    BY <1>2, ResultType
  <2>3. (IF r # 0 THEN r ELSE g) \in {0, -1}
    BY DEF ForwardResults, GuiResults
  <2>. QED
    BY <1>2, <2>1, <2>2, <2>3 DEF TypeOK, Observation, Calls, NoModel
<1>3. CASE kinematicsForward /\ switchkins_type \notin KTypes
  <2>1. ForwardBadType
    BY <1>3 DEF kinematicsForward
  <2>. QED
    BY <2>1, ZeroPoseType DEF ForwardBadType, TypeOK, Observation, Calls
<1>4. CASE kinematicsInverse
  <2>1. UNCHANGED <<switchkins_type, use_lastpose, lastpose, kinstype_is, pos,
                    produced, oob>>
    BY <1>4 DEF kinematicsInverse
  <2>2. CASE switchkins_type \in KTypes
    <3>1. PICK r \in InverseResults(switchkins_type) :
              last' = Observation("inv", r, switchkins_type, ZeroPose, FALSE)
      BY <1>4, <2>2 DEF kinematicsInverse
    <3>2. r \in {0, -1}
      BY DEF InverseResults
    <3>. QED
      BY <2>1, <2>2, <3>1, <3>2, ZeroPoseType DEF TypeOK, Observation, Calls
  <2>3. CASE switchkins_type \notin KTypes
    <3>1. last' = Observation("inv", -1, NoModel, ZeroPose, FALSE)
      BY <1>4, <2>3 DEF kinematicsInverse
    <3>. QED
      BY <2>1, <3>1, ZeroPoseType DEF TypeOK, Observation, Calls, NoModel
  <2>. QED
    BY <2>2, <2>3
<1>5. CASE UNCHANGED vars
  BY <1>5 DEF vars, TypeOK
<1>6. QED
  BY <1>1, <1>2, <1>3, <1>4, <1>5 DEF Next

\* The initial state rtapi_app_main leaves is well typed.
LEMMA TypeInit == Init => TypeOK
<1> SUFFICES ASSUME Init PROVE TypeOK
  OBVIOUS
<1>1. OneHot(0) \in [KTypes -> {0, 1}]
  BY OneHotType
<1>2. last \in [call : Calls, ret : {0, -1}, ran : KTypes \cup {NoModel},
                seed : Pose, cached : BOOLEAN]
  BY ZeroPoseType DEF Init, Observation, Calls
<1>. QED
  BY <1>1, <1>2, ZeroPoseType DEF Init, TypeOK

\* The type invariant holds in every reachable state.
THEOREM TypeCorrect == Spec => []TypeOK
BY TypeInit, TypeStep, PTL DEF Spec

\* Every step preserves the inductive invariant IInv (GenhexSwitchkins):
\* the cache holds each model's latest pose, the buffer the active model's
\* latest pose unless a seed is pending, the pins name the selector, and a
\* successful call ran the selected model.
LEMMA IInvStep == IInv /\ [Next]_vars => IInv'
<1> SUFFICES ASSUME IInv, [Next]_vars PROVE IInv'
  OBVIOUS
<1>1. TypeOK /\ TypeOK'
  BY TypeStep DEF IInv
<1>2. ASSUME NEW n \in Requests, kinematicsSwitch(n) PROVE IInv'
  <2>1. CacheIsHistory'
    BY <1>2 DEF kinematicsSwitch, IInv, CacheIsHistory
  <2>2. BufferHoldsActivePose'
    BY <1>2 DEF kinematicsSwitch, BufferHoldsActivePose, OneHot
  <2>3. PinsNameSelector'
    BY <1>2 DEF kinematicsSwitch, PinsNameSelector
  <2>4. SuccessRanSelected'
    BY <1>2 DEF kinematicsSwitch, SuccessRanSelected, Observation
  <2>. QED
    BY <1>1, <2>1, <2>2, <2>3, <2>4 DEF IInv
<1>3. CASE kinematicsForward /\ switchkins_type \in KTypes
  <2> DEFINE k == switchkins_type
  <2>1. PICK r \in ForwardResults(k), v \in 1 .. NVals, g \in GuiResults :
              LET result == [by |-> k, v |-> v]
              IN  /\ use_lastpose' = [use_lastpose EXCEPT ![k] = 0]
                  /\ pos' = result
                  /\ lastpose' = [lastpose EXCEPT ![k] = result]
                  /\ produced' = [produced EXCEPT ![k] = result]
                  /\ last' = Observation("fwd", IF r # 0 THEN r ELSE g, k,
                               IF use_lastpose[k] = 1 THEN lastpose[k] ELSE pos,
                               use_lastpose[k] = 1)
                  /\ UNCHANGED <<switchkins_type, kinstype_is, oob>>
    BY <1>3 DEF kinematicsForward, ForwardSolve
  <2>2. CacheIsHistory'
    BY <2>1 DEF IInv, CacheIsHistory
  <2>3. BufferHoldsActivePose'
    BY <1>1, <1>3, <2>1 DEF BufferHoldsActivePose, TypeOK
  <2>4. PinsNameSelector'
    BY <2>1 DEF IInv, PinsNameSelector
  <2>5. SuccessRanSelected'
    BY <2>1 DEF SuccessRanSelected, Observation
  <2>. QED
    BY <1>1, <2>2, <2>3, <2>4, <2>5 DEF IInv
<1>4. CASE kinematicsForward /\ switchkins_type \notin KTypes
  <2>1. ForwardBadType
    BY <1>4 DEF kinematicsForward
  <2>. QED
    BY <1>1, <1>4, <2>1 DEF ForwardBadType, IInv, CacheIsHistory,
       BufferHoldsActivePose, PinsNameSelector, SuccessRanSelected, Observation
<1>5. CASE kinematicsInverse
  <2>1. UNCHANGED <<switchkins_type, use_lastpose, lastpose, kinstype_is, pos,
                    produced, oob>>
    BY <1>5 DEF kinematicsInverse
  <2>2. SuccessRanSelected'
    <3>1. CASE switchkins_type \in KTypes
      BY <1>5, <2>1, <3>1 DEF kinematicsInverse, SuccessRanSelected, Observation
    <3>2. CASE switchkins_type \notin KTypes
      BY <1>5, <3>2 DEF kinematicsInverse, SuccessRanSelected, Observation
    <3>. QED
      BY <3>1, <3>2
  <2>. QED
    BY <1>1, <2>1, <2>2 DEF IInv, CacheIsHistory, BufferHoldsActivePose,
       PinsNameSelector
<1>6. CASE UNCHANGED vars
  BY <1>1, <1>6 DEF vars, IInv, CacheIsHistory, BufferHoldsActivePose,
     PinsNameSelector, SuccessRanSelected
<1>. QED
  BY <1>2, <1>3, <1>4, <1>5, <1>6 DEF Next

LEMMA IInvInit == Init => IInv
<1> SUFFICES ASSUME Init PROVE IInv
  OBVIOUS
<1>1. TypeOK
  BY TypeInit
<1>. QED
  BY <1>1 DEF Init, IInv, CacheIsHistory, BufferHoldsActivePose,
     PinsNameSelector, SuccessRanSelected, Observation, OneHot, KTypes,
     GENHEX_KTYPES

\* IInv holds in every reachable state.
THEOREM IInvariant == Spec => []IInv
BY IInvInit, IInvStep, PTL DEF Spec

\* Pose continuity (WarmStartSeed): every forward solve of a model starts
\* from the latest pose that same model produced, for any requests.
THEOREM WarmStartSeedHolds == Spec => WarmStartSeed
<1>1. IInv /\ [Next]_vars => [WarmStartStep]_vars
  <2> SUFFICES ASSUME IInv, [Next]_vars PROVE [WarmStartStep]_vars
    OBVIOUS
  <2>1. CASE kinematicsForward /\ switchkins_type \in KTypes
    <3> DEFINE k == switchkins_type
    <3>1. PICK r \in ForwardResults(k), v \in 1 .. NVals, g \in GuiResults :
                last' = Observation("fwd", IF r # 0 THEN r ELSE g, k,
                            IF use_lastpose[k] = 1 THEN lastpose[k] ELSE pos,
                            use_lastpose[k] = 1)
      BY <2>1 DEF kinematicsForward, ForwardSolve
    <3>2. use_lastpose[k] \in {0, 1}
      BY <2>1 DEF IInv, TypeOK
    <3>3. (IF use_lastpose[k] = 1 THEN lastpose[k] ELSE pos) = produced[k]
      BY <2>1, <3>2 DEF IInv, CacheIsHistory, BufferHoldsActivePose
    <3>. QED
      BY <3>1, <3>3 DEF WarmStartStep, Observation
  <2>2. CASE kinematicsForward /\ switchkins_type \notin KTypes
    BY <2>2 DEF kinematicsForward, ForwardBadType, WarmStartStep, Observation,
       NoModel, KTypes
  <2>3. ASSUME NEW n \in Requests, kinematicsSwitch(n)
        PROVE  [WarmStartStep]_vars
    BY <2>3 DEF kinematicsSwitch, WarmStartStep, Observation
  <2>4. CASE kinematicsInverse
    BY <2>4 DEF kinematicsInverse, WarmStartStep, Observation
  <2>5. CASE UNCHANGED vars
    BY <2>5 DEF vars
  <2>. QED
    BY <2>1, <2>2, <2>3, <2>4, <2>5 DEF Next
<1>. QED
  BY <1>1, IInvariant, PTL DEF WarmStartSeed, Spec

\* Routing (NoSilentMisroute): a call that reports success ran the model
\* the selector names and the kinstype.is-N pins announce.
THEOREM NoSilentMisrouteHolds == Spec => []NoSilentMisroute
<1>1. IInv => NoSilentMisroute
  <2> SUFFICES ASSUME IInv, last.call \in {"fwd", "inv"}, last.ret = 0
               PROVE  last.ran = switchkins_type /\ kinstype_is[last.ran] = 1
    BY DEF NoSilentMisroute
  <2>1. last.ran = switchkins_type
    BY DEF IInv, SuccessRanSelected
  <2>2. last.ran \in KTypes
    BY <2>1 DEF IInv, TypeOK, NoModel
  <2>. QED
    BY <2>1, <2>2 DEF IInv, PinsNameSelector, OneHot
<1>. QED
  BY <1>1, IInvariant, PTL
=============================================================================
