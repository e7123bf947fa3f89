--------------------------- MODULE Switchkins_proofs ---------------------------
(***************************************************************************)
(* Proofs about the loading and routing of the switchable kinematics       *)
(* modules, for every set of modules and every set of switch requests: the *)
(* type invariant, the inductive invariant IInv, and from it PinsSettled,  *)
(* the property the switchkins run checks: once kinematicsSwitch has       *)
(* returned, the kinstype.is pins announce exactly the selected type.      *)
(***************************************************************************)
EXTENDS Switchkins, TLAPS

\* The pin pattern of a type is a bit per pin, whatever the type.
LEMMA OneHotType ==
    ASSUME NEW n \in Int
    PROVE  OneHot(n) \in [PinTypes -> {0, 1}]
BY DEF OneHot

\* Every case of kinematicsSwitch, in every module, writes the three pins
\* in one of two orders.
LEMMA PinOrderCases ==
    ASSUME NEW n
    PROVE  PinOrder(n) \in {<<0, 1, 2>>, <<1, 0, 2>>}
BY DEF PinOrder, PinOrderGenser, PinOrderGenhex, PinOrderXyzac, PinOrderXyzbc

\* So the writes of a switch are pins, and every pin is among them.
LEMMA PinOrderFacts ==
    ASSUME NEW n
    PROVE  /\ PinOrder(n) \in Seq(PinTypes)
           /\ \A p \in PinTypes : \E i \in 1 .. Len(PinOrder(n)) : PinOrder(n)[i] = p
<1>1. CASE PinOrder(n) = <<0, 1, 2>>
  BY <1>1 DEF PinTypes
<1>2. CASE PinOrder(n) = <<1, 0, 2>>
  BY <1>2 DEF PinTypes
<1>. QED
  BY <1>1, <1>2, PinOrderCases

\* Every rtapi_app_main has seven setup steps.
LEMMA SetupLen == Len(SetupSteps) = 7
<1>1. SetupSteps \in {GenserSetup, GenhexSetup, TrtSetup}
  BY DEF SetupSteps
<1>. QED
  BY <1>1 DEF GenserSetup, GenhexSetup, TrtSetup

\* ... each failing with 0 or -1.
LEMMA SetupStepsFacts ==
    /\ Len(SetupSteps) = 7
    /\ \A i \in 1 .. 7 : SetupSteps[i].fails \in {0, -1}
<1>1. SetupSteps \in {GenserSetup, GenhexSetup, TrtSetup}
  BY DEF SetupSteps
<1>2. /\ Len(GenserSetup) = 7
      /\ \A i \in 1 .. 7 : GenserSetup[i].fails \in {0, -1}
  BY DEF GenserSetup
<1>3. /\ Len(GenhexSetup) = 7
      /\ \A i \in 1 .. 7 : GenhexSetup[i].fails \in {0, -1}
  BY DEF GenhexSetup
<1>4. /\ Len(TrtSetup) = 7
      /\ \A i \in 1 .. 7 : TrtSetup[i].fails \in {0, -1}
  BY DEF TrtSetup
<1>. QED
  BY <1>1, <1>2, <1>3, <1>4

\* The model a call runs, and the codes it may return.
LEMMA RouteType ==
    ASSUME NEW t
    PROVE  /\ Route(t) \in Models \cup {NoModel}
           /\ SolveResults(Route(t)) \subseteq {0, -1}
<1>1. Route(t) \in Models \cup {NoModel}
  BY DEF Route, GenserRoute, GenhexRoute, TrtRoute, GenserAnnounced,
         GenhexAnnounced, Models,
         NoModel, PinTypes
<1>. QED
  BY <1>1 DEF SolveResults

\* The variable variant never changes, so neither do the step lists.
LEMMA TypeInit == Init => TypeOK
<1> SUFFICES ASSUME Init PROVE TypeOK
  OBVIOUS
<1>1. Len(SetupSteps) = 7
  BY SetupStepsFacts
<1>. QED
  BY <1>1 DEF Init, TypeOK, PinTypes, NoModel, Models

\* Every step preserves the type invariant.
LEMMA TypeStep == TypeOK /\ [Next]_vars => TypeOK'
<1> SUFFICES ASSUME TypeOK, [Next]_vars PROVE TypeOK'
  OBVIOUS
<1>0. /\ Len(SetupSteps) = 7
      /\ \A i \in 1 .. 7 : SetupSteps[i].fails \in {0, -1}
  BY SetupStepsFacts
<1>00. variant' = variant => SetupSteps' = SetupSteps
  BY Zenon DEF SetupSteps
<1>1. CASE SetupStepOk
  <2>1. step \in 1 .. 7 /\ SetupSteps' = SetupSteps
    BY <1>0, <1>00, <1>1 DEF SetupStepOk, TypeOK
  <2>2. hal' \in {"none", "inited", "ready", "exited"}
    BY Zenon, <1>1 DEF SetupStepOk, TypeOK
  <2>3. step <= Len(SetupSteps) /\ step' = step + 1
    BY Zenon, <1>1 DEF SetupStepOk
  <2>4. step' \in 1 .. 7 + 1
    BY <2>1, <2>3
  <2>6. Len(SetupSteps') = 7
    BY Zenon, <2>1, SetupLen
  <2>7. step' \in 1 .. Len(SetupSteps') + 1
    BY Zenon, <2>4, <2>6
  <2>5. UNCHANGED <<variant, load, ret, switchkins_type, kinstype_is, pending,
                    last>>
    BY Zenon, <1>1 DEF SetupStepOk
  <2>. QED
    BY <2>2, <2>7, <2>5 DEF TypeOK
<1>2. CASE SetupStepFails
  <2>1. step \in 1 .. 7 /\ SetupSteps' = SetupSteps
    BY <1>0, <1>00, <1>2 DEF SetupStepFails, TypeOK
  <2>2. SetupSteps[step].fails \in {0, -1}
    BY <1>0, <2>1
  <2>. QED
    BY <1>0, <2>1, <2>2, <1>2 DEF SetupStepFails, TypeOK
<1>3. CASE SetupDone
  BY <1>0, <1>3, OneHotType DEF SetupDone, TypeOK, SetupSteps
<1>4. ASSUME NEW n \in Requests, kinematicsSwitch(n) PROVE TypeOK'
  <2>1. n \in Nat
    BY RequestsAssumption
  <2>2. PinOrder(n) \in Seq(PinTypes)
    BY PinOrderFacts
  <2>. QED
    BY <1>4, <2>1, <2>2 DEF kinematicsSwitch, SwitchResult, TypeOK, SetupSteps,
                            NoModel, Models
<1>5. CASE WritePin
  <2>1. Head(pending) \in PinTypes /\ Tail(pending) \in Seq(PinTypes)
    BY <1>5 DEF WritePin, TypeOK
  <2>2. OneHot(switchkins_type) \in [PinTypes -> {0, 1}]
    BY OneHotType DEF TypeOK
  <2>. QED
    BY <1>5, <2>1, <2>2 DEF WritePin, TypeOK, SetupSteps
<1>8. CASE WritePinNoComponent
  BY <1>8 DEF WritePinNoComponent, TypeOK, SetupSteps
<1>6. ASSUME NEW call \in {"fwd", "inv"}, Delegate(call) PROVE TypeOK'
  <2>1. PICK r \in SolveResults(Route(switchkins_type)) :
              last' = [call |-> call, ret |-> r, ran |-> Route(switchkins_type)]
    BY <1>6 DEF Delegate
  <2>2. r \in {0, -1} /\ Route(switchkins_type) \in Models \cup {NoModel}
    BY RouteType
  <2>. QED
    BY <1>6, <2>1, <2>2 DEF Delegate, TypeOK, SetupSteps
<1>7. CASE UNCHANGED vars
  BY <1>7 DEF vars, TypeOK, SetupSteps
<1>. QED
  BY <1>1, <1>2, <1>3, <1>4, <1>5, <1>6, <1>7, <1>8
     DEF Next, kinematicsForward, kinematicsInverse, kinematicsHome

\* Every reachable state of a switchable module is well typed.
THEOREM TypeCorrect == Spec => []TypeOK
BY TypeInit, TypeStep, PTL DEF Spec

\* A pin that is neither the head of a write sequence nor in its tail is
\* not in it.
LEMMA NotInTail ==
    ASSUME NEW s \in Seq(PinTypes), s # << >>, NEW p \in PinTypes, p # Head(s),
           \A i \in 1 .. Len(Tail(s)) : Tail(s)[i] # p
    PROVE  \A i \in 1 .. Len(s) : s[i] # p
BY DEF PinTypes

LEMMA IInvInit == Init => IInv
<1> SUFFICES ASSUME Init PROVE IInv
  OBVIOUS
<1>. QED
  BY TypeInit DEF Init, IInv, ReadyOnlyLoaded, PendingOnlyLoaded,
                  WrittenPinsSettled

\* Every step preserves IInv.
LEMMA IInvStep == IInv /\ [Next]_vars => IInv'
<1> SUFFICES ASSUME IInv, [Next]_vars PROVE IInv'
  OBVIOUS
<1>0. TypeOK'
  BY TypeStep DEF IInv
<1>1. CASE SetupStepOk
  <2>1. /\ load = "loading" /\ load' = "loading" /\ pending' = pending
        /\ hal' \in {"inited", hal}
    BY Zenon, <1>1 DEF SetupStepOk
  <2>2. pending = << >> /\ hal # "ready"
    BY <2>1 DEF IInv, ReadyOnlyLoaded, PendingOnlyLoaded
  <2>3. hal' # "ready"
    BY <2>1, <2>2
  <2>. QED
    BY <1>0, <2>1, <2>2, <2>3 DEF IInv, ReadyOnlyLoaded, PendingOnlyLoaded,
                            WrittenPinsSettled
<1>2. CASE SetupStepFails
  <2>1. /\ load = "loading" /\ pending' = pending
        /\ hal' = (IF hal = "inited" THEN "exited" ELSE hal)
    BY Zenon, <1>2 DEF SetupStepFails
  <2>2. pending = << >> /\ hal # "ready"
    BY <2>1 DEF IInv, ReadyOnlyLoaded, PendingOnlyLoaded
  <2>3. hal' # "ready" /\ pending' = << >>
    BY <2>1, <2>2
  <2>. QED
    BY <1>0, <2>3 DEF IInv, ReadyOnlyLoaded, PendingOnlyLoaded,
                      WrittenPinsSettled
<1>3. CASE SetupDone
  <2>1. pending = << >>
    BY <1>3 DEF SetupDone, IInv, PendingOnlyLoaded
  <2>. QED
    BY <1>3, <2>1 DEF SetupDone, IInv, ReadyOnlyLoaded, PendingOnlyLoaded,
                      WrittenPinsSettled, OneHot, PinTypes
<1>4. ASSUME NEW n \in Requests, kinematicsSwitch(n) PROVE IInv'
  <2>1. \A p \in PinTypes : \E i \in 1 .. Len(PinOrder(n)) : PinOrder(n)[i] = p
    BY PinOrderFacts
  <2>. QED
    BY <1>0, <1>4, <2>1 DEF kinematicsSwitch, Serving, IInv, ReadyOnlyLoaded,
                            PendingOnlyLoaded, WrittenPinsSettled
<1>5. CASE WritePin
  <2>1. load = "loaded" /\ hal = "ready" /\ pending \in Seq(PinTypes)
        /\ pending # << >>
    BY <1>5 DEF WritePin, IInv, PendingOnlyLoaded, TypeOK
  <2>2. Head(pending) \in PinTypes
    BY <2>1
  <2>3. kinstype_is \in [PinTypes -> {0, 1}]
    BY DEF IInv, TypeOK
  <2>4. ASSUME NEW p \in PinTypes,
               \A i \in 1 .. Len(pending') : pending'[i] # p
        PROVE  kinstype_is'[p] = OneHot(switchkins_type')[p]
    <3>1. CASE p = Head(pending)
      BY <1>5, <2>2, <2>3, <3>1 DEF WritePin
    <3>2. CASE p # Head(pending)
      <4>1. \A i \in 1 .. Len(pending) : pending[i] # p
        BY <1>5, <2>1, <2>4, <3>2, NotInTail DEF WritePin
      <4>. QED
        BY <1>5, <2>1, <2>3, <3>2, <4>1 DEF WritePin, IInv, WrittenPinsSettled
    <3>. QED
      BY <3>1, <3>2
  <2>. QED
    BY <1>0, <1>5, <2>1, <2>4 DEF WritePin, IInv, ReadyOnlyLoaded,
                                  PendingOnlyLoaded, WrittenPinsSettled
\* A pin write without a component ends the module: nothing is pending.
<1>8. CASE WritePinNoComponent
  <2>1. load' = "crashed" /\ pending' = << >> /\ hal' = hal /\ hal # "ready"
    BY <1>8 DEF WritePinNoComponent
  <2>. QED
    BY <1>0, <2>1 DEF IInv, ReadyOnlyLoaded, PendingOnlyLoaded,
                      WrittenPinsSettled
<1>6. ASSUME NEW call \in {"fwd", "inv"}, Delegate(call) PROVE IInv'
  BY <1>0, <1>6 DEF Delegate, IInv, ReadyOnlyLoaded, PendingOnlyLoaded,
                    WrittenPinsSettled
<1>7. CASE UNCHANGED vars
  BY <1>0, <1>7 DEF vars, IInv, ReadyOnlyLoaded, PendingOnlyLoaded,
                    WrittenPinsSettled
<1>. QED
  BY <1>1, <1>2, <1>3, <1>4, <1>5, <1>6, <1>7, <1>8
     DEF Next, kinematicsForward, kinematicsInverse, kinematicsHome

\* IInv holds in every reachable state of every module.
THEOREM IInvariant == Spec => []IInv
BY IInvInit, IInvStep, PTL DEF Spec

\* In a state of IInv with no pin write pending, the pins are settled.
LEMMA IInvPinsSettled == IInv => PinsSettled
<1> SUFFICES ASSUME IInv, load = "loaded", hal = "ready", pending = << >>
             PROVE  kinstype_is = OneHot(switchkins_type)
  BY DEF PinsSettled
<1>1. \A p \in PinTypes : kinstype_is[p] = OneHot(switchkins_type)[p]
  BY DEF IInv, WrittenPinsSettled
<1>. QED
  BY <1>1 DEF IInv, TypeOK, OneHot

\* PinsSettled (kinematicsSwitch of all four modules): whenever no switch
\* is under way in a loaded module, the kinstype.is-N pins announce exactly
\* the type in switchkins_type, for every set of modules and requests.
THEOREM PinsSettledHolds == Spec => []PinsSettled
BY IInvPinsSettled, IInvariant, PTL
=============================================================================
