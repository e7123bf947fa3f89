----------------------------- MODULE Switchkins -----------------------------
(***************************************************************************)
(* The loading and the call routing of the four switchable kinematics     *)
(* modules: genser-switchkins.c, genhex-switchkins.c and the trunnion-     *)
(* table modules xyzac-trt-switchkins.c and xyzbc-trt-switchkins.c (the    *)
(* last two have the same control flow and differ only in their geometry; *)
(* the pose cache of genhex is modelled in GenhexSwitchkins).  Which module *)
(* is loaded is chosen in Init.  Its rtapi_app_main runs its setup steps   *)
(* in order, any of which may fail; once loaded, the motion controller     *)
(* calls kinematicsSwitch, kinematicsForward and kinematicsInverse.  The   *)
(* geometry itself is abstracted to the name of the model that ran.        *)
(***************************************************************************)
EXTENDS Integers, Sequences

CONSTANTS
    Variants,   \* the modules that may be loaded: "genser", "genhex", "xyzac", "xyzbc"
    Requests    \* the values the motion controller may pass to kinematicsSwitch

ASSUME VariantsAssumption == Variants \subseteq {"genser", "genhex", "xyzac", "xyzbc"}
ASSUME RequestsAssumption == Requests \subseteq Nat

\* The three kinstype.is-N pins, one per case of kinematicsSwitch.
PinTypes == 0 .. 2
Models == {"genser", "genhex", "identity", "trt", "type2"}
NoModel == "none"

\* The model each case of kinematicsSwitch announces (its message and pin).
GenserAnnounced == [t \in PinTypes |-> <<"genser", "identity", "type2">>[t + 1]]
GenhexAnnounced == [t \in PinTypes |-> <<"genhex", "identity", "type2">>[t + 1]]
TrtAnnounced == [t \in PinTypes |-> <<"identity", "trt", "type2">>[t + 1]]

\* The switch of kinematicsForward and kinematicsInverse: the model that runs.
GenserRoute(t) == IF t \in {0, 2} THEN GenserAnnounced[t] ELSE "identity"
TrtRoute(t) == IF t = 1 THEN "trt" ELSE "identity"
\* genhex rejects any other type (its default: branch returns -1).
GenhexRoute(t) == IF t \in PinTypes THEN GenhexAnnounced[t] ELSE NoModel

\* Return codes of the models once loaded: the genser and genhex solvers
\* are iterative (outside this code) and may fail; identity, switchtype2
\* and the closed-form trunnion geometry return 0; no model, -1.
SolveResults(m) == IF m \in {"genser", "genhex"} THEN {0, -1}
                   ELSE IF m = NoModel THEN {-1} ELSE {0}

\* rtapi_app_main of genser-switchkins.c: its setup steps in order, each
\* with what the function returns when that step fails (goto error returns
\* res, which starts at -1; a failed hal_init returns comp_id < 0).
GenserSetup ==
    << [step |-> "njoints", fails |-> -1], [step |-> "identity", fails |-> -1],
       [step |-> "type2", fails |-> -1], [step |-> "hal_init", fails |-> -1],
       [step |-> "genser_hal", fails |-> -1], [step |-> "hal_malloc", fails |-> -1],
       [step |-> "pins", fails |-> -1] >>

\* rtapi_app_main of genhex-switchkins.c: the same steps as genser's.
GenhexSetup ==
    << [step |-> "njoints", fails |-> -1], [step |-> "identity", fails |-> -1],
       [step |-> "type2", fails |-> -1], [step |-> "hal_init", fails |-> -1],
       [step |-> "genhex_hal", fails |-> -1], [step |-> "hal_malloc", fails |-> -1],
       [step |-> "pins", fails |-> -1] >>

\* rtapi_app_main of xyzac-trt-switchkins.c: res starts at 0 and is only
\* set by the pin calls, so a failed switchtype2 setup jumps to error and
\* returns 0.
TrtSetup ==
    << [step |-> "njoints", fails |-> -1], [step |-> "map", fails |-> -1],
       [step |-> "identity", fails |-> -1], [step |-> "axes", fails |-> -1],
       [step |-> "type2", fails |-> 0], [step |-> "hal_init", fails |-> -1],
       [step |-> "pins", fails |-> -1] >>

\* The order in which each case of kinematicsSwitch writes the three pins
\* (the value written is the pin's entry of OneHot(new type)).
\* Fault variant (for the checks): the default case forgets is-2.
PinOrderGenserNoClear(n) == IF n \in PinTypes THEN <<0, 1, 2>> ELSE <<1, 0>>
PinOrderGenser(n) == IF n \in PinTypes THEN <<0, 1, 2>> ELSE <<1, 0, 2>>
PinOrderGenhex(n) == IF n \in PinTypes THEN <<0, 1, 2>> ELSE <<1, 0, 2>>
PinOrderXyzac(n) == IF n \in {0, 2} THEN <<0, 1, 2>> ELSE <<1, 0, 2>>
PinOrderXyzbc(n) == <<0, 1, 2>>

VARIABLES
    variant,          \* which module was loaded
    step,             \* the next setup step of rtapi_app_main
    load,             \* "loading", "loaded" (it returned 0), "failed", or
                      \* "crashed" (a pin write through a NULL haldata)
    ret,              \* what rtapi_app_main returned
    hal,              \* the HAL component: "none", "inited", "ready", "exited"
    switchkins_type,  \* static hal_u32_t switchkins_type
    kinstype_is,      \* the pins kinstype.is-0 .. kinstype.is-2
    pending,          \* the pin writes of a kinematicsSwitch call still to do
    last              \* observation of the last call: its return, what ran

vars == <<variant, step, load, ret, hal, switchkins_type, kinstype_is,
          pending, last>>

\* What the loaded module's code does, by module.
Announced == IF variant = "genser" THEN GenserAnnounced
             ELSE IF variant = "genhex" THEN GenhexAnnounced ELSE TrtAnnounced
Route(t) == IF variant = "genser" THEN GenserRoute(t)
            ELSE IF variant = "genhex" THEN GenhexRoute(t) ELSE TrtRoute(t)
PinOrder(n) == IF variant = "genser" THEN PinOrderGenser(n)
               ELSE IF variant = "genhex" THEN PinOrderGenhex(n)
               ELSE IF variant = "xyzac" THEN PinOrderXyzac(n) ELSE PinOrderXyzbc(n)
SetupSteps == IF variant = "genser" THEN GenserSetup
              ELSE IF variant = "genhex" THEN GenhexSetup ELSE TrtSetup

OneHot(n) == [t \in PinTypes |-> IF t = n THEN 1 ELSE 0]

Init ==
    /\ variant \in Variants
    /\ step = 1
    /\ load = "loading"
    /\ ret = 0
    /\ hal = "none"
    /\ switchkins_type = 0
    /\ kinstype_is = [t \in PinTypes |-> 0]
    /\ pending = << >>
    /\ last = [call |-> "none", ret |-> 0, ran |-> NoModel]

\* A setup step of rtapi_app_main succeeds; hal_init creates the component.
SetupStepOk ==
    /\ load = "loading"
    /\ step <= Len(SetupSteps)
    /\ step' = step + 1
    /\ hal' = IF SetupSteps[step].step = "hal_init" THEN "inited" ELSE hal
    /\ UNCHANGED <<variant, load, ret, switchkins_type, kinstype_is, pending,
                   last>>

\* A setup step fails: rtapi_app_main returns (after hal_exit once the
\* component exists), and the loader takes a return of 0 as a loaded module.
SetupStepFails ==
    /\ load = "loading"
    /\ step <= Len(SetupSteps)
    /\ ret' = SetupSteps[step].fails
    /\ load' = IF SetupSteps[step].fails = 0 THEN "loaded" ELSE "failed"
    /\ hal' = IF hal = "inited" THEN "exited" ELSE hal
    /\ UNCHANGED <<variant, step, switchkins_type, kinstype_is, pending, last>>

\* Every step succeeded: switchkins_type = 0, kinematicsSwitch(0),
\* hal_ready(comp_id), return 0.
SetupDone ==
    /\ load = "loading"
    /\ step = Len(SetupSteps) + 1
    /\ switchkins_type' = 0
    /\ kinstype_is' = OneHot(0)
    /\ hal' = "ready"
    /\ load' = "loaded"
    /\ ret' = 0
    /\ UNCHANGED <<variant, step, pending, last>>

\* The motion controller calls any module the loader took as loaded (the
\* calls check neither comp_id nor haldata); the calls come from one
\* thread, so a call starts only when the previous returned.
Serving == load = "loaded" /\ pending = << >>

SwitchResult(n) == [call |-> "switch", ret |-> IF n \in PinTypes THEN 0 ELSE -1,
                    ran |-> NoModel]

\* Fault variant (for the checks): the pin of the requested type is set
\* before the switch validates it.
kinematicsSwitchPinFirst(n) ==
    /\ Serving
    /\ switchkins_type' = n
    /\ pending' = <<n>> \o PinOrder(n)
    /\ last' = SwitchResult(n)
    /\ UNCHANGED <<variant, step, load, ret, hal, kinstype_is>>

\* kinematicsSwitch(new): the selector is overwritten first, then the case
\* for the new value writes the three pins one by one (a valid type gets
\* its pin set and the others cleared, any other value clears all pins and
\* returns -1).  Other HAL threads may read the pins between two writes.
kinematicsSwitch(n) ==
    /\ Serving
    /\ switchkins_type' = n
    /\ pending' = PinOrder(n)
    /\ last' = SwitchResult(n)
    /\ UNCHANGED <<variant, step, load, ret, hal, kinstype_is>>

\* One pin write of the running kinematicsSwitch.
WritePin ==
    /\ pending # << >>
    /\ hal = "ready"
    /\ kinstype_is' = [kinstype_is EXCEPT ![Head(pending)] =
                          OneHot(switchkins_type)[Head(pending)]]
    /\ pending' = Tail(pending)
    /\ UNCHANGED <<variant, step, load, ret, hal, switchkins_type, last>>

\* The same write in a module loaded without a HAL component (a failed
\* switchtype2 setup that returned 0): haldata was never allocated, the
\* write dereferences NULL and the process running the module dies.
WritePinNoComponent ==
    /\ pending # << >>
    /\ hal # "ready"
    /\ load' = "crashed"
    /\ pending' = << >>
    /\ UNCHANGED <<variant, step, ret, hal, switchkins_type, kinstype_is, last>>

\* kinematicsForward / kinematicsInverse: the switch on switchkins_type
\* delegates to a model and returns its result.
Delegate(call) ==
    /\ Serving
    /\ \E r \in SolveResults(Route(switchkins_type)) :
          last' = [call |-> call, ret |-> r, ran |-> Route(switchkins_type)]
    /\ UNCHANGED <<variant, step, load, ret, hal, switchkins_type, kinstype_is,
                   pending>>

kinematicsForward == Delegate("fwd")
kinematicsInverse == Delegate("inv")

\* kinematicsHome (genser, xyzac, xyzbc; genhex-switchkins has none) is a
\* kinematicsForward call (xyzac and xyzbc clear the flags first).
kinematicsHome == variant # "genhex" /\ kinematicsForward

Next ==
    \/ SetupStepOk
    \/ SetupStepFails
    \/ SetupDone
    \/ \E n \in Requests : kinematicsSwitch(n)
    \/ WritePin
    \/ WritePinNoComponent
    \/ kinematicsForward
    \/ kinematicsInverse
    \/ kinematicsHome

Spec == Init /\ [][Next]_vars

-----------------------------------------------------------------------------
\* Every variable keeps its range.
TypeOK ==
    /\ variant \in Variants
    /\ step \in 1 .. Len(SetupSteps) + 1
    /\ load \in {"loading", "loaded", "failed", "crashed"}
    /\ ret \in {0, -1}
    /\ hal \in {"none", "inited", "ready", "exited"}
    /\ switchkins_type \in Nat
    /\ kinstype_is \in [PinTypes -> {0, 1}]
    /\ pending \in Seq(PinTypes)
    /\ last \in [call : {"none", "switch", "fwd", "inv"}, ret : {0, -1},
                 ran : Models \cup {NoModel}]

\* rtapi_app_main reports success only when every setup step succeeded:
\* a module the loader takes as loaded has a ready HAL component (spec 7:
\* setup errors are fatal to module initialization).
StartupSound == load = "loaded" => hal = "ready"

\* Whenever kinematicsSwitch has returned, the kinstype.is-N pins announce
\* exactly the selected type: every case writes every pin, to the value
\* of its own type (kinematicsSwitch, all four modules).
PinsSettled ==
    (load = "loaded" /\ hal = "ready" /\ pending = << >>)
        => kinstype_is = OneHot(switchkins_type)

\* In a module whose HAL component is up, a call that reports success ran
\* the model that kinematicsSwitch announced for the current type (message
\* and kinstype.is-N pin); a rejected or unannounced type never runs a
\* model silently (spec 4.5, 7).  A module loaded without a component has
\* no pins to announce anything; StartupSound is about that state.
NoSilentMisroute ==
    (last.call \in {"fwd", "inv"} /\ last.ret = 0 /\ hal = "ready")
        => /\ switchkins_type \in PinTypes
           /\ kinstype_is[switchkins_type] = 1
           /\ last.ran = Announced[switchkins_type]
-----------------------------------------------------------------------------
(***************************************************************************)
(* The inductive invariant the proofs rest on: the component is ready     *)
(* only in a loaded module, pin writes are pending only in a loaded       *)
(* module, and every pin the running (or last) kinematicsSwitch no longer *)
(* has to write holds its value for the selected type.                    *)
(***************************************************************************)
ReadyOnlyLoaded == hal = "ready" => load = "loaded"
PendingOnlyLoaded == pending # << >> => load = "loaded"
WrittenPinsSettled ==
    (load = "loaded" /\ hal = "ready")
        => \A p \in PinTypes :
              (\A i \in 1 .. Len(pending) : pending[i] # p)
                  => kinstype_is[p] = OneHot(switchkins_type)[p]
IInv ==
    /\ TypeOK
    /\ ReadyOnlyLoaded
    /\ PendingOnlyLoaded
    /\ WrittenPinsSettled
=============================================================================
