# TLA+ models of the LinuxCNC kinematics modules

This directory holds the TLA+ verification project for `src/emc/kinematics/`. It covers the coordinate mapper and identity kinematics of `kins_util.c`, the four switchable kinematics modules (`genhex-switchkins.c`, `genser-switchkins.c`, `xyzac-trt-switchkins.c`, `xyzbc-trt-switchkins.c`), the `switchtype2funcs.c` extension slot, and `trivkins.c`. All paths below are relative to `src/src/emc/kinematics/`.

## The system and how its parts interact

- **Coordinate mapper.** `map_coordinates_to_jnumbers` in `kins_util.c` reads a module's `coordinates=` string, for example `"XYZABC"`. It fills a table giving, for each joint, the axis it drives (or -1). It rejects bad characters, too many letters, an empty string, and duplicate letters when they are not allowed.
- **Identity kinematics.** `identityKinematicsSetup` turns the table into one joint number per axis: the statics `_JX` .. `_JW`. `identityKinematicsForward` and `identityKinematicsInverse` copy values between the joint array and the pose fields through those numbers.
- **trivkins.** It loads identity kinematics with `allow_duplicates = 1`, which is how gantries are configured.
- **Switchable modules.**
  - Each exports `kinematicsSwitch`, `kinematicsForward` and `kinematicsInverse` to the motion controller.
  - A static `switchkins_type` selects one of three models:
    - genhex: 0 = hexapod, 1 = identity, 2 = switchtype2;
    - genser: 0 = serial, 1 = identity, 2 = switchtype2;
    - xyzac/xyzbc: 0 = identity, 1 = trunnion, 2 = switchtype2.
  - `kinematicsSwitch` announces the selected model on three HAL output pins, `kinstype.is-0..2`.
  - genhex also keeps a warm-start cache: `lastpose[]` and `use_lastpose[]`. After a switch, its iterative solver is seeded with the last pose of the model being switched to.
- **Startup.** Each module's `rtapi_app_main` runs its setup steps in order. The steps are the joint-count check, the mapper, identity setup, switchtype2 setup, `hal_init`, HAL allocation and pin creation. It then selects type 0 and calls `hal_ready`. The loader treats a return of 0 as a loaded module.

## Modules

| module | models | state (VARIABLES) | actions |
|---|---|---|---|
| `CoordMap` | `map_coordinates_to_jnumbers` (kins_util.c 24-95) | the arguments, the scan index `idx`, `jno`, `found`, `dups`, the table, `pc`, `ret`, `oob` | `BogusMaxJoints`, `InitTable`, one loop iteration each: `ScanLetter`, `ScanWhitespace`, `ScanInvalid`; then `LoopEnd`, `CheckResult` |
| `Identity` | identity setup/forward/inverse (kins_util.c 97-223), as trivkins and the switchkins modules call them | `J` (the `_JX`.. statics), `inited`, the setup table, the caller's `joints` and `pos` | `SetupMapFails`, `identityKinematicsSetup`, `identityKinematicsForward`, `identityKinematicsInverse`, trivkins' `kinematicsHome` |
| `GenhexSwitchkins` | genhex `kinematicsSwitch` / `Forward` / `Inverse` with the pose cache | `switchkins_type`, `use_lastpose`, `lastpose`, the pins, the caller's pose buffer `pos`; ghosts `produced`, `last`, `oob` | `kinematicsSwitch(n)`, `kinematicsForward` (`ForwardSolve(k)` or `ForwardBadType`), `kinematicsInverse` |
| `Switchkins` | startup and routing of all four switchable modules, with the pin writes one at a time | `variant`, the setup step, `load`, `ret`, `hal`, `switchkins_type`, the pins, `pending` pin writes, `last` | `SetupStepOk`, `SetupStepFails`, `SetupDone`, `kinematicsSwitch(n)`, `WritePin`, `WritePinNoComponent`, `kinematicsForward`, `kinematicsInverse`, `kinematicsHome` |

### How the data is abstracted

- **Characters and poses.** A character is a one-letter string. A pose in `GenhexSwitchkins` is a record naming the model whose forward solve produced it (`by`) and which of `NVals` results it is (`v`). This is exactly what the cache property needs to tell apart.
- **Joint and pose values.** In `Identity` they come from a small set `Vals`.
- **Geometry.** The trunnion geometry and the external genser/genhex solvers are reduced to the model's name and its possible return codes.
- **Mapper results in `Identity`.** `Identity` takes the mapper's successful results as the prefix-filled tables that the `coordmap` run shows `map_coordinates_to_jnumbers` returns (`MapCorrect`).

### What the actions keep from the code

- **Write-before-check in `ScanLetter`.** It stores the letter before it compares `jno` with `max_joints`, as the code does.
- **Validate-after-store in `kinematicsSwitch`.** It stores the new value before validating it.
- **Save-before-check in genhex's Forward.** It saves the result in the cache before it checks the solver's return code.
- **Startup return codes.** `rtapi_app_main` is modelled as the list of its setup steps, each with the value the function returns when that step fails:
  - genser and genhex start `res` at -1;
  - xyzac and xyzbc start `res` at 0, and pin creation is the only thing that sets it.
- **No check before a call.** The motion controller calls any module the loader took as loaded (`Serving` asks only `load = "loaded"` and that no switch is running). Neither the calls nor `kinematicsSwitch` check `comp_id` or `haldata`.
  - So after the xyzac/xyzbc load that returns 0 without a component, forward and inverse still run identity and return 0.
  - The first `kinematicsSwitch` then writes a pin through the NULL `haldata`. `WritePinNoComponent` models this write as the end of the process: `load` becomes `"crashed"`.

## Runs

Each row is one MC module and one cfg. Each run is listed in `PROJECT.json`.

| run | expect | checks | shows |
|---|---|---|---|
| `coordmap` | pass | TypeOK, MapCorrect, Termination | On every string of up to 4 characters from `X x Z`, blank and `1`, with `max_joints` in {0,2,3,4} and either duplicates flag, the mapper ends. When it returns 0, its table is the spec's table. |
| `coordmap_complete` | violation | MapComplete | `"X "` is rejected (trailing whitespace). |
| `coordmap_oob` | violation | NoOutOfBoundsWrite | `"XXXX"` with `max_joints = EMCMOT_MAX_JOINTS = 3` stores a letter past the table. |
| `genhex` | pass | TypeOK, NoSilentMisroute, WarmStartSeed | Over any switches to 0..3 and calls, each forward solve starts from its own model's latest pose, and every successful call ran the selected model. |
| `genhex_oob` | violation | NoOutOfBounds | `kinematicsSwitch(3)` then `kinematicsForward` indexes `use_lastpose[3]`. |
| `genhex_badswitch` | violation | BadSwitchLeavesState | A rejected switch changes the selector, the flags and the pins. |
| `switchkins` | pass | TypeOK, PinsSettled | In all four modules, every load outcome and switch sequence leaves the pins announcing exactly the selected type once `kinematicsSwitch` returns, whenever the HAL component is up. This includes the load without a component, which ends in the NULL write. |
| `switchkins_trt_startup` | violation | StartupSound | xyzac/xyzbc report a successful load when switchtype2 setup fails. |
| `switchkins_genser_route` | violation | NoSilentMisroute | genser runs identity kinematics, and succeeds, for a type that was rejected. |
| `switchkins_trt_route` | violation | NoSilentMisroute | xyzac/xyzbc announce switchtype2 but run identity kinematics. |
| `identity` | pass | TypeOK, ForwardCopies, InverseCovers | Without duplicates, forward and inverse copy exactly the mapped joints. |
| `identity_duplicates` | violation | InverseCovers | With duplicates (trivkins), inverse writes only the last joint of a duplicated axis. |

### Bounds and why they are enough

- **`CoordMap`.** Three joints and strings of up to four characters. This reaches:
  - every exit of the loop;
  - the limit with one letter too many;
  - `max_joints` equal to, below and above `EMCMOT_MAX_JOINTS`;
  - duplicates, upper and lower case;
  - whitespace inside and at the end of a string;
  - an invalid character.
- **Dispatchers.** Requests 0..3 are the three valid types and one value `kinematicsSwitch` rejects. Two results per forward solve are enough to tell a model's latest pose from an older one.
- **`Identity`.** Three joints over the axes X, Y, Z and two values. This gives every table shape with 1 to 3 letters, and a value that differs from a stale one.
- **Startup.** Every setup step can fail on its own, so every error path of `rtapi_app_main` runs.

### Fairness and deadlock

- **Fairness.** Only `CoordMap` assumes fairness: `WF_vars(Next)` for a function that runs to completion once called. That is what `Termination` relies on. The dispatchers are driven by the motion controller, which may stop calling at any time, so they assume no fairness and have no liveness property.
- **Deadlock.** `Switchkins` and `Identity` disable deadlock checking because a failed load really ends in a state with no more calls (in `Switchkins`, so does the NULL pin write that ends the process). `CoordMap` disables it because the function's return is its final state.

## Findings

The violation runs document four code bugs and four divergences from `spec.md`:

- **Trailing whitespace** (kins_util.c:59). A `coordinates` string ending in whitespace is rejected.
- **Off-by-one write** (kins_util.c:50). When `max_joints == EMCMOT_MAX_JOINTS`, a letter is written past the caller's table.
- **genhex out-of-bounds access** (genhex-switchkins.c:106). After a rejected switch, `kinematicsForward` reads and writes outside `use_lastpose[]` and `lastpose[]`.
- **Rejected switch changes state** (genhex-switchkins.c:64). A rejected switch is not side-effect free, contrary to spec 4.5.
- **xyzac/xyzbc startup success on failure** (xyzac-trt-switchkins.c:282). A failed switchtype2 setup returns 0. The module then serves calls with no HAL component: forward and inverse succeed through identity, and the first `kinematicsSwitch` writes through a NULL `haldata`.
- **genser bad type runs identity** (genser-switchkins.c:92). A bad type silently runs identity kinematics.
- **xyzac/xyzbc type 2 runs identity** (xyzac-trt-switchkins.c:137). Type 2 is announced but identity kinematics runs.
- **Duplicate joints left stale** (kins_util.c:131). With duplicate letters, the inverse leaves all but one joint of an axis unwritten.

## What is proved

`GenhexSwitchkins_proofs.tla` proves, with TLAPS, for every set of requests `Requests \subseteq Nat` and every `NVals \in Nat \ {0}`:

- `TypeCorrect`: `Spec => []TypeOK`.
- `IInvariant`: `Spec => []IInv`.
- `WarmStartSeedHolds`: `Spec => WarmStartSeed` (an action property).
- `NoSilentMisrouteHolds`: `Spec => []NoSilentMisroute`.

### Why an inductive invariant is needed

`WarmStartSeed` is not inductive on its own. It says a forward solve starts from the latest pose of its own model, which needs several facts about the state between calls.

The strengthening `IInv` is `TypeOK` together with:

- `CacheIsHistory`: every cache slot is the latest pose its model produced;
- `BufferHoldsActivePose`: unless a seed is pending for the active model, the caller's buffer still holds that model's latest pose;
- `PinsNameSelector`: the pins are the one-hot pattern of the selector;
- `SuccessRanSelected`: a successful call ran the selected model.

With those facts, each forward step starts either from the cache (a seed was pending) or from the buffer (which holds the same pose). `kinematicsSwitch` is the only action that can change the active model, and it raises the seed flag.

### How the proof is laid out

- `IInvStep` has one step per action and, under it, one step per conjunct.
- The action property follows from `IInv /\ [Next]_vars => [WarmStartStep]_vars`.
- Each temporal theorem ends `BY ..., PTL DEF Spec`.

`TypeCorrect` and the later theorems rest on lemmas about the helpers (`OneHot`, the result records, the zero pose) and on `TypeInit`/`TypeStep`. The assumptions used are `RequestsAssumption` and `NValsAssumption`, which the runs evaluate.

### Switchkins

`Switchkins_proofs.tla` proves, for every set of modules `Variants` and every set of requests `Requests \subseteq Nat`:

- `TypeCorrect`: `Spec => []TypeOK`.
- `IInvariant`: `Spec => []IInv`.
- `PinsSettledHolds`: `Spec => []PinsSettled`.

`PinsSettled` is not inductive on its own. A `kinematicsSwitch` leaves the pins mid-write. The strengthening `IInv` is `TypeOK` together with:

- `ReadyOnlyLoaded`: the component is ready only in a loaded module;
- `PendingOnlyLoaded`: pin writes are pending only in a loaded module;
- `WrittenPinsSettled`: in a loaded module whose component is up, every pin that is not among the pending writes already holds the value of the selected type.

A switch puts every pin in the pending writes (lemma `PinOrderFacts`), so `WrittenPinsSettled` holds trivially right after it. Each `WritePin` settles the head pin, and a pin neither at the head nor in the tail was never pending (lemma `NotInTail`). Setup steps do not touch the pins, and `ReadyOnlyLoaded` rules out a ready component while loading. A pin write without a component (`WritePinNoComponent`) ends the module and leaves nothing pending. Once no writes are pending, `WrittenPinsSettled` covers every pin, which is `PinsSettled`.

### Identity

`Identity_proofs.tla` proves, for every `EMCMOT_MAX_JOINTS`, `MaxJointsArg`, `AxisSet` and `Vals`, and for both values of `AllowDuplicates`:

- `IInvariant`: `Spec => []IInv`.
- `TypeCorrect`: `Spec => []TypeOK`.
- `ForwardCopiesHolds`: `Spec => ForwardCopies`.

It also proves `InverseCoversHolds`: `AllowDuplicates = 0 => (Spec => InverseCovers)`. This covers the switchkins modules. trivkins allows duplicates, and there the run `identity_duplicates` shows that `InverseCovers` fails. So the hypothesis states what is true, not what is convenient.

`IInv` says that before setup no axis has a joint and no call has run. After setup, the table is one the mapper returns, and `JointOfAxis` holds:

- each axis that some joint names has in `J` the *last* of those joints;
- every other axis has -1.

This is what the loop of `identityKinematicsSetup` does: it overwrites `J` at each joint, so the highest index wins. `AssignJoints` states it as a `CHOOSE` of the greatest joint naming the axis. The proof needs that greatest joint to exist for every table. Lemma `LastJointExists` shows this without an induction: it takes the least of the distances `EMCMOT_MAX_JOINTS - 1 - k`, using `WFMin` and the well-foundedness of `<` on `Nat`. `AssignLast` and `AssignNone` then give the value of `J` after setup. Forward reads through `J`, so `ForwardCopies` holds whether or not letters repeat.

Only `InverseCovers` needs the singleton fact of lemma `UniqueJoint`: without duplicates, the last joint is the only joint naming the axis.

### CoordMap

`CoordMap_proofs.tla` proves, for every `EMCMOT_MAX_JOINTS`, every set of strings `Inputs \subseteq Seq(STRING)` and every set of integer `max_joints` arguments:

- `TypeCorrect`: `Spec => []TypeOK`.
- `MapCorrectHolds`: `Spec => []MapCorrect`. When the mapper returns 0, the string is one the spec accepts and the table is the spec's table.
- `IInvariant`: `Spec => []IInv`, the loop invariant both rest on.

The spec's table is stated by counting, not by recursion. `Rank(s, i)` is the number of non-whitespace characters among the first `i`, and the spec's table gives joint `j` the axis of the character of rank `j + 1`. `MCCoordMap`'s assumption `SpecMatchesReference` checks, on every string of the run, that this agrees with the letter sequence `SelectSeq` extracts. That is the natural reading of spec 4.1.

`MapCorrect` is not inductive: it speaks only of the final state. `IInv` describes the scanned prefix `1 .. idx - 1` while the loop runs:

- `jno` is the rank of the last scanned position;
- every scanned character is a letter, stored at `table[rank - 1]`;
- every joint below `jno` has a scanned letter of that rank;
- the entries from `jno` on are still -1;
- `dups[a]` is the number of scanned letters of axis `a`;
- `found = 1` only right after a letter.

Each loop step extends the prefix by one position (lemma `RankStep`: the count grows by one at a letter, by none at whitespace). So the invariant is kept without an induction over the string, and at `LoopEnd` the prefix is the whole string. The proof has one lemma per action (`BogusStep`, `InitTableStep`, `ScanLetterStep`, `ScanWhitespaceStep`, `ScanInvalidStep`, `LoopEndStep`, `CheckResultStep`) and `IInvMapCorrect` for `IInv => MapCorrect`. It uses the finite-set lemmas of `FiniteSetTheorems` for the cardinalities.

## Only model-checked

- **Liveness.** `Termination` of the mapper is a liveness property under fairness. It is outside the prover's reach (LS4 handles only propositional temporal steps, and reasoning about `ENABLED` is not supported).
- **The reference comparison.** `SpecMatchesReference` relates the counting definition to `SelectSeq`, which is recursive. It is evaluated by TLC on the run's strings only, since a proof would need induction over sequences.
- **`Identity`'s `InverseCovers` with duplicates allowed** (trivkins). It is false; see Findings.
- **`Switchkins`' `StartupSound` and `NoSilentMisroute`, and `GenhexSwitchkins`' `BadSwitchLeavesState` and `NoOutOfBounds`.** The code violates them (see Findings), so there is nothing to prove.

## Not modelled

- **Real-valued geometry.** The trunnion transforms (xyzac 82-127, 143-185; xyzbc likewise) are trigonometry on doubles, and the calibration pins they read are doubles. So is the per-field pose copying beyond the abstraction above.
- **Advisory printing.** `identityKinematicsSetup`'s printing (142-174) and all log messages are output only.
- **`kinematicsType` and trivkins' `kinstype` parsing.** They do not change the kinematics.
- **`genhexkins.c`.** It only delegates to the solver outside this code.
- **The flags of `kinematicsHome`.** The flags are not modelled; `kinematicsHome` is modelled as the forward call it makes.
- **`hal_exit(0)` after an early setup failure** (genhex-switchkins.c:188, xyzac 282). The HAL library is outside this code.
- **Unchecked `hal_malloc` in xyzac/xyzbc.** The unchecked result is a NULL dereference in the loader.
- **genhex GUI pose.** Its solver is external; only its return code is modelled.

## Plan

The next steps:

1. Compose `CoordMap` and `Identity`, so that the table `Identity` starts from is computed step by step rather than taken from the checked result set.
2. State the round-trip law of spec 8 (forward then inverse restores every mapped joint) as a property of the composition, with the inverse writing into a fresh joint array.
3. State an abstract dispatcher with a per-model cache (spec 4.5) that admits the load without a component the code has, and refine `GenhexSwitchkins` and `Switchkins` to it.
4. Model the joint-slot check of the trunnion modules (`JX`..`JC`, xyzac 260-273) against the identity table.
