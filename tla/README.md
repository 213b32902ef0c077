# ZBeam in TLA+

ZBeam is flashlight firmware for Zephyr: one button, one beam, and a tree of
modes navigated with clicks and holds. This directory holds TLA+ models of its
control logic, the TLC runs that check them and proofs that TLAPS checks.
`PROJECT.json` lists the runs, the lines every definition models, the faults
each property is known to catch, the findings and the hazards.

Paths below are relative to the repository. Run a check with
`tlc -config X.cfg M` and a proof with `tlapm M.tla`.

## 1. The system

| Component | State | Operations | Talks to |
|---|---|---|---|
| `lib/multi_tap_input.c` | `current_state`, `click_count`, `is_holding`, two timers | key down, key up, click timeout, hold timeout, reset | posts `TAP`, `HOLD_START`, `HOLD_RELEASE` to the worker's queue |
| `lib/fsm_worker.c` | the message queue | post (drops when full), take and handle | calls the engine |
| `lib/fsm_engine.c` | `current_node`, `previous_node`, `home_node`, inactivity timer, emergency flag | dispatch, transition, inactivity timeout, emergency off | callbacks and action routines of the nodes |
| `src/ui_simple.c`, `src/ui_advanced.c` | constant node tables | callbacks | engine, `ui_actions` |
| `src/ui_actions.c` | brightness, memory, floor, ceiling, ramp, strobe, style, mode; timers thermal, ramp, strobe, buzz | action routines, timer handlers, menus | channel manager, NVS, pm, aux, batteries |
| `lib/safety_monitor.c` | `last_readings`, `current_fault`, `shutdown_triggered` | the 10 Hz loop | posts shutdown and warning to the queue |
| `lib/pm_manager.c` | `is_suspended` | suspend, resume | called by the actions |
| `lib/thermal_manager.c` | temperature, PID terms, throttle factor | PID update, calibration | read by the channel manager |
| `src/channel_manager.c` | mode | apply a mix | PWM |
| `src/batt_check.c` | calibration offset | read, blink digits, calibrate | ADC, NVS |
| `lib/aux_manager.c` | mode, blink state | cycle, blink timer | GPIO |
| `lib/nvs_manager.c` | flash | init, write, read, wipe | flash |
| `src/pwm_ramp_*.c` | brightness, `ramp_active` | init, start, stop | PWM hardware |
| `src/main.c` | none | the boot sequence | all |

`lib/storage_manager.c` and `lib/n_tap_input_handler.c` have no caller.

Four contexts run this code: the input thread (key events), the FSM worker
thread, the safety monitor thread and the timer interrupt. There are no locks.
The hard behaviour follows from that:

* the timer interrupt gets between any two statements of a thread, and the
  inactivity handler even executes transitions and action routines there;
* all posters share one bounded queue whose post drops silently;
* the worker may sleep for seconds in a blink code;
* the worker, the safety monitor and the input callback exist before `main` has
  initialised what they use, and some settings are read before the flash is
  mounted;
* power may go, and the flash may refuse a write, between any two statements;
* one LED is written by the action routines and by four timer handlers, so
  the order of "write the LED" and "stop the timer" decides what is seen;
* static variables survive from one mode to the next (`active_param`,
  `home_node`, `current_brightness`).

What makes each component correct: the input engine counts every press in
exactly one gesture; a menu is always left; OFF has nothing running; a ramp
only runs while the button is held and what it reached is what stays; a
shutdown is carried out, and once; levels stay within the configured range;
the throttle is slow, but not when it is critical, and finds its way down and
back; the emitters show one mix; what is saved is what the next start applies,
and it applies a usable range whatever was lost on the way.

## 2. The modules

| Module | Models | Correspondence |
|---|---|---|
| `Gestures` | the promise of the input engine | presses pending, the hold in progress, messages posted |
| `MultiTapInput` | `lib/multi_tap_input.c` | `pc` is the statement the input thread has reached; one action per statement that touches a timer or shared state; the two handlers are atomic |
| `MultiTapInput_proofs` | | theorems about it |
| `UiNodes` | the node tables | maps, callbacks, timeouts and action routines as functions of the node |
| `RampLogic` | the arithmetic of `ramp_timer_handler` | one operator per ramp style |
| `RampSweep`, `MCRampSweep` | a ramp that is held | byte arithmetic over many configurations |
| `RampSweep_proofs` | | theorems about it |
| `ZBeamUi`, `MCZBeamUi` | `lib/fsm_engine.c` with the callbacks, `src/ui_actions.c`, `lib/pm_manager.c` | see below |
| `ZBeamUiHistory` | | the properties of `ZBeamUi` about ramps, with a history variable, `torn`: see section 3 |
| `ZBeamUi_proofs`, `ZBeamUiHistory_proofs` | | theorems about them |
| `FsmWorker` | `lib/fsm_worker.c` | queue, message in progress, and of the engine only the emergency flag; what the routines do to the light is in `ZBeamUi`, statement by statement |
| `SafetyMonitor`, `MCSafetyMonitor` | `lib/safety_monitor.c` with `FsmWorker` and the user | `step` is where the loop stands |
| `SafetyMonitor_proofs` | | theorems about it |
| `ThermalManager`, `MCThermalManager` | `lib/thermal_manager.c` | the PID update as operators, one per stage, in thousandths of a degree; one tick is one action, a calibration is three, because ticks come in between |
| `ThermalManager_proofs` | | theorems about it |
| `ChannelManager` | `src/channel_manager.c` | the weights and the mix as operators of mode and level; no state |
| `LightOutputs` | `channel_apply_mix` where it is called: action routines in the worker, regulation and ramp in the interrupt | `todo` is what the worker has still to execute, one write of one emitter at a time |
| `LightOutputs_proofs` | | theorems about it and `ChannelManager` |
| `AuxManager` | `lib/aux_manager.c` | timer, work item and LED; `aux_pending` is the item in the work queue |
| `BattCheck` | `src/batt_check.c` | the corrected voltage and its calibration as operators |
| `Settings` | the promise of the settings | a current and a stored value for each; loss of power; what a start restores |
| `Boot` | `src/main.c`, `ui_init`, `lib/nvs_manager.c`, the callbacks that save a setting | `main` is how many statements of `BootSequence` are done; `job` is what the worker has still to execute, one deletion, assignment or write at a time |
| `Boot_proofs` | | theorems about it |

`ZBeamUi` is an interpreter of statements. The worker's remaining work is the
sequence `todo`; `WorkerCalls` replaces the statement at its head by the body
of the C function it calls, `WorkerExecutes` executes it. `isr` is the same for
the inactivity handler, which runs to its end while the thread waits. A
function that decides on the current node (`dispatch_input` looks up the
callback, later the map) is expanded when it is reached, so it sees the node
the interrupt has put there. The other four handlers are one action each and
may come between any two statements. The record `ui` holds the static variables
of `ui_actions.c` under their names shortened (`brightness` is
`current_brightness`), `led` is the last value given to `update_led_hardware`.

Undefined behaviour is left open: `k_msleep` in an interrupt, and
`k_timer_init` on a timer that is running, either do nothing special or reset
the light (`IsrCrashes`, `WorkerCrashes`), and the next boot finds in flash
what was saved.

`Boot` leaves it open, too: an emergency before `fsm_init` follows a null
pointer, and a key before `multi_tap_input_init` starts a timer that is then
initialised; each may go unnoticed, reset the processor or halt it. The worker
has a lower priority than `main`, so it runs while `main` sleeps and when it has
finished. A flash is good, worn (it may refuse a write) or broken (it cannot be
mounted) until the next start.

An operator whose name ends in a remark (`stop_ramping_NoStop`) is a plausible
fault of the operator it precedes; no specification uses it. The runs' properties
have been seen to fail when it is put in that operator's place.

## 3. The runs

| Run | Shows |
|---|---|
| `MultiTapInput` | the engine implements `Gestures` under every interleaving; every press is reported; the inductive invariant of the proofs holds |
| `RampSweep` | level in range, turns only at the ends, both ends visited for ever, for the floors and ceilings the menu can set |
| `UiRamp` | the advanced UI with ramps (1H, 2H), turbo, checks and every menu of 7H offered together, automatic memory: a ramp runs only while held, OFF is quiet, ON shows its level, an inactivity timer has its place (together `SaneAtRest`); a ramp torn by the inactivity handler goes no further than OFF; ON keeps the level a ramp was released at, whatever tick comes in between |
| `UiAdvanced` | both UIs, started in either, switched with 10H, under hybrid memory: strobe, unlock to floor, checks, aux, factory reset, shutdowns: the parts of `SaneAtRest` one by one, only a ramp changes what is remembered, and a released ramp leaves its level or the manual one |
| `UiMenus` | floor, ceiling, the calibrations of voltage and temperature, and the two checks, with their timeouts: a user who stops is brought out of every one of these |
| `SafetyMonitor` | at most one shutdown is ever on its way or done; one that is in the queue is carried out, whatever is ahead of it or posted behind it |
| `ThermalManager` | no step moves the throttle by more than ten levels down or two up, a failing sensor and a tick inside a calibration included; a critical tick takes five; a light that stays hot ends at the minimum, one that stays cool at full power |
| `LightOutputs` | in every mode but the tint, a brighter level never dims an emitter and never drives it above the level; the sequential mode goes in order; a mix that a tick has torn is put right while the regulation runs |
| `AuxManager` | a mode that is left set is shown in the end, the blink blinks and the sine breathes past the wraps of their counters |
| `Boot` | the light comes up with the saved settings (those read after the mount), with floor below ceiling, through power loss at any statement, refused writes and interrupted factory resets; a finished factory reset leaves nothing; boot and menus implement `Settings`; calibrating again brings the reading to what the user gave |

Two runs end in a violation: each checks one sentence of the
documentation which the code does not keep. The `findings` of
`PROJECT.json` quote the sentence and name the line.

| Run | What goes wrong |
|---|---|
| `UiDarkOff` | a tick of the thermal timer between the statement that puts the LED out and the one that stops the timer: OFF stays lit |
| `SafetyDropped` | a full queue drops the only shutdown message |

### The exception for a torn hold

The engine has no lock. A hold is looked up twice: first a callback of the
node, which may start the ramp, then the entry of the map, which enters the ramp
node (`fsm_engine.c:135-145`). When the inactivity handler comes in between, the
two are looked up in different nodes. `ZBeamUiHistory` records that as `torn`: a
variable no statement of `ZBeamUi` reads, set when the handler comes in while a
hold is in progress, cleared when the light waits with nothing left of a ramp
(`Settled`). `RampOnlyWhileHeld`, the ramp's part of `OffIsQuiet`,
`OnlyRampsAreRemembered` and `ReleaseLocksLevel` are claimed of every user at
every moment at which the light is not torn. Without that exception they are
false: the handler has to be served while the worker looks up a hold, and what
follows is listed below. `StrayRampStaysInOff` bounds the damage:
with the button released, such a ramp goes on in OFF and in the aux menu and
nowhere else; every other node has ended it.

### Where the properties stop

The models contain the following behaviour too. It was met while the properties
were written, and it is why some of them are not stronger, or are not checked in
every run. No run is devoted to it.

In the UI, the engine and the safety monitor:

* The inactivity handler changes nodes in the timer interrupt, and with them it
  runs action routines that call `k_msleep` (`fsm_engine.c:36`), although
  `lib/fsm_worker.c:5` promises "a safe, non-ISR context". `IsrCrashes` is the
  step.
* `action_strobe` sets `active_param` to the frequency and nothing sets it back
  (`ui_actions.c:483`): later ramps change and save nothing, against
  `docs/architecture.md:59`, "lock current level". So `ReleaseLocksLevel` speaks
  of ramps while `active_param` is the brightness.
* Nothing clears `shutdown_triggered` and nothing reads
  `emergency_shutdown_active`: a light that is switched on again after a shutdown
  is never put out (`safety_monitor.c:99`; `Kconfig:147`, "Temperature at which
  emergency shutdown is triggered").
* A stepped ramp with 150 steps gets stuck between two steps that round to each
  other (`ui_actions.c:159`). `RampSweep` uses step counts up to 100.
* With floor = ceiling a stepped ramp goes one above the ceiling (`ui_actions.c:156`);
  the assumption `Separate` excludes it.
* When a battery check times out between two statements of `start_ramping`
  (`ui_actions.c:193-217`), the interrupt's `action_off` clears `ramp_active`
  before the timer starts, and the level that is reached is not kept.
  The light is torn then, and `ReleaseLocksLevel` does not speak of it.
* Manual and hybrid memory replace the level a ramp was released at
  (`ui_actions.c:396`): ON does not know why it was entered. `ReleaseLocksLevel`
  says which levels each memory mode may choose.
* Lockout leaves the thermal timer running, which lights the beam again
  (`ui_actions.c:448`).
* The emergency routine and the menu timeouts leave the buzz timer running
  (`fsm_engine.c:186`, `ui_actions.c:519`). `OnShowsItsLevel` excepts an ON where
  it runs; `OffIsQuiet` does not speak of it.
* The blink that confirms a change of the aux mode restores the last level, not
  darkness, when it is used from OFF (`ui_actions.c:497`).
* After 10H, `home_node` is still the OFF node of the other UI
  (`ui_actions.c:638`).
* Turbo, and ramps from OFF, run without the thermal timer (`ui_actions.c:435`).
* A timeout at the moment of a click leaves the inactivity timer running in ON
  (`fsm_engine.c:27`). `TimeoutHasItsNode` allows exactly that: home and the
  nodes where a menu ends, and no ramp, turbo or strobe; that it allows no more
  is proved.
* 2H, after such a timer was left running in the ON of the advanced UI
  (`fsm_engine.c:135-140`): the callback of 2H on ON starts the ramp, the handler
  takes the light to OFF before `k_timer_start`, and OFF has no entry for 2H. The
  ramp then goes on in OFF, the button released or not. Two timeouts have to fall
  between two statements each; `UiRamp` reaches this, and the light is torn.
* The safety status stays OK on a second fault (`safety_monitor.c:99`).
* A full queue also drops `HOLD_RELEASE`, and the ramp goes on
  (`fsm_worker.c:88`).

In the throttle and the outputs:

* "If error > 0 (Hot), we must decrease factor" (`thermal_manager.c:126`) is not
  kept while the temperature falls fast: the derivative can make a light
  brighter up to ten degrees above the limit, where `CriticalDrops` takes over.
* Within about one degree of the limit the terms round to nothing
  (`thermal_manager.c:162`) and the throttle stays where it is, so `HotSettles`
  and `CoolRecovers` keep two degrees of distance.
* A sensor that fails counts as 25 degrees and releases the throttle
  (`thermal_manager.c:90`). There is no recovery while the light is off: the
  factor is updated by the thermal timer only.
* The minimum factor of 2 leaves nothing of a level below 128: a throttled moon
  is dark. A temperature below zero is blinked as some 250 degrees
  (`ui_actions.c:466`).
* A mix that a tick has torn stays until the next tick, so for ever where the
  thermal timer does not run (turbo and ramps from OFF, lockout).
  `EmittersConverge` assumes that it runs.
* `CHANNEL_MODE_AUTO_TINT` drives the warm emitter fully at level 0
  (`channel_manager.c:69`), and the sequential mode is dark at the lowest levels.
  No node calls `action_channel_cycle`, so the only modes in use are those of
  `channel_init`; the others are checked as if it were called.
* The blink of the aux LED has one irregular period when `ticks` wraps.

In the settings:

* `thermal_init` and `batt_init` read the flash before `nvs_init_fs` has mounted
  it (`ui_actions.c:659-675`). The thermal limit and both calibrations are saved
  and deleted, but never restored, against `docs/kconfig_dts_guide.md:99-102`.
  `AppliesWhatIsSaved` and `ImplementsSettings` are about the settings that are
  read after the mount (`LateKeys`).
* The repair of a ceiling below the floor (`ui_actions.c:549`) cannot be reached
  with ten clicks. With a floor of 255 its addition would wrap to 0. Kconfig
  allows such a floor, and floors above the ceiling: `RangeAssumption` excludes
  both.
* "Round to nearest 100mV" (`batt_check.c:97`) is off by up to 149 mV for a
  negative sum, and a reading that was cut at 0, or an ADC that failed, spoils
  the next calibration. 42 clicks for 4.2 V are more than `MAX_NAV_SLOTS`, so a
  battery cannot be calibrated to its voltage at all (`fsm_engine.c:104`).
* An emergency before `fsm_init` dereferences `home_node` while it is null
  (`fsm_engine.c:191`). `ComesUp` therefore allows the kernel to have halted.

### Bounds

* `MultiTapInput`: `MaxClicks = 4` presses per gesture, `CountMod = 3` so that
  the wrap of the count happens within them, `MaxPosted = 4` messages of
  history: two complete holds, or a hold between clicks. The proofs have no
  such limits.
* `RampSweep` uses real bytes: floors 1, 4, 10 and ceilings 246, 251, 255 (what
  ten clicks can set), steps 0 (repaired to 7), 2, 3, 7, 100, and ten start
  levels. `SweepsWholeRange` is checked there only, the range and the turns
  are proved for all.
* `ZBeamUi`: `MaxLevel` 3 to 6 instead of 255: floor, memory and manual level are
  distinct, the ceiling is the manual level in `UiAdvanced` only, and a stepped ramp
  has two or three steps; `Taps` and `Holds` are the counts for which some node in the run has an
  entry. Counts above 10 are rejected by `dispatch_input` and not offered.
  Levels and steps are bytes (`LevelsAssumption`), and where 7H is offered, no floor
  and ceiling that clicks can set meet (`InputAssumption`): ten clicks cannot bring
  the floor of 1 and the ceiling of 255 together. The proofs have no other
  limits.
* `UiRamp` offers 1, 2 and 3 clicks and 1H, 2H and 7H: every ramp, turbo, check and
  menu of the advanced UI; no strobe, lockout, aux menu or shutdown. `UiMenus` offers the
  same clicks and 7H only, since liveness takes more time. Floor and ceiling move
  by up to three of six levels.
* `UiAdvanced` starts in both modes, with one to five and seven clicks and with 1H to
  4H and 10H: every entry of both UIs but those of 7H (the menus, which are in the
  two runs above).
* `ThermalManager` has the default gains and limit and the code's units; a full
  throttle of 20 levels instead of 255, more than the critical drop and the rate
  limit together; three temperatures, one between the two limits that occur (45
  and 40 degrees) and two critical ones, one calibration and one new limit. The
  proofs have no such limits.
* `LightOutputs`: three emitters and a full level of 16 instead of 255, which the
  slices of the sequential mode do not divide evenly; two levels of the
  memory besides floor and ceiling, and two factors, so that a tick between two
  writes of a mix has another mix to write.
* `AuxManager`: counters small enough to wrap, `TickMod` no multiple of the blink
  period, as 2^32 is not.
* `Boot`: real bytes; one count of clicks and two voltages, of which one is cut at
  0 after a calibration; five settings, of which `UI_MODE` stands for the ramp
  style and the memorised level as well, `THERMAL_LIMIT` for the temperature
  offset. The proofs are for every count up to ten and every voltage to 10 V.
* `SafetyMonitor`: a queue of 4 (the smallest Kconfig allows; the default 8 only
  takes longer to fill), readings as classes relative to the thresholds.

### What is assumed of the environment

* The user is arbitrary, except that `ZBeamUi` gets gestures in the order that
  `MultiTapInput` guarantees (`HoldsBracketed`); losing a release is looked at
  in `SafetyMonitor`.
* The input subsystem may lose key events: two presses in a row are possible.
* A timer that was stopped does not expire; a running one may expire at any time.
  An exception is the inactivity timer: its seconds pass only while the worker
  waits or sleeps, after which it may be served between any two statements.
* Fairness: `MultiTapInput` assumes that the input thread and the two armed
  timers go on; `ZBeamUi` that the worker, the interrupt and the inactivity
  timeout do (Zephyr runs a ready thread and an interrupt to its end);
  `SafetyMonitor` that both threads get the processor again and again (the
  monitor sleeps 100 ms each turn, every blink code ends). No fairness is
  assumed of the user or of the four periodic timers of `ZBeamUi`.
  `ThermalManager` and `LightOutputs` assume that a thermal timer that runs goes
  on expiring and that the worker goes on; `AuxManager` that its timer, which is
  never stopped, and the work queue do; `Boot` that `main` and the worker are
  scheduled when they are ready. Power loss and refused writes are never fair:
  `ComesUp` is about a light whose power stays.
* In `RampSweep` the ramp timer goes on ticking: the button is held.

## 4. The proofs

`MultiTapInput_proofs` proves, for every `CountMod`, `MaxClicks` and
`MaxPosted`, the inductive invariant `IInv` and from it `TypeOK`,
`PressHasItsTimer`, `HoldsBracketed` and the refinement `ImplementsGestures`.
None of the three invariants is inductive: `PressHasItsTimer` only speaks of
the thread at rest. `LocationInv` says what the thread may rely on at each
statement, in particular at `down_wait` and `up_stop`, where a handler may
still get in front of it; `OpenHoldInv` ties `is_holding` to the last message,
which `HoldsBracketed` needs when a release is posted. The refinement goes step
by step: key events and handlers map to `Press`, `ReportTap`, `StartHold`,
`EndHold` and `Restart`, everything else stutters.

`ZBeamUi_proofs` and `ZBeamUiHistory_proofs` prove the safety properties of the UI
runs but one (`StrayRampStaysInOff`, which TLC checks), for every range of levels,
every number of steps, every memory mode and every set of click counts the
assumptions of `ZBeamUi` allow: nothing is assumed of which gestures the user
combines. The worker and the inactivity handler
execute the same functions without a lock, so each invariant speaks of the
statements that are pending: what a timer or a variable may be now depends on what
either is about to execute. At rest nothing is pending, and what remains is the
property. The groups of invariants, each resting on those before it:

* `IInv`, `ShapeInv`, `NodeInv`: where the handler may come in. A node is assigned
  only right after the timer was stopped (`EntersAfterStop`), and when the worker is
  about to assign one, the timer is stopped and no handler in progress, so neither
  gets between the other's two statements; the worker is about to start the timer
  only in a node where it may run; and a handler goes home or to where a menu ends
  and nowhere else. This gives `TimeoutHasItsNode`. `FlagInv`, `LevelInv` and
  `DueInv` are the types of the static variables, of which `TypeOK` is made, and
  `QuietInv` follows the thermal and the strobe timer through the routines that
  stop them: in OFF, with nothing pending, neither runs (`RegulationAndStrobeStopped`).
* `BrightInv`, `OrderInv`, `BuzzInv`, `LedInv`, `OnInv`: a light that was lit
  once has a level above zero, a level that is chosen is shown next, and when ON
  shows anything else than its level, a statement that shows it is pending, or the
  buzz of a menu runs. `MsgInv`, `CfgInv` and `OnRampInv` say what may still be
  looked up and where a ramp begun in ON is headed. They give `OnShowsItsLevel`,
  torn or not.
* `RampInv`, in `ZBeamUiHistory_proofs`: when the ramp timer runs or its flag is
  set, the light is in a ramp node with the button held, or the statements that
  stop the timer or enter the ramp are pending. It is inductive as long as no handler
  comes in under a hold (`NoTear`), and a settled light satisfies it whatever
  happened before, so `WholeInv`, which claims it of a light that is not torn, is
  inductive of all. With it `RampOnlyWhileHeld`, `OffIsQuiet`,
  `OnlyRampsAreRemembered` and `SaneAtRest` are proved.
* `LockInv`: the brightness on its way from the ramp into ON. `WayIn` follows a
  ramp from the hold to its node, `InRamp` says that its flag stays set while the
  button is held, `WayOut` what is pending between the release and `level_on`,
  and `Kept` that from the moment the memory was saved until ON chooses, memory and
  brightness are equal: the timer is stopped first, and no pending statement and no
  other timer changes either. `OneShot` takes care of the override, which would
  replace the level: it is set only on the way from lockout into ON. The result is
  `ReleaseCorrect`, that `level_on` chooses what `LockedLevels` allows.

The lemmas show that the body of every callback, action routine and engine
function keeps this: most of them neither navigate nor touch the timer or the
variable in question (`Plain` and its like), the others are gone through one by
one. Statements are records of many shapes, so nothing is assumed of their types.
Parts that say `IsSeq` cannot be evaluated, as that is about a sequence of
anything; the other parts were model-checked in small instances before
they were proved. `HistoryKeeps` shows that the history adds no behaviour, so that
what is proved of `ZBeamUi` holds of `ZBeamUiHistory`.

`SafetyMonitor_proofs` proves `TypeOK` and `ShutdownOnce` for every queue
depth and every set of readings. `ShutdownOnce` is inductive together with
`TypeOK`: the latch is set before the message exists, so no second one follows,
and the queue, the message in progress and the flag are disjoint places for it.

`RampSweep_proofs` proves `TypeOK`, `StaysInRange` and `BouncesAtTheEnds` for every
set of floors that lie below every ceiling, any step count and any start level: a
byte never wraps, a stepped tick ends between floor and ceiling from wherever it
started, and a ramp changes its direction only where it has reached an end. The assumption `Separate` (floor below ceiling) is needed: with floor
and ceiling equal, the repaired range of 1 takes a stepped ramp one above it. The
two lemmas
on division and multiplication carry the argument.

`ThermalManager_proofs` proves `TypeOK`, `RateLimited` and `CriticalDrops` for
every gain, every set of temperatures and any number of levels. The controller's
terms are unbounded integers there, so nothing may be said about their size: the
argument is that `FactorChange` ends in a clamp and that the critical drop
comes after it and before the last one. Lemmas say so of `Clamp`, `Integral`,
`FactorChange` and `NewFactor`; `TypeOK` is inductive with them. That integers do
not overflow is not part of it: within the ranges Kconfig allows, the products
stay below 2^31 for any sensor value of some hundred degrees.

`LightOutputs_proofs` proves `SequentialInOrder` and `BrighterIsBrighter` (which
excepts `AUTO_TINT`) for every number of emitters, every full level and every set
of levels and factors within it. Everything rests on rounding: the lemmas
`Rounds`, `Products`, `Quotients` and `Parts` say what a quotient keeps of an
order, `Slices` and `Starts` where the share of an emitter begins when the range
does not divide evenly, `SequentialGrows` and `LevelGrows` that a share grows
with the level. The inductive invariant `IInv` adds to `TypeOK` that
every pending write of the worker names an emitter and a level in the range, so
that whatever is written between two ticks can be scaled again. This type invariant is proved and not run: for finite instances TLC finds nothing
that the proof leaves open.

`Boot_proofs` proves, for every configuration within `RangeAssumption`, the
inductive invariant `IInv` and from it `TypeOK`, `LimitsOrdered`,
`AppliesWhatIsSaved`, `FactoryResetForgets` and the refinement
`ImplementsSettings` (the first and the last about the settings read after the mount,
`LateKeys`: thermal limit and offsets are not among them). None of the last three invariants is inductive. `JobInv`
gives the shapes of what the worker has still to do (a change, a write, a factory
reset from some id on, a reboot); `LimitsInv` bounds floor and ceiling in memory
and in flash by values that are ordered however they are combined, which a
refused write or an interrupted reset needs; `BootInv` says what `main` has
restored at each statement, `SyncInv` what memory and flash have in common while
a change is in progress, `WipeInv` which ids are already deleted. In the
refinement a restart is `Lose`, the end of `main` is `Start`, an assignment, a
write and a deletion are `Set`, `Save` and `Forget` of one setting or stutter.
`RecalibrationCorrect` proves `RecalibrationIsClose` for every voltage up to
10 V and every offset from a lemma on division that rounds towards zero.

Only model-checked: all liveness (`EveryPressReported`, `SweepsWholeRange`,
`MenusExpire`, `QueuedShutdownIsCarriedOut`, `HotSettles`, `CoolRecovers`,
`EmittersConverge`, `ShowsItsMode`, `Blinks`, `Breathes`, `ComesUp`), because the
prover has no support for fairness, and `StrayRampStaysInOff`. Every other safety
property of a passing run is proved as well. The two violations are counterexamples, which TLC finds.

## 5. Not modelled

The strobe frequency, the time the light was off (hybrid memory may answer
either level), timeouts that revert (no node uses them), message types nothing
posts, `fsm_process_timer` (no timer message is posted), the ADC's failure and
the digits that are blinked, pulse widths, and these components:

* the `pwm_ramp` drivers: `main` initialises one and nothing starts a ramp on it.
  Read on their own, `pwm_ramp_stop` of the generic driver jumps to the target
  (`pwm_ramp_generic.c:79`) and two ramps may run at once; no state of the program
  reaches this;
* `lib/storage_manager.c` and `lib/n_tap_input_handler.c`, which have no caller;
* ramp tables and the scripts that generate them: constant data.

`LightOutputs` leaves strobe and buzz out, which write the LEDs too, and menu
timeouts in the interrupt; `ZBeamUi` has them, with one mix as one step.

## 6. Plan

Done: the input engine, the UI with its engine, worker and safety monitor, the
throttle, the outputs, the aux LED, the settings with boot and power loss. Open,
in this order:

1. `FsmEngine`: the engine for arbitrary node tables, with `previous_node`,
   `timeout_reverts` and the bounds check, and `ZBeamUi` as its instance.
2. `System`: `MultiTapInput`, `FsmWorker`, `SafetyMonitor` and the engine
   composed, so that a full queue and a lost release meet the UI.
3. Proofs: that `FsmWorker` implements a queue that may drop.
