---------------------------- MODULE LightOutputs ----------------------------
(***************************************************************************)
(* What writes to the main LEDs: ChannelManager called by the action       *)
(* routines of src/ui_actions.c in the worker thread and by                *)
(* thermal_timer_handler in the interrupt.                                 *)
(*                                                                         *)
(* channel_apply_mix writes the emitters one after the other.  In the      *)
(* worker, the interrupt may come in between: `todo` holds the statements  *)
(* the worker has still to run.  In the interrupt it is one step.          *)
(*                                                                         *)
(* Left out are the strobe and the buzz, which flash on purpose, and the   *)
(* action routines of a menu that times out, which the interrupt runs:     *)
(* ZBeamUi has them, and takes one mix as one step.                        *)
(*                                                                         *)
(* An operator whose name ends in a remark is a plausible fault of the     *)
(* operator it precedes; no specification uses it.                         *)
(***************************************************************************)
EXTENDS ChannelManager, Sequences

CONSTANTS
    OnLevels,          \* what action_on may find in the memory
    Floor, Ceiling,    \* brightness_floor, brightness_ceiling
    Factors            \* what thermal_update may leave in throttle_factor

ASSUME OutputsAssumption ==
    /\ OnLevels \subseteq 1..Full /\ {Floor, Ceiling} \subseteq 1..Full
    /\ Factors \subseteq 1..Full

VARIABLES
    channel_mode,      \* current_mode of channel_manager.c
    throttle_factor, current_brightness,
    thermal_timer, ramp_timer,
    emitters,          \* the level of each emitter
    todo               \* statements the worker has still to run

ledVars == <<channel_mode, throttle_factor, current_brightness, thermal_timer, ramp_timer, emitters>>
vars    == <<ledVars, todo>>

Mixed(level) == Mix(channel_mode, thermal_apply_throttle(level, throttle_factor))

ApplyMix(level) == [op |-> "mix", level |-> level]
Write(i, level) == [op |-> "write", emitter |-> i, level |-> level]
SetBrightness(level) == [op |-> "brightness", level |-> level]
Thermal(state) == [op |-> "thermal", state |-> state]
Ramp(state)    == [op |-> "ramp", state |-> state]

Init ==
    /\ channel_mode = channel_init /\ throttle_factor = Full
    /\ current_brightness = 0 /\ thermal_timer = "off" /\ ramp_timer = "off"
    /\ emitters = [i \in Emitters |-> 0]
    /\ todo = <<>>

-----------------------------------------------------------------------------
(* The user: one message taken by the worker, when it has nothing to do.   *)

Calls(statements) ==
    /\ todo = <<>>
    /\ todo' = statements
    /\ UNCHANGED ledVars

action_on == \E level \in OnLevels :
    Calls(<<Thermal("on"), Ramp("off"), SetBrightness(level), ApplyMix(level)>>)

action_turbo == Calls(<<Ramp("off"), SetBrightness(Ceiling), ApplyMix(Ceiling)>>)

action_off == Calls(<<Ramp("off"), ApplyMix(0), Thermal("off")>>)

action_lockout == Calls(<<Ramp("off"), ApplyMix(0)>>)

(* Held in lockout: moon.                                                  *)
action_moon == Calls(<<SetBrightness(Floor), ApplyMix(Floor)>>)

(* Held from OFF: moon, then the ramp.                                     *)
hold_from_off == Calls(<<SetBrightness(Floor), ApplyMix(Floor), Ramp("on")>>)

(* Held in ON.                                                             *)
start_ramping == Calls(<<Ramp("on")>>)

(* It flashes at full level and goes back to the brightness.               *)
action_aux_config == Calls(<<ApplyMix(Full), ApplyMix(current_brightness)>>)

(* Nothing is written until the next call.                                 *)
action_channel_cycle ==
    /\ todo = <<>>
    /\ channel_mode' = channel_cycle_mode(channel_mode)
    /\ UNCHANGED <<throttle_factor, current_brightness, thermal_timer, ramp_timer, emitters, todo>>

-----------------------------------------------------------------------------
(* The worker, statement by statement.                                     *)

(* Level and weights are computed from the factor and the mode of now; the *)
(* emitters are written afterwards.                                        *)
channel_apply_mix ==
    /\ todo # <<>> /\ Head(todo).op = "mix"
    /\ LET mix == Mixed(Head(todo).level)
       IN  todo' = [k \in 1..NumEmitters |-> Write(k - 1, mix[k - 1])] \o Tail(todo)
    /\ UNCHANGED <<ledVars>>

pwm_set_pulse_dt ==
    /\ todo # <<>> /\ Head(todo).op = "write"
    /\ emitters' = [emitters EXCEPT ![Head(todo).emitter] = Head(todo).level]
    /\ todo' = Tail(todo)
    /\ UNCHANGED <<channel_mode, throttle_factor, current_brightness, thermal_timer, ramp_timer>>

Assigns ==
    /\ todo # <<>> /\ Head(todo).op \in {"brightness", "thermal", "ramp"}
    /\ \/ /\ Head(todo).op = "brightness" /\ current_brightness' = Head(todo).level
          /\ UNCHANGED <<thermal_timer, ramp_timer>>
       \/ /\ Head(todo).op = "thermal" /\ thermal_timer' = Head(todo).state
          /\ UNCHANGED <<current_brightness, ramp_timer>>
       \/ /\ Head(todo).op = "ramp" /\ ramp_timer' = Head(todo).state
          /\ UNCHANGED <<current_brightness, thermal_timer>>
    /\ todo' = Tail(todo)
    /\ UNCHANGED <<channel_mode, throttle_factor, emitters>>

Worker == channel_apply_mix \/ pwm_set_pulse_dt \/ Assigns

-----------------------------------------------------------------------------
(* The interrupt.                                                          *)

TickEmitters_Forgotten(mix) == emitters

TickEmitters(mix) == mix

(* thermal_update, then update_led_hardware(current_brightness).           *)
thermal_timer_handler ==
    /\ thermal_timer = "on"
    /\ throttle_factor' \in Factors
    /\ emitters' = TickEmitters(Mix(channel_mode,
                       thermal_apply_throttle(current_brightness, throttle_factor')))
    /\ UNCHANGED <<channel_mode, current_brightness, thermal_timer, ramp_timer, todo>>

(* RampLogic says which levels; here any level of the range may follow.    *)
ramp_timer_handler == \E level \in OnLevels :
    /\ ramp_timer = "on"
    /\ current_brightness' = level
    /\ emitters' = TickEmitters(Mixed(level))
    /\ UNCHANGED <<channel_mode, throttle_factor, thermal_timer, ramp_timer, todo>>

Input == \/ action_on \/ action_turbo \/ action_off \/ action_lockout
         \/ action_moon \/ hold_from_off \/ start_ramping
         \/ action_aux_config \/ action_channel_cycle

Next ==
    \/ action_on \/ action_turbo \/ action_off \/ action_lockout
    \/ action_moon \/ hold_from_off \/ start_ramping
    \/ action_aux_config \/ action_channel_cycle
    \/ channel_apply_mix \/ pwm_set_pulse_dt \/ Assigns
    \/ thermal_timer_handler \/ ramp_timer_handler

Spec == Init /\ [][Next]_vars

(* The worker runs what it has been given, and a running timer goes on     *)
(* expiring.  Nothing is assumed of the user.                              *)
FairSpec == Spec /\ WF_vars(Worker) /\ WF_vars(thermal_timer_handler)

-----------------------------------------------------------------------------
(* Properties.                                                             *)

(* Levels of emitters fit the byte they are scaled from, in every mode and *)
(* whatever the interrupt does to a mix that is being written.             *)
TypeOK ==
    /\ channel_mode \in ModeSet /\ throttle_factor \in Factors \cup {Full}
    /\ current_brightness \in 0..Full /\ {thermal_timer, ramp_timer} \subseteq {"off", "on"}
    /\ emitters \in [Emitters -> 0..Full]

(* In every mode but the tint, asking for more never dims an emitter, and  *)
(* never takes one above what is left of the level after throttling.  The  *)
(* tint dims the warm emitter on purpose as the level rises.               *)
BrighterIsBrighter ==
    channel_mode # "AUTO_TINT" =>
        \A low \in 0..Full, i \in Emitters :
            /\ EmitterLevel(channel_mode, low, i) <= low
            /\ \A high \in low..Full :
                  EmitterLevel(channel_mode, low, i) <= EmitterLevel(channel_mode, high, i)

(* In the sequential mode an emitter is used only when the one before it   *)
(* has its full weight (docs/proposals/multi_channel_pwm.md:39-42).        *)
SequentialInOrder ==
    channel_mode = "SEQUENTIAL" =>
        \A level \in 0..Full, i \in Emitters \ {0} :
            Weight(channel_mode, level, i) > 0 => Weight(channel_mode, level, i - 1) = Full

Agree == emitters = Mixed(current_brightness)

(* Two emitters can be left with parts of different mixes, when a tick     *)
(* falls between their writes.  Once the user is idle and the regulation   *)
(* runs they agree again, and then stay so through every change of the     *)
(* factor.                                                                 *)
EmittersConverge ==
    <>[](thermal_timer = "on") /\ <>[][~Input]_vars => <>[]Agree
=============================================================================
