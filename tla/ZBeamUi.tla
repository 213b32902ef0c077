------------------------------- MODULE ZBeamUi -------------------------------
(***************************************************************************)
(* The light as its user sees it: lib/fsm_engine.c navigating the nodes of *)
(* UiNodes, the callbacks of src/ui_simple.c and src/ui_advanced.c, the    *)
(* action routines of src/ui_actions.c, and the five kernel timers whose   *)
(* handlers change the LED behind their back.                              *)
(*                                                                         *)
(* Two contexts execute the same C functions.  The FSM worker thread takes *)
(* a message and runs the statements it leads to: `todo` is the sequence   *)
(* of statements it still has to execute.  The timer interrupt gets in     *)
(* between any two of them.  Four handlers are a few assignments and are   *)
(* one action each; the inactivity handler calls fsm_transition_to, hence  *)
(* an action routine, and runs in `isr` while the thread waits.            *)
(*                                                                         *)
(* An operator whose name ends in a remark (action_off_LeavesStrobe) is a  *)
(* plausible fault of the operator after it; no specification uses it.     *)
(*                                                                         *)
(* A statement (operation) is a record; those the code calls a function    *)
(* for are replaced by its body when they are reached.                     *)
(***************************************************************************)
EXTENDS UiNodes, RampLogic

CONSTANTS
    MaxLevel,                      \* the largest brightness: 255
    DefaultFloor, DefaultCeiling,  \* CONFIG_ZBEAM_BRIGHTNESS_FLOOR, _CEILING
    DefaultMemory,                 \* memorized_brightness at boot: 128
    ManualLevel,                   \* CONFIG_ZBEAM_DEFAULT_MANUAL_MEM_LEVEL
    MemoryMode,                    \* "AUTO", "MANUAL" or "HYBRID" (Kconfig)
    StartStyle, Steps,             \* the ramp style at boot, the number of its steps
    StartModes,                    \* the UI modes flash may hold at boot
    Taps, Holds,                   \* bound of the model: the click counts the user makes
    Faults                         \* TRUE: the safety monitor may post a shutdown

ASSUME LevelsAssumption ==
    /\ MaxLevel \in 1..255 /\ Steps \in 0..255         \* uint8_t
    /\ {DefaultFloor, DefaultCeiling, DefaultMemory, ManualLevel} \subseteq 1..MaxLevel
    /\ DefaultFloor < DefaultCeiling
ASSUME InputAssumption ==
    /\ Taps \subseteq 1..10 /\ Holds \subseteq 1..10    \* more is rejected: MAX_NAV_SLOTS
    /\ StartModes \subseteq {"SIMPLE", "ADVANCED"} /\ StartModes # {}
    /\ Faults \in BOOLEAN
    /\ MemoryMode \in {"AUTO", "MANUAL", "HYBRID"}
    /\ 7 \in Holds =>                     \* 10 clicks leave floor and ceiling far apart
          \A m, n \in Taps : /\ m < MaxLevel + 1 - n /\ m < DefaultCeiling
                             /\ DefaultFloor < MaxLevel + 1 - n

VARIABLES
    current_node, previous_node, home_node,   \* fsm_engine.c
    timer,                     \* the five kernel timers
    ui,                        \* the static variables of ui_actions.c, pm_manager.c, the LED
    todo,                      \* statements the worker thread has still to run
    isr,                       \* statements the inactivity handler has still to run
    holding                    \* a HOLD_START was delivered, its HOLD_RELEASE not yet

vars == <<current_node, previous_node, home_node, timer, ui, todo, isr, holding>>

Timers == {"inactivity", "thermal", "ramp", "strobe", "buzz"}

StrobeTypes == <<"PARTY", "TACTICAL", "CANDLE", "BIKE">>

-----------------------------------------------------------------------------
(* Statements.                                                             *)

Op(name)      == [op |-> name]
Start(t)      == [op |-> "start", timer |-> t]      \* k_timer_start
Stop(t)       == [op |-> "stop", timer |-> t]       \* k_timer_stop
Led(level)    == [op |-> "led", level |-> level]    \* update_led_hardware(constant)
Set(var, val) == [op |-> "set", var |-> var, val |-> val]

LedBrightness == Op("led_brightness")               \* update_led_hardware(current_brightness)
Sleep         == Op("sleep")                        \* k_msleep
Resume        == Set("suspended", FALSE)            \* pm_resume
Suspend       == Set("suspended", TRUE)             \* pm_suspend

transition_to(node) == [op |-> "transition", node |-> node]
lookup(stage, msg)  == [op |-> stage, msg |-> msg]

(* stop_ramping, start_ramping: save_memory is the rest of stop_ramping    *)
(* after k_timer_stop, a block the ramp handler can no longer disturb.     *)
stop_ramping_NoStop    == <<Op("save_memory")>>
stop_ramping_SaveFirst == <<Op("save_memory"), Stop("ramp")>>

stop_ramping == <<Stop("ramp"), Op("save_memory")>>

start_ramping(dir) == <<Set("ramp_direction", dir), Set("ramp_active", TRUE), Start("ramp")>>

(* One digit of the blink code.  More blinks repeat the same statements.   *)
Blink == <<Led(100), Sleep, Led(0), Sleep>>

action_off_LeavesStrobe ==
    stop_ramping \o <<Led(0), Stop("thermal"), Suspend>>

action_off ==
    stop_ramping \o <<Led(0), Stop("thermal"), Stop("strobe"), Suspend>>

action_on_ForgetsLed ==
    <<Resume, Start("thermal")>> \o stop_ramping \o <<Op("level_on")>>

action_on ==
    <<Resume, Start("thermal")>> \o stop_ramping \o <<Op("level_on"), LedBrightness>>

action_moon ==
    <<Resume, Stop("strobe"), Op("level_floor"), LedBrightness>>

action_strobe ==
    stop_ramping \o <<Set("active_param", "FREQUENCY"), Start("strobe"), Led(MaxLevel),
                      Set("strobe_on", TRUE)>>

(* action_strobe_party, _tactical, _candle, _bike after action_strobe_next *)
(* has moved on to the next type.                                          *)
action_strobe_next ==
    <<Op("next_strobe"), Stop("strobe"), Op("strobe_entry"), Resume, Start("strobe")>>

(* The brightness to go back to is read before the blink.                  *)
action_aux_config == <<Led(MaxLevel), Sleep, Led(ui.brightness)>>

action_toggle_ramp_style == <<Op("toggle_style"), Led(0), Sleep, Led(ui.brightness)>>

action_turbo_KeepsRamp == <<Resume, Op("level_ceiling"), LedBrightness>>

action_turbo == <<Resume>> \o stop_ramping \o <<Op("level_ceiling"), LedBrightness>>

action_lockout == stop_ramping \o <<Led(0)>>

(* action_tempcheck is the same with other digits.                         *)
action_battcheck == stop_ramping \o Blink \o <<Sleep>> \o Blink

action_factory_reset == stop_ramping \o <<Op("reboot")>>

(* action_config_floor and the entries of the other menus: each calls      *)
(* k_timer_init first, see InitsRunningTimer.                              *)
action_config_floor == <<Start("buzz")>>

Action(routine) ==
    CASE routine = "action_off"       -> action_off
      [] routine = "action_on"        -> action_on
      [] routine = "action_turbo"     -> action_turbo
      [] routine = "action_ramp"      -> <<>>
      [] routine = "action_lockout"   -> action_lockout
      [] routine \in {"action_battcheck", "action_tempcheck"} -> action_battcheck
      [] routine = "action_strobe"    -> action_strobe
      [] routine = "action_aux_config"    -> action_aux_config
      [] routine = "action_factory_reset" -> action_factory_reset
      [] routine = "start_buzz"       -> action_config_floor

(* What a callback does, and the node it returns.                          *)
ui_toggle_mode ==
    LET mode == IF ui.mode = "SIMPLE" THEN "ADVANCED" ELSE "SIMPLE"
    IN  [ops |-> <<Set("mode", mode)>>, next |-> OffNode(mode)]

(* cb_simple_*; the cb_adv_* of the same events have the same bodies.      *)
SimpleCallback(name) ==
    CASE name = "hold_from_off"   -> [ops |-> action_moon \o start_ramping(1), next |-> NULL]
      [] name = "hold_ramp_up"    -> [ops |-> start_ramping(1), next |-> NULL]
      [] name = "hold_ramp_down"  -> [ops |-> start_ramping(-1), next |-> NULL]
      [] name = "ramp_release"    -> [ops |-> stop_ramping, next |-> OnNode(current_node)]
      [] name = "lockout_momentary" -> [ops |-> action_moon, next |-> NULL]
      [] name = "lockout_release" -> [ops |-> action_off, next |-> NULL]
      [] name = "unlock_floor"    -> [ops |-> <<Op("override_floor")>>, next |-> "simple_on"]
      [] name = "10h_toggle"      -> ui_toggle_mode

AdvancedCallback(name) ==
    CASE name = "strobe_release"  -> [ops |-> stop_ramping, next |-> NULL]
      [] name = "strobe_next"     -> [ops |-> action_strobe_next, next |-> NULL]
      [] name = "toggle_ramp_style" -> [ops |-> action_toggle_ramp_style, next |-> NULL]

(* cb_config_floor_set to cb_cal_thermal_limit_set.  The calibrations      *)
(* themselves change nothing this module keeps.                            *)
MenuCallback(name, count) ==
    LET ceiling == MaxLevel + 1 - count
        setting == CASE name = "config_floor_set"   -> <<Set("floor", count)>>
                     [] name = "config_ceiling_set" ->
                           <<Set("ceiling", IF ceiling < ui.floor THEN ui.floor + 1 ELSE ceiling)>>
                     [] OTHER                       -> <<>>
        next    == CASE name = "config_floor_set"      -> "adv_config_ceiling"
                     [] name = "config_ceiling_set"    -> "adv_on"
                     [] name = "cal_voltage_set"       -> "adv_battcheck"
                     [] name = "cal_thermal_set"       -> "adv_cal_thermal_limit"
                     [] name = "cal_thermal_limit_set" -> "adv_tempcheck"
    IN  [ops |-> <<Stop("buzz")>> \o setting, next |-> next]

Callback(name, count) ==
    CASE name \in SimpleCallbacks   -> SimpleCallback(name)
      [] name \in AdvancedCallbacks -> AdvancedCallback(name)
      [] name \in MenuCallbacks     -> MenuCallback(name, count)
      [] name = NULL                -> [ops |-> <<>>, next |-> NULL]

Then(node) == IF node = NULL THEN <<>> ELSE <<transition_to(node)>>

-----------------------------------------------------------------------------
(* fsm_engine.c.  These statements read current_node when they are         *)
(* reached: the inactivity handler may have changed it since the message   *)
(* was taken.                                                              *)

(* dispatch_input: the timer is restarted, then a callback of the node is  *)
(* tried, then its map, then its any_click_callback.                       *)
dispatch_input(msg) == <<lookup("reset", msg), lookup("callback", msg)>>

CallbackFor(msg) ==
    CASE msg.type = "TAP"          -> click_callback(current_node, msg.count)
      [] msg.type = "HOLD_START"   -> hold_callback(current_node, msg.count)
      [] msg.type = "HOLD_RELEASE" -> release_callback(current_node)

MapFor(msg) == At(IF msg.type = "TAP" THEN click_map(current_node) ELSE hold_map(current_node),
                  msg.count)

reset_inactivity_timer ==
    IF current_node \in TimedNodes THEN <<Start("inactivity")>> ELSE <<>>

TryCallback(msg) ==
    LET cb == Callback(CallbackFor(msg), msg.count)
    IN  cb.ops \o (IF cb.next # NULL THEN Then(cb.next)
                   ELSE IF msg.type = "HOLD_RELEASE" THEN <<>>
                   ELSE <<lookup("map", msg)>>)

TryMap(msg) ==
    IF MapFor(msg) # NULL THEN Then(MapFor(msg))
    ELSE IF msg.type = "TAP"
         THEN LET any == Callback(any_click_callback(current_node), msg.count)
              IN  any.ops \o Then(any.next)
         ELSE <<>>

fsm_transition_to_KeepsTimer(node) ==
    <<[op |-> "enter", node |-> node], Op("action"), Op("arm")>>

fsm_transition_to_NeverArmed(node) ==
    <<Stop("inactivity"), [op |-> "enter", node |-> node], Op("action")>>

fsm_transition_to(node) ==
    <<Stop("inactivity"), [op |-> "enter", node |-> node], Op("action"), Op("arm")>>

fsm_emergency_off ==
    <<Set("emergency", TRUE), Stop("inactivity"), Op("go_home"), Op("action")>>

Calls == {"transition", "reset", "callback", "map", "action"}

Body(o) ==
    CASE o.op = "transition" -> fsm_transition_to(o.node)
      [] o.op = "reset"      -> reset_inactivity_timer
      [] o.op = "callback"   -> TryCallback(o.msg)
      [] o.op = "map"        -> TryMap(o.msg)
      [] o.op = "action"     -> Action(action_routine(current_node))

-----------------------------------------------------------------------------
(* What a statement does to the static variables.                          *)

(* action_on picks the level: a one-shot override first, else the memory.  *)
(* How long the light was off is not modelled: hybrid memory may answer    *)
(* either level.                                                           *)
OnLevels ==
    IF ui.override > 0 THEN {ui.override}
    ELSE CASE MemoryMode = "AUTO"   -> {ui.memorized}
           [] MemoryMode = "MANUAL" -> {ManualLevel}
           [] MemoryMode = "HYBRID" -> {ui.memorized, ManualLevel}

SaveMemory_KeepsActive ==
    [ui EXCEPT !.ramp_direction = 0,
               !.memorized = IF ui.active_param = "BRIGHTNESS" THEN ui.brightness ELSE @]

(* save_memory: what follows k_timer_stop in stop_ramping.                 *)
SaveMemory ==
    [ui EXCEPT !.ramp_direction = 0, !.ramp_active = FALSE,
               !.memorized = IF ui.ramp_active /\ ui.active_param = "BRIGHTNESS"
                             THEN ui.brightness ELSE @]

UiAfter(o) ==
    CASE o.op = "led"            -> {[ui EXCEPT !.led = o.level]}
      [] o.op = "led_brightness" -> {[ui EXCEPT !.led = ui.brightness]}
      [] o.op = "set"            -> {[ui EXCEPT ![o.var] = o.val]}
      [] o.op = "save_memory"    -> {SaveMemory}
      [] o.op = "level_on"       -> {[ui EXCEPT !.brightness = l, !.override = 0] : l \in OnLevels}
      [] o.op = "level_floor"    -> {[ui EXCEPT !.brightness = ui.floor]}
      [] o.op = "level_ceiling"  -> {[ui EXCEPT !.brightness = ui.ceiling]}
      [] o.op = "override_floor" -> {[ui EXCEPT !.override = ui.floor]}
      [] o.op = "toggle_style"   -> {[ui EXCEPT !.style = IF @ = "SMOOTH" THEN "STEPPED"
                                                                          ELSE "SMOOTH"]}
      [] o.op = "next_strobe"    -> {[ui EXCEPT !.strobe_type = (@ % Len(StrobeTypes)) + 1]}
      [] o.op = "strobe_entry"   -> {[ui EXCEPT !.strobe_on =
                                        @ /\ StrobeTypes[ui.strobe_type] \in {"CANDLE", "BIKE"}]}
      [] OTHER                   -> {ui}

TimerAfter(o) ==
    CASE o.op = "start" -> [timer EXCEPT ![o.timer] = "running"]
      [] o.op = "stop"  -> [timer EXCEPT ![o.timer] = "stopped"]
      [] o.op = "arm" /\ current_node \in TimedNodes
                        -> [timer EXCEPT !["inactivity"] = "running"]
      [] OTHER          -> timer

NodeAfter(o) ==
    CASE o.op = "enter"   -> o.node
      [] o.op = "go_home" -> home_node
      [] OTHER            -> current_node

Execute(o) ==
    /\ ui' \in UiAfter(o)
    /\ timer' = TimerAfter(o)
    /\ current_node' = NodeAfter(o)
    /\ previous_node' = IF o.op = "enter" THEN current_node ELSE previous_node
    /\ UNCHANGED <<home_node, holding>>

-----------------------------------------------------------------------------
(* Boot: the static initialisers, ui_init, and main's fsm_init.            *)
(* flash is a record of the settings nvs_write_byte keeps.                 *)
Defaults(mode) ==
    [mode |-> mode, memorized |-> DefaultMemory, floor |-> DefaultFloor,
     ceiling |-> DefaultCeiling, style |-> StartStyle]

Saved == [f \in {"mode", "memorized", "floor", "ceiling", "style"} |-> ui[f]]

BootUi(flash) ==
    [mode |-> flash.mode, memorized |-> flash.memorized, floor |-> flash.floor,
     ceiling |-> flash.ceiling, style |-> flash.style,
     brightness |-> 0, override |-> 0, ramp_direction |-> 0, ramp_active |-> FALSE,
     active_param |-> "BRIGHTNESS", strobe_type |-> 1, strobe_on |-> FALSE,
     suspended |-> FALSE, led |-> 0, emergency |-> FALSE]

Init ==
    \E mode \in StartModes :
        /\ ui = BootUi(Defaults(mode))
        /\ home_node = OffNode(mode)
        /\ current_node = NULL /\ previous_node = NULL
        /\ timer = [t \in Timers |-> "stopped"]
        /\ todo = <<transition_to(home_node)>>
        /\ isr = <<>>
        /\ holding = FALSE

(* A reset: the program starts again with what flash holds.                *)
Reboot(flash) ==
    /\ ui' = BootUi(flash)
    /\ home_node' = OffNode(flash.mode)
    /\ current_node' = NULL /\ previous_node' = NULL
    /\ timer' = [t \in Timers |-> "stopped"]
    /\ todo' = <<transition_to(OffNode(flash.mode))>>
    /\ isr' = <<>>
    /\ holding' = FALSE

-----------------------------------------------------------------------------
(* The worker thread.                                                      *)

AtRest == todo = <<>> /\ isr = <<>>

Deliver(statements) ==
    /\ AtRest
    /\ todo' = statements
    /\ UNCHANGED <<current_node, previous_node, home_node, timer, ui, isr>>

(* The user's gestures, as MultiTapInput reports them: a hold is started   *)
(* and released, and no click comes in between.                            *)
Tap == \E n \in Taps :
    /\ ~holding
    /\ Deliver(dispatch_input([type |-> "TAP", count |-> n]))
    /\ UNCHANGED holding

HoldStart == \E n \in Holds :
    /\ ~holding /\ holding' = TRUE
    /\ Deliver(dispatch_input([type |-> "HOLD_START", count |-> n]))

HoldRelease ==
    /\ holding /\ holding' = FALSE
    /\ Deliver(dispatch_input([type |-> "HOLD_RELEASE", count |-> 0]))

Shutdown == Faults /\ Deliver(fsm_emergency_off) /\ UNCHANGED holding

UserInput == Tap \/ HoldStart \/ HoldRelease

WorkerCalls ==
    /\ isr = <<>> /\ todo # <<>>
    /\ Head(todo).op \in Calls
    /\ todo' = Body(Head(todo)) \o Tail(todo)
    /\ UNCHANGED <<current_node, previous_node, home_node, timer, ui, isr, holding>>

WorkerExecutes ==
    /\ isr = <<>> /\ todo # <<>>
    /\ Head(todo).op \notin Calls \cup {"reboot"}
    /\ todo' = Tail(todo)
    /\ Execute(Head(todo))
    /\ UNCHANGED isr

(* nvs_wipe_all; sys_reboot: the settings are those of Kconfig again.      *)
WorkerReboots ==
    /\ isr = <<>> /\ todo # <<>>
    /\ Head(todo).op = "reboot"
    /\ \E mode \in StartModes : Reboot(Defaults(mode))

(* k_timer_init of a timer that is in the kernel's list of timeouts breaks *)
(* the list: the light goes on as if nothing had happened, or is reset.    *)
InitsRunningTimer(o) == o = Start("buzz") /\ timer["buzz"] = "running"

WorkerCrashes ==
    isr = <<>> /\ todo # <<>> /\ InitsRunningTimer(Head(todo)) /\ Reboot(Saved)

Worker == WorkerCalls \/ WorkerExecutes \/ WorkerReboots \/ WorkerCrashes

-----------------------------------------------------------------------------
(* The timer interrupt.                                                    *)

(* Seconds pass only while the worker is blocked, waiting for a message or *)
(* in k_msleep.  An inactivity period that has passed is served then, or   *)
(* at any statement of the message that is taken at that moment.           *)
InactivityPasses ==
    /\ isr = <<>> /\ IF todo = <<>> THEN TRUE ELSE Head(todo) = Sleep
    /\ timer["inactivity"] = "running"
    /\ timer' = [timer EXCEPT !["inactivity"] = "due"]
    /\ UNCHANGED <<current_node, previous_node, home_node, ui, todo, isr, holding>>

inactivity_timer_handler ==
    /\ isr = <<>>
    /\ timer["inactivity"] = "due"
    /\ timer' = [timer EXCEPT !["inactivity"] = "stopped"]
    /\ isr' = Then(IF timeout_node(current_node) # NULL THEN timeout_node(current_node)
                                                       ELSE home_node)
    /\ UNCHANGED <<current_node, previous_node, home_node, ui, todo, holding>>

IsrCalls ==
    /\ isr # <<>>
    /\ Head(isr).op \in Calls
    /\ isr' = Body(Head(isr)) \o Tail(isr)
    /\ UNCHANGED <<current_node, previous_node, home_node, timer, ui, todo, holding>>

(* k_msleep in an interrupt is undefined; with assertions off it returns   *)
(* at once or the kernel resets the light.                                 *)
IsrExecutes ==
    /\ isr # <<>>
    /\ Head(isr).op \notin Calls
    /\ isr' = Tail(isr)
    /\ Execute(Head(isr))
    /\ UNCHANGED todo

IsrCrashes ==
    isr # <<>> /\ (Head(isr) = Sleep \/ InitsRunningTimer(Head(isr))) /\ Reboot(Saved)

(* A running timer may expire between any two statements of the thread.    *)
Expires(t) ==
    /\ isr = <<>>
    /\ timer[t] = "running"
    /\ UNCHANGED <<current_node, previous_node, home_node, todo, isr, holding>>

(* Periodic.                                                               *)
thermal_timer_handler ==
    /\ Expires("thermal")
    /\ ui' = [ui EXCEPT !.led = ui.brightness]
    /\ UNCHANGED timer

(* Periodic.  The strobe frequency is not modelled.                        *)
ramp_timer_handler ==
    /\ Expires("ramp")
    /\ IF ui.active_param = "BRIGHTNESS"
       THEN LET t == RampTick(ui.brightness, ui.ramp_direction, ui.style,
                              ui.floor, ui.ceiling, Steps)
            IN  ui' = [ui EXCEPT !.brightness = t.level, !.led = t.level,
                                 !.ramp_direction = t.direction]
       ELSE \E d \in {ui.ramp_direction, - ui.ramp_direction} :
                ui' = [ui EXCEPT !.ramp_direction = d]
    /\ UNCHANGED timer

(* One-shot, and started again by its handler.  Candle and bike choose     *)
(* between two levels above 0; which one is left open.                     *)
strobe_timer_handler ==
    /\ Expires("strobe")
    /\ CASE StrobeTypes[ui.strobe_type] \in {"PARTY", "TACTICAL"} ->
                ui' = [ui EXCEPT !.strobe_on = ~@, !.led = IF ui.strobe_on THEN 0 ELSE MaxLevel]
         [] StrobeTypes[ui.strobe_type] \in {"CANDLE", "BIKE"} ->
                \E l \in {40, MaxLevel} : ui' = [ui EXCEPT !.led = l]
    /\ UNCHANGED timer

(* Periodic: the LED alternates between two low levels.                    *)
buzz_timer_handler ==
    /\ Expires("buzz")
    /\ \E l \in {1, 4} : ui' = [ui EXCEPT !.led = l]
    /\ UNCHANGED timer

Interrupt == IsrCalls \/ IsrExecutes \/ IsrCrashes

Next ==
    \/ Tap \/ HoldStart \/ HoldRelease \/ Shutdown
    \/ WorkerCalls \/ WorkerExecutes \/ WorkerReboots \/ WorkerCrashes
    \/ InactivityPasses \/ inactivity_timer_handler
    \/ IsrCalls \/ IsrExecutes \/ IsrCrashes
    \/ thermal_timer_handler \/ ramp_timer_handler
    \/ strobe_timer_handler \/ buzz_timer_handler

Spec == Init /\ [][Next]_vars

(* The scheduler runs a ready thread and an interrupt runs to its end; a   *)
(* period of inactivity that nothing ends passes and its handler is        *)
(* called.  Nothing is assumed of the user.                                *)
Fairness ==
    /\ WF_vars(Worker) /\ WF_vars(Interrupt)
    /\ WF_vars(InactivityPasses) /\ WF_vars(inactivity_timer_handler)

FairSpec == Spec /\ Fairness

-----------------------------------------------------------------------------
(* Properties.  "At rest" the worker waits for a message and no handler is *)
(* in progress: what the user sees between two inputs.                     *)

Level == 0..MaxLevel

(* The static variables keep their C types; levels never leave a byte.     *)
TypeOK ==
    /\ current_node \in Nodes \cup {NULL} /\ previous_node \in Nodes \cup {NULL}
    /\ home_node \in OffNodes
    /\ timer \in [Timers -> {"stopped", "running", "due"}]
    /\ \A t \in Timers \ {"inactivity"} : timer[t] # "due"
    /\ {ui.brightness, ui.memorized, ui.override, ui.floor, ui.ceiling} \subseteq Level
    /\ ui.ramp_direction \in {-1, 0, 1} /\ ui.ramp_active \in BOOLEAN
    /\ ui.strobe_type \in 1..Len(StrobeTypes) /\ ui.strobe_on \in BOOLEAN
    /\ ui.led \in Level \cup {1, 4, 40, 100}
    /\ holding \in BOOLEAN

(* The inactivity timer does not run on in a node that has no timeout.     *)
(* The exception is a period that ended while a message was being taken:   *)
(* the message then restarts the timer for the node the handler has just   *)
(* entered, which is home or the end of a menu, and never a ramp, a turbo  *)
(* or a strobe.                                                            *)
TimeoutHasItsNode ==
    AtRest /\ timer["inactivity"] # "stopped" =>
        current_node \in TimedNodes \cup {timeout_node(n) : n \in TimedNodes} \cup {home_node}

(* ON shows the level the light has chosen, and that level is not zero,    *)
(* unless the buzz of a menu that timed out still runs.                    *)
OnShowsItsLevel ==
    AtRest /\ current_node \in OnNodes /\ timer["buzz"] = "stopped" =>
        ui.led = ui.brightness /\ ui.brightness > 0

(* A user who lets go of the button in a menu that times out is returned   *)
(* to a steady state: no chain of timeouts goes round for ever.            *)
MenusExpire ==
    <>[][~UserInput]_vars => []<>(current_node \notin TimedNodes)

(* A property the documents state and the code does not keep.              *)

(* OFF is dark (docs/anduril-features.md:90).                              *)
OffIsDark == AtRest /\ current_node \in OffNodes => ui.led = 0
=============================================================================
