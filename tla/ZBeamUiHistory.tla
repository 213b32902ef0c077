---------------------------- MODULE ZBeamUiHistory ----------------------------
(***************************************************************************)
(* The properties of ZBeamUi that concern the ramp.  They need one fact    *)
(* about the past.  fsm_engine.c has no lock: a period of inactivity that  *)
(* ends while the FSM thread is still looking up a hold lets the handler   *)
(* change current_node under the lookup, and the thread may then start the *)
(* ramp in a node that is no ramp (see dispatch_input).  `torn` says that  *)
(* this has happened and that the light has not settled since.  It is a    *)
(* history variable: no statement of the program reads or writes it, and   *)
(* ZBeamUi does everything it could do without it.                         *)
(*                                                                         *)
(* The properties hold for every user and at every moment, but for the     *)
(* time the light is torn; StrayRampStaysInOff says how long that is.      *)
(***************************************************************************)
EXTENDS ZBeamUi

VARIABLE torn

hvars == <<vars, torn>>

(* The inactivity handler comes in while a hold is being looked up.        *)
Interrupted == isr = <<>> /\ isr' # <<>> /\ holding /\ todo # <<>>

(* Between two inputs, nobody ramping, and nothing left of a ramp.         *)
Settled ==
    /\ AtRest /\ ~holding /\ current_node \notin RampNodes
    /\ timer["ramp"] = "stopped" /\ ~ui.ramp_active

HInit == Init /\ torn = FALSE

(* What every step does to the history.                                    *)
Records == torn' = (Interrupted \/ (torn /\ ~Settled))

HNext ==
    \/ Tap /\ Records
    \/ HoldStart /\ Records
    \/ HoldRelease /\ Records
    \/ Shutdown /\ Records
    \/ WorkerCalls /\ Records
    \/ WorkerExecutes /\ Records
    \/ WorkerReboots /\ Records
    \/ WorkerCrashes /\ Records
    \/ InactivityPasses /\ Records
    \/ inactivity_timer_handler /\ Records
    \/ IsrCalls /\ Records
    \/ IsrExecutes /\ Records
    \/ IsrCrashes /\ Records
    \/ thermal_timer_handler /\ Records
    \/ ramp_timer_handler /\ Records
    \/ strobe_timer_handler /\ Records
    \/ buzz_timer_handler /\ Records

HSpec == HInit /\ [][HNext]_hvars

HFairSpec == HSpec /\ Fairness

-----------------------------------------------------------------------------
(* The brightness moves by itself only while the user holds the button in  *)
(* the ramp: however a ramp ends (release, shutdown, reset), at rest its   *)
(* timer is stopped.                                                       *)
RampOnlyWhileHeld ==
    AtRest /\ ~torn /\ timer["ramp"] = "running" => holding /\ current_node \in RampNodes

(* In OFF nothing is left running that would light the beam again: every   *)
(* way into OFF (click, timeout in the interrupt, shutdown) has stopped    *)
(* the regulation and the strobe, and the ramp unless it began torn.       *)
OffIsQuiet ==
    AtRest /\ current_node \in OffNodes =>
        /\ timer["thermal"] = "stopped" /\ timer["strobe"] = "stopped"
        /\ torn \/ timer["ramp"] = "stopped"

(* A ramp that began torn is a matter of OFF: at rest, the button released,*)
(* it runs on there and in the auxiliary menu, and every other node the    *)
(* light can leave them for has ended it and what it left behind.          *)
StrayRampStaysInOff ==
    AtRest /\ ~holding /\ torn =>
        current_node \in {"adv_off", "adv_aux_config"} \/ Settled

(* What the user relies on between two inputs, together.                   *)
SaneAtRest ==
    TypeOK /\ RampOnlyWhileHeld /\ OffIsQuiet /\ TimeoutHasItsNode /\ OnShowsItsLevel

(* Only a ramp is remembered: the level of a turbo, of a moon or of an     *)
(* override never becomes the memory, on whatever path the node is left    *)
(* (docs/anduril-features.md:98, "remembers last locked level").  The      *)
(* memory may also change before a release: a menu that times out while    *)
(* the button is held ends the ramp that was started.  A reset loads what  *)
(* was saved.                                                              *)
OnlyRampsAreRemembered ==
    [][ui'.memorized # ui.memorized =>
          current_node \in RampNodes \/ holding \/ torn \/ current_node' = NULL]_hvars

(* What ON may choose after a ramp released at this brightness.            *)
LockedLevels ==
    CASE MemoryMode = "AUTO"   -> {ui.brightness}
      [] MemoryMode = "MANUAL" -> {ManualLevel}
      [] MemoryMode = "HYBRID" -> {ui.brightness, ManualLevel}

(* Releasing the ramp keeps the brightness the user stopped at, or gives   *)
(* the manual level where the memory mode says so.  (docs/                 *)
(* anduril-features.md:101: upon release, brightness locks at current      *)
(* level.)  Once a strobe has been on, the ramp sets its frequency.        *)
ReleaseLocksLevel ==
    [][ /\ isr = <<>> /\ todo # <<>> /\ Head(todo) = Op("level_on") /\ todo' = Tail(todo)
        /\ previous_node \in RampNodes /\ current_node \in OnNodes
        /\ ~torn /\ ui.active_param = "BRIGHTNESS"
        => ui'.brightness \in LockedLevels ]_hvars
=============================================================================
