------------------------------ MODULE RampSweep ------------------------------
(***************************************************************************)
(* The ramp while the button is held and nothing else happens: ticks of    *)
(* ramp_timer_handler, from any level a light can start from, over a set   *)
(* of configurations.  It checks the arithmetic of RampLogic, which        *)
(* ZBeamUi uses for its ramp ticks.                                        *)
(***************************************************************************)
EXTENDS RampLogic

CONSTANTS Floors, Ceilings,   \* the ramp configurations examined
          StepCounts,         \* CONFIG_ZBEAM_STEPPED_RAMP_STEPS
          Levels              \* the brightness the ramp starts from

ASSUME ConfigAssumption ==
    /\ Floors \subseteq 1..255 /\ Ceilings \subseteq 1..255 /\ Levels \subseteq 0..255
    /\ StepCounts \subseteq 0..255

VARIABLES cfg, current_brightness, ramp_direction

vars == <<cfg, current_brightness, ramp_direction>>

Styles == {"SMOOTH", "STEPPED"}

Init ==
    /\ cfg \in [floor : Floors, ceiling : Ceilings, steps : StepCounts, style : Styles]
    /\ cfg.floor <= cfg.ceiling
    /\ current_brightness \in Levels
    /\ ramp_direction \in {-1, 1}

ramp_timer_handler ==
    LET t == RampTick(current_brightness, ramp_direction, cfg.style,
                      cfg.floor, cfg.ceiling, cfg.steps)
    IN  /\ current_brightness' = t.level
        /\ ramp_direction' = t.direction
        /\ UNCHANGED cfg

Spec == Init /\ [][ramp_timer_handler]_vars /\ WF_vars(ramp_timer_handler)

(* current_brightness is a byte and the direction never becomes 0.         *)
TypeOK == current_brightness \in 0..255 /\ ramp_direction \in {-1, 1}

InRange(level) == level \in cfg.floor..cfg.ceiling

(* Once the level is between floor and ceiling no tick takes it out again, *)
(* and a stepped tick brings it there at once.                             *)
StaysInRange ==
    [][InRange(current_brightness) \/ cfg.style = "STEPPED" => InRange(current_brightness')]_vars

(* A tick never turns the light the other way in the middle of the range:  *)
(* the direction changes only when the level arrives at, or is at, an end. *)
BouncesAtTheEnds ==
    [][ramp_direction' # ramp_direction =>
          current_brightness' = (IF ramp_direction = 1 THEN cfg.ceiling ELSE cfg.floor)]_vars

(* A user who keeps holding sees the whole range: the ramp does not get    *)
(* stuck on a rounding error.  (docs/anduril-features.md:101: brightness   *)
(* sweeps up/down continuously.)                                           *)
SweepsWholeRange ==
    []<>(current_brightness = cfg.ceiling) /\ []<>(current_brightness = cfg.floor)
=============================================================================
