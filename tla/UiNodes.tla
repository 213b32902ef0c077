------------------------------- MODULE UiNodes -------------------------------
(***************************************************************************)
(* The node tables of src/ui_simple.c and src/ui_advanced.c, as the data   *)
(* fsm_engine.c navigates: for every node, the node reached by n clicks    *)
(* (click_map), by n clicks with the last one held (hold_map), the         *)
(* callbacks that run instead or before, the action routine on entry and   *)
(* the inactivity timeout.  A map is a sequence: its n-th element is the   *)
(* slot [n - 1] of the C array, and a slot past its end is NULL.           *)
(***************************************************************************)
EXTENDS Integers, Sequences

NULL == "NULL"

SimpleNodes == {"simple_off", "simple_on", "simple_ramp", "simple_turbo",
                "simple_lockout", "simple_battcheck"}

AdvancedNodes == {"adv_off", "adv_on", "adv_ramp", "adv_turbo", "adv_lockout",
                  "adv_battcheck", "adv_tempcheck", "adv_reset", "adv_strobe",
                  "adv_config_floor", "adv_config_ceiling", "adv_aux_config",
                  "adv_cal_voltage", "adv_cal_thermal_current", "adv_cal_thermal_limit"}

Nodes == SimpleNodes \cup AdvancedNodes

OffNodes     == {"simple_off", "adv_off"}
OnNodes      == {"simple_on", "adv_on"}
RampNodes    == {"simple_ramp", "adv_ramp"}
LockoutNodes == {"simple_lockout", "adv_lockout"}

At(slots, n) == IF n \in DOMAIN slots THEN slots[n] ELSE NULL

simple_click_map(node) ==
    CASE node = "simple_off"       -> <<"simple_on", "simple_turbo", "simple_battcheck",
                                        "simple_lockout">>
      [] node = "simple_on"        -> <<"simple_off", "simple_turbo", NULL, "simple_lockout">>
      [] node = "simple_turbo"     -> <<"simple_off", "simple_on">>
      [] node = "simple_lockout"   -> <<NULL, NULL, "simple_off", "simple_on", "simple_turbo">>
      [] node \in {"simple_ramp", "simple_battcheck"} -> <<"simple_off">>

adv_click_map(node) ==
    CASE node = "adv_off"          -> <<"adv_on", "adv_turbo", "adv_battcheck", "adv_lockout",
                                        "adv_reset", NULL, "adv_aux_config">>
      [] node = "adv_on"           -> <<"adv_off", "adv_turbo", NULL, "adv_lockout">>
      [] node = "adv_turbo"        -> <<"adv_off", "adv_on">>
      [] node = "adv_lockout"      -> <<NULL, NULL, NULL, "adv_off">>
      [] node = "adv_battcheck"    -> <<"adv_off", "adv_tempcheck">>
      [] node = "adv_tempcheck"    -> <<"adv_off", "adv_battcheck">>
      [] node \in {"adv_ramp", "adv_strobe"} -> <<"adv_off">>
      [] node = "adv_aux_config"   -> <<"adv_off", NULL, NULL, NULL, NULL, NULL, "adv_aux_config">>
      [] OTHER                     -> <<>>

click_map(node) == IF node \in SimpleNodes THEN simple_click_map(node) ELSE adv_click_map(node)

simple_hold_map(node) ==
    CASE node = "simple_off" -> <<"simple_ramp", "simple_turbo">>
      [] node = "simple_on"  -> <<"simple_ramp", "simple_ramp">>
      [] OTHER               -> <<>>

adv_hold_map(node) ==
    CASE node = "adv_off"       -> <<"adv_ramp", NULL, "adv_strobe">>
      [] node = "adv_on"        -> <<"adv_ramp", "adv_ramp", NULL, NULL, NULL, NULL,
                                     "adv_config_floor">>
      [] node = "adv_battcheck" -> <<NULL, NULL, NULL, NULL, NULL, NULL, "adv_cal_voltage">>
      [] node = "adv_tempcheck" -> <<NULL, NULL, NULL, NULL, NULL, NULL,
                                     "adv_cal_thermal_current">>
      [] OTHER                  -> <<>>

hold_map(node) == IF node \in SimpleNodes THEN simple_hold_map(node) ELSE adv_hold_map(node)

(* click_callbacks, hold_callbacks, release_callback, any_click_callback:  *)
(* the name of the C function, whatever module it is in.                   *)
SimpleCallbacks   == {"hold_from_off", "hold_ramp_up", "hold_ramp_down", "ramp_release",
                      "lockout_momentary", "lockout_release", "unlock_floor", "10h_toggle"}
AdvancedCallbacks == {"strobe_release", "strobe_next", "toggle_ramp_style"}
MenuCallbacks     == {"config_floor_set", "config_ceiling_set", "cal_voltage_set",
                      "cal_thermal_set", "cal_thermal_limit_set"}

click_callback(node, n) ==
    CASE node = "adv_on" /\ n = 3     -> "toggle_ramp_style"
      [] node = "adv_strobe" /\ n = 2 -> "strobe_next"
      [] OTHER                        -> NULL

hold_callback(node, n) ==
    CASE node \in OffNodes /\ n = 1     -> "hold_from_off"
      [] node \in OffNodes /\ n = 10    -> "10h_toggle"
      [] node \in OnNodes /\ n = 1      -> "hold_ramp_up"
      [] node \in OnNodes /\ n = 2      -> "hold_ramp_down"
      [] node \in LockoutNodes /\ n = 1 -> "lockout_momentary"
      [] node = "simple_lockout" /\ n = 4 -> "unlock_floor"
      [] OTHER                          -> NULL

release_callback(node) ==
    CASE node \in RampNodes    -> "ramp_release"
      [] node \in LockoutNodes -> "lockout_release"
      [] node = "adv_strobe"   -> "strobe_release"
      [] OTHER                 -> NULL

any_click_callback(node) ==
    CASE node = "adv_config_floor"        -> "config_floor_set"
      [] node = "adv_config_ceiling"      -> "config_ceiling_set"
      [] node = "adv_cal_voltage"         -> "cal_voltage_set"
      [] node = "adv_cal_thermal_current" -> "cal_thermal_set"
      [] node = "adv_cal_thermal_limit"   -> "cal_thermal_limit_set"
      [] OTHER                            -> NULL

(* timeout_ms > 0, and timeout_node.  No node sets timeout_reverts.        *)
TimedNodes == {"simple_battcheck", "adv_battcheck", "adv_tempcheck", "adv_config_floor",
               "adv_config_ceiling", "adv_cal_voltage", "adv_cal_thermal_current",
               "adv_cal_thermal_limit"}

timeout_node(node) ==
    CASE node = "adv_config_floor"        -> "adv_config_ceiling"
      [] node = "adv_config_ceiling"      -> "adv_on"
      [] node = "adv_cal_voltage"         -> "adv_battcheck"
      [] node = "adv_cal_thermal_current" -> "adv_cal_thermal_limit"
      [] node = "adv_cal_thermal_limit"   -> "adv_tempcheck"
      [] OTHER                            -> NULL

action_routine(node) ==
    CASE node \in OffNodes     -> "action_off"
      [] node \in OnNodes      -> "action_on"
      [] node \in RampNodes    -> "action_ramp"
      [] node \in LockoutNodes -> "action_lockout"
      [] node \in {"simple_turbo", "adv_turbo"}         -> "action_turbo"
      [] node \in {"simple_battcheck", "adv_battcheck"} -> "action_battcheck"
      [] node = "adv_tempcheck"  -> "action_tempcheck"
      [] node = "adv_reset"      -> "action_factory_reset"
      [] node = "adv_strobe"     -> "action_strobe"
      [] node = "adv_aux_config" -> "action_aux_config"
      [] OTHER                   -> "start_buzz"

(* get_simple_off_node, get_advanced_off_node.                             *)
OffNode(mode) == IF mode = "SIMPLE" THEN "simple_off" ELSE "adv_off"
OnNode(node)  == IF node \in SimpleNodes THEN "simple_on" ELSE "adv_on"
=============================================================================
