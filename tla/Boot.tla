-------------------------------- MODULE Boot --------------------------------
(***************************************************************************)
(* The life of the settings: src/main.c and ui_init of src/ui_actions.c    *)
(* bring them from flash (lib/nvs_manager.c) into the static variables,    *)
(* the menus change and save them, a factory reset deletes them, and the   *)
(* power may go at any moment.                                             *)
(*                                                                         *)
(* main executes BootSequence one statement at a time.  The worker has a   *)
(* lower priority: it runs while main sleeps and when main has finished.   *)
(* The safety monitor and the button do not wait for either.               *)
(*                                                                         *)
(* Of the settings that are bytes or enumerations saved the moment they    *)
(* change, UI_MODE stands for the ramp style and the memorised level, and  *)
(* THERMAL_LIMIT for the temperature offset.                               *)
(*                                                                         *)
(* An operator whose name ends in a remark is a plausible fault of the     *)
(* operator it precedes; no specification uses it.                         *)
(***************************************************************************)
EXTENDS BattCheck, Sequences

CONSTANTS
    DefaultFloor, DefaultCeiling, DefaultMode, DefaultLimit,   \* Kconfig
    Counts,            \* clicks given in the menus; MAX_NAV_SLOTS = 10
    Voltages           \* what the ADC may measure, mV

MaxVoltage == 10000    \* of a few cells

UI_SIMPLE   == 0
UI_ADVANCED == 1

ASSUME CountsAssumption   == Counts \subseteq 1..10
ASSUME VoltagesAssumption == Voltages \subseteq 0..MaxVoltage
ASSUME DefaultsAssumption ==
    /\ DefaultFloor \in 1..255 /\ DefaultCeiling \in 1..255
    /\ DefaultMode \in {UI_SIMPLE, UI_ADVANCED} /\ DefaultLimit \in 0..255

(* A sensible configuration: Kconfig does not ask for it.                  *)
ASSUME RangeAssumption ==
    DefaultFloor < DefaultCeiling /\ DefaultFloor < 246 /\ DefaultCeiling > 10

Keys == {"RAMP_FLOOR", "RAMP_CEILING", "UI_MODE", "THERMAL_LIMIT", "BATT_CALIB_OFFSET"}

(* NVS_ID_*.                                                               *)
Id == [RAMP_FLOOR |-> 1, RAMP_CEILING |-> 2, UI_MODE |-> 4,
       THERMAL_LIMIT |-> 8, BATT_CALIB_OFFSET |-> 10]

None == -1             \* nothing is stored under the id

(* The initial values of the static variables.                             *)
Defaults == [RAMP_FLOOR |-> DefaultFloor, RAMP_CEILING |-> DefaultCeiling,
             UI_MODE |-> DefaultMode, THERMAL_LIMIT |-> DefaultLimit,
             BATT_CALIB_OFFSET |-> NoOffset]

VARIABLES
    main,              \* how many statements of BootSequence main has executed
    job,               \* the statements the worker has still to execute
    ram,               \* the static variables
    flash,             \* what is stored
    condition,         \* of the flash, since power came: good, worn, broken
    mounted,           \* nvs_mount succeeded
    click_timer,       \* "zero" before k_timer_init, or "running" although so
    shutdown,          \* the message of the safety monitor
    restarted          \* why the processor starts again, until it has

deviceVars == <<flash, condition>>
staticVars == <<ram, mounted, click_timer, shutdown>>
restVars   == <<deviceVars, restarted>>
vars == <<main, job, deviceVars, staticVars, restarted>>

Read(key) == [op |-> "read", key |-> key]
Call(op)  == [op |-> op]

BootSequence_MountLast ==
    <<Call("sleep"), Read("THERMAL_LIMIT"), Read("BATT_CALIB_OFFSET"),
      Read("RAMP_FLOOR"), Read("RAMP_CEILING"), Read("UI_MODE"), Call("mount"),
      Call("fsm_init"), Call("multi_tap_input_init")>>

(* thermal_init and batt_init read before nvs_init_fs has mounted.         *)
BootSequence ==
    <<Call("sleep"), Read("THERMAL_LIMIT"), Read("BATT_CALIB_OFFSET"), Call("mount"),
      Read("RAMP_FLOOR"), Read("RAMP_CEILING"), Read("UI_MODE"),
      Call("fsm_init"), Call("multi_tap_input_init")>>

Halted  == Len(BootSequence) + 1
Asleep  == main = 0
Ready   == main = Len(BootSequence)
Current == BootSequence[main + 1]       \* the statement main is about to execute

(* home_node is set.                                                       *)
HasHome == \E i \in 1..Len(BootSequence) : BootSequence[i].op = "fsm_init" /\ i <= main

Statics ==
    /\ main = 0 /\ job = <<>>
    /\ ram = Defaults /\ mounted = FALSE
    /\ click_timer = "zero" /\ shutdown = "none"

Init ==
    /\ Statics
    /\ flash = [k \in Keys |-> None]
    /\ condition \in {"good", "worn", "broken"} /\ restarted = "power"

(* The processor starts again: the static variables have their initial     *)
(* values, the flash keeps its contents.                                   *)
Restart(cause) ==
    /\ restarted' = cause
    /\ main' = 0 /\ job' = <<>>
    /\ ram' = Defaults /\ mounted' = FALSE
    /\ click_timer' = "zero" /\ shutdown' = "none"
    /\ condition' \in {"good", "worn", "broken"}
    /\ UNCHANGED flash

(* Outcomes of undefined behaviour, other than to go on.                   *)
Halt == main' = Halted /\ UNCHANGED <<job, restVars, staticVars>>
Fatal == Restart("fatal") \/ Halt

-----------------------------------------------------------------------------
(* main.                                                                   *)

(* k_sleep(K_SECONDS(1)), and pwm_ramp_init, which nothing waits for.      *)
Sleeps ==
    /\ main = 0 /\ main' = 1 /\ restarted' = "no"
    /\ UNCHANGED <<job, deviceVars, staticVars>>

nvs_read_byte_NotFound ==
    /\ main \in 1..Len(BootSequence) - 1 /\ Current.op = "read" /\ main' = main + 1
    /\ ram' = IF mounted THEN [ram EXCEPT ![Current.key] = flash[Current.key]] ELSE ram
    /\ UNCHANGED <<job, restVars, mounted, click_timer, shutdown>>

(* A file system that is not mounted, or has no such id, leaves the        *)
(* variable alone, and no caller minds.                                    *)
nvs_read_byte ==
    /\ main \in 1..Len(BootSequence) - 1 /\ Current.op = "read" /\ main' = main + 1
    /\ ram' = IF mounted /\ flash[Current.key] # None
              THEN [ram EXCEPT ![Current.key] = flash[Current.key]] ELSE ram
    /\ UNCHANGED <<job, restVars, mounted, click_timer, shutdown>>

nvs_init_fs_Insists ==
    /\ main \in 1..Len(BootSequence) - 1 /\ Current.op = "mount" /\ main' = main + 1
    /\ condition # "broken" /\ mounted' = TRUE
    /\ UNCHANGED <<job, restVars, ram, click_timer, shutdown>>

(* Its result is not looked at.                                            *)
nvs_init_fs ==
    /\ main \in 1..Len(BootSequence) - 1 /\ Current.op = "mount" /\ main' = main + 1
    /\ mounted' = (condition # "broken")
    /\ UNCHANGED <<job, restVars, ram, click_timer, shutdown>>

fsm_init ==
    /\ main \in 1..Len(BootSequence) - 1 /\ Current.op = "fsm_init" /\ main' = main + 1
    /\ UNCHANGED <<job, restVars, staticVars>>

(* k_timer_init of a timer that runs breaks the kernel's list of timeouts. *)
multi_tap_input_init ==
    /\ main \in 1..Len(BootSequence) - 1 /\ Current.op = "multi_tap_input_init"
    /\ \/ /\ main' = main + 1 /\ click_timer' = "initialised"
          /\ UNCHANGED <<job, restVars, ram, mounted, shutdown>>
       \/ click_timer = "running" /\ Fatal

Main == Sleeps \/ nvs_read_byte \/ nvs_init_fs \/ fsm_init \/ multi_tap_input_init

-----------------------------------------------------------------------------
(* What does not wait for main.                                            *)

(* The input callback is registered at link time: it starts a timer that   *)
(* has no handler yet.                                                     *)
EarlyKey ==
    /\ main < Len(BootSequence) /\ click_timer = "zero"
    /\ click_timer' = "running"
    /\ UNCHANGED <<main, job, restVars, ram, mounted, shutdown>>

EarlyKeyExpires ==
    /\ click_timer = "running" /\ main # Halted
    /\ click_timer' = "zero"
    /\ UNCHANGED <<main, job, restVars, ram, mounted, shutdown>>

safety_emergency_shutdown ==
    /\ shutdown = "none" /\ main # Halted
    /\ shutdown' = "queued"
    /\ UNCHANGED <<main, job, restVars, ram, mounted, click_timer>>

PowerLoss == Restart("power")

-----------------------------------------------------------------------------
(* The worker.                                                             *)

Assign(key, value) == [op |-> "assign", key |-> key, value |-> value]
WriteByte(key)     == [op |-> "write", key |-> key]
Delete(id)         == [op |-> "delete", id |-> id]
Reboot             == [op |-> "reboot"]

WorkerRuns == Asleep \/ Ready

(* home_node is NULL before fsm_init, and fsm_emergency_off follows it.    *)
fsm_emergency_off ==
    /\ WorkerRuns /\ job = <<>> /\ shutdown = "queued"
    /\ \/ /\ shutdown' = "done"
          /\ UNCHANGED <<main, job, restVars, ram, mounted, click_timer>>
       \/ ~HasHome /\ Fatal

Handles(statements) ==
    /\ Ready /\ job = <<>>
    /\ job' = statements
    /\ UNCHANGED <<main, restVars, staticVars>>

cb_config_floor_set == \E n \in Counts :
    Handles(<<Assign("RAMP_FLOOR", n), WriteByte("RAMP_FLOOR")>>)

Ceiling_Anduril(n, floor) == IF n < floor THEN floor + 1 ELSE n

(* Computed in a byte.                                                     *)
Ceiling(n, floor) == IF 256 - n < floor THEN (floor + 1) % 256 ELSE 256 - n

cb_config_ceiling_set == \E n \in Counts :
    Handles(<<Assign("RAMP_CEILING", Ceiling(n, ram["RAMP_FLOOR"])), WriteByte("RAMP_CEILING")>>)

ui_toggle_mode ==
    Handles(<<Assign("UI_MODE", IF ram["UI_MODE"] = UI_SIMPLE THEN UI_ADVANCED ELSE UI_SIMPLE),
              WriteByte("UI_MODE")>>)

cb_cal_thermal_limit_set == \E n \in Counts :
    Handles(<<Assign("THERMAL_LIMIT", 30 + n), WriteByte("THERMAL_LIMIT")>>)

cb_cal_voltage_set == \E n \in Counts, batt_mv \in Voltages :
    Handles(<<Assign("BATT_CALIB_OFFSET",
                     batt_calibrate_voltage(n * 100, batt_mv, ram["BATT_CALIB_OFFSET"])),
              WriteByte("BATT_CALIB_OFFSET")>>)

nvs_wipe_all_Half == [i \in 1..10 |-> Delete(i - 1)]

nvs_wipe_all == [i \in 1..20 |-> Delete(i - 1)]

action_factory_reset == Handles(nvs_wipe_all \o <<Reboot>>)

Assigns ==
    /\ job # <<>> /\ Head(job).op = "assign"
    /\ ram' = [ram EXCEPT ![Head(job).key] = Head(job).value]
    /\ job' = Tail(job)
    /\ UNCHANGED <<main, restVars, mounted, click_timer, shutdown>>

(* A worn flash may refuse; no caller minds.                               *)
Store(key, value) ==
    \/ mounted /\ flash' = [flash EXCEPT ![key] = value]
    \/ condition # "good" /\ UNCHANGED flash

nvs_write_byte_Stale ==
    /\ job # <<>> /\ Head(job).op = "write"
    /\ Store(Head(job).key, Defaults[Head(job).key])
    /\ job' = Tail(job)
    /\ UNCHANGED <<main, condition, staticVars, restarted>>

nvs_write_byte ==
    /\ job # <<>> /\ Head(job).op = "write"
    /\ Store(Head(job).key, ram[Head(job).key])
    /\ job' = Tail(job)
    /\ UNCHANGED <<main, condition, staticVars, restarted>>

(* Most ids have nothing stored.                                           *)
nvs_delete ==
    /\ job # <<>> /\ Head(job).op = "delete"
    /\ IF \E k \in Keys : Id[k] = Head(job).id
       THEN Store(CHOOSE k \in Keys : Id[k] = Head(job).id, None)
       ELSE UNCHANGED flash
    /\ job' = Tail(job)
    /\ UNCHANGED <<main, condition, staticVars, restarted>>

sys_reboot ==
    /\ job # <<>> /\ Head(job).op = "reboot"
    /\ Restart("reboot")

Worker == fsm_emergency_off \/ Assigns \/ nvs_write_byte \/ nvs_delete \/ sys_reboot

User == \/ cb_config_floor_set \/ cb_config_ceiling_set \/ ui_toggle_mode
        \/ cb_cal_thermal_limit_set \/ cb_cal_voltage_set \/ action_factory_reset

Next ==
    \/ Sleeps \/ nvs_read_byte \/ nvs_init_fs \/ fsm_init \/ multi_tap_input_init
    \/ EarlyKey \/ EarlyKeyExpires \/ safety_emergency_shutdown \/ PowerLoss
    \/ cb_config_floor_set \/ cb_config_ceiling_set \/ ui_toggle_mode
    \/ cb_cal_thermal_limit_set \/ cb_cal_voltage_set \/ action_factory_reset
    \/ fsm_emergency_off \/ Assigns \/ nvs_write_byte \/ nvs_delete \/ sys_reboot

Spec == Init /\ [][Next]_vars

(* main and the worker are scheduled when they are ready.  Nothing is      *)
(* assumed of the user, of the power or of the safety monitor.             *)
FairSpec == Spec /\ WF_vars(Main) /\ WF_vars(Worker)

-----------------------------------------------------------------------------
(* Properties.                                                             *)

(* Every setting, in memory and in flash, is a byte.                       *)
TypeOK ==
    /\ main \in 0..Halted
    /\ ram \in [Keys -> 0..255] /\ flash \in [Keys -> 0..255 \cup {None}]
    /\ condition \in {"good", "worn", "broken"} /\ mounted \in BOOLEAN
    /\ click_timer \in {"zero", "running", "initialised"}
    /\ shutdown \in {"none", "queued", "done"}
    /\ restarted \in {"power", "reboot", "fatal", "no"}

(* Floor and ceiling are set, saved, restored and deleted one after the    *)
(* other, each against the other of that moment; with a write refused and  *)
(* the power lost in between, the light in use still has a range.          *)
LimitsOrdered == ram["RAMP_FLOOR"] < ram["RAMP_CEILING"]

(* The settings ui_init reads after the flash was mounted.  The init       *)
(* functions it calls first have read the others before: those start with  *)
(* their defaults whatever is saved, against docs/kconfig_dts_guide.md:99. *)
LateKeys == {"RAMP_FLOOR", "RAMP_CEILING", "UI_MODE"}

Saved(k) == IF flash[k] = None THEN Defaults[k] ELSE flash[k]

(* With a flash in order, the light in use applies what is saved, whenever *)
(* the worker waits: after a change, and after a restart from any moment   *)
(* of a change, of a boot or of a factory reset.                           *)
AppliesWhatIsSaved ==
    Ready /\ job = <<>> /\ condition = "good" => \A k \in LateKeys : ram[k] = Saved(k)

(* A factory reset that comes to its end leaves nothing in a flash in      *)
(* order: the next start has the defaults.                                 *)
FactoryResetForgets ==
    job = <<Reboot>> /\ condition = "good" => \A k \in Keys : flash[k] = None

(* A flash that cannot be mounted or written, a shutdown while main sleeps *)
(* or an interrupted factory reset does not keep the light from coming up, *)
(* and a factory reset does not leave it down; undefined behaviour may.    *)
ComesUp == <>[](restarted \notin {"power", "fatal"}) => []<>(Ready \/ main = Halted)

(* What the user may expect of the settings that are read late.            *)
Promise == INSTANCE Settings WITH
    Keys <- LateKeys, Values <- 0..255,
    Default <- [k \in LateKeys |-> Defaults[k]],
    up <- Ready, readable <- condition # "broken",
    current <- [k \in LateKeys |-> IF Ready THEN ram[k] ELSE Defaults[k]],
    stored <- [k \in LateKeys |-> flash[k]]

ImplementsSettings == Promise!Spec

(* Calibrating again, from whatever offset the calibrations before it have *)
(* left, brings the reading of the same voltage to the one the user gave,  *)
(* up to the offset's steps and their rounding (src/batt_check.c:97        *)
(* "Round to nearest 100mV" would be 50 mV; a negative sum is not rounded  *)
(* to the nearest).  A reading that was cut at 0 has lost the voltage.     *)
RecalibrationIsClose ==
    \A batt_mv \in Voltages, n \in Counts :
        LET offset == ram["BATT_CALIB_OFFSET"]
            again  == batt_read_voltage_mv(batt_mv,
                          batt_calibrate_voltage(n * 100, batt_mv, offset))
        IN  batt_mv + OffsetMv(offset) >= 0 => again - n * 100 \in -149..149

=============================================================================
