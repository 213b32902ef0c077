--------------------------- MODULE ThermalManager ---------------------------
(***************************************************************************)
(* lib/thermal_manager.c: the PID throttle of the beam, and its two        *)
(* calibrations.                                                           *)
(*                                                                         *)
(* thermal_update runs in the timer interrupt, twice a second while        *)
(* thermal_timer is on.  thermal_calibrate_current_temp runs in the        *)
(* worker: it takes the offset away, reads the sensor and stores the new   *)
(* offset, and a tick may come in between.  Temperatures are integers in   *)
(* thousandths of a degree, as in the code.                                *)
(*                                                                         *)
(* An operator whose name ends in a remark is a plausible fault of the     *)
(* operator it precedes; no specification uses it.                         *)
(***************************************************************************)
EXTENDS Integers

CONSTANTS
    Kp, Ki, Kd,        \* CONFIG_ZBEAM_PID_*, scaled by 100
    DefaultLimit,      \* CONFIG_ZBEAM_THERMAL_LIMIT_DEFAULT, degrees
    FullFactor,        \* 255 in the code: nothing is taken away
    Temperatures,      \* what the sensor may report
    Failed,            \* it does not answer
    CurrentCounts,     \* clicks given for the current temperature
    LimitCounts        \* clicks given for the limit; dispatch_input passes
                       \* on no more than MAX_NAV_SLOTS = 10

ASSUME GainAssumption   == Kp \in Nat /\ Ki \in Nat /\ Kd \in Nat
ASSUME FactorAssumption == FullFactor \in Nat /\ FullFactor >= 2
ASSUME SensorAssumption == Temperatures \subseteq Int /\ Failed \notin Int /\ DefaultLimit \in Nat
ASSUME CountsAssumption == CurrentCounts \subseteq 1..10 /\ LimitCounts \subseteq 1..10

VARIABLES
    integral_error, prev_error, current_temp_mc, throttle_factor,
    temp_limit_mc, temp_offset_mc,
    thermal_timer,     \* whether the k_timer is running
    sensor,            \* what the sensor would report now
    calibrating        \* where the worker is in thermal_calibrate_current_temp

pidVars    == <<integral_error, prev_error, current_temp_mc, throttle_factor>>
configVars == <<temp_limit_mc, temp_offset_mc>>
vars       == <<pidVars, configVars, thermal_timer, sensor, calibrating>>

Fallback == 25000
Windup   == 20000      \* the clamp of the integral
Critical == 10000      \* above the limit
Minimum  == 2          \* "don't go to 0 as it looks like a crash"

Clamp(n, low, high) == IF n > high THEN high ELSE IF n < low THEN low ELSE n
Magnitude(n) == IF n < 0 THEN - n ELSE n

(* Division in C drops the fraction of a negative number, too.             *)
Quotient(n, d) == IF n < 0 THEN - ((- n) \div d) ELSE n \div d

(* A sensor that does not answer counts as 25 degrees, without the offset. *)
read_sensor_temp(offset) == IF sensor = Failed THEN Fallback ELSE sensor + offset

-----------------------------------------------------------------------------
(* One tick of the controller.                                             *)

Deviation_Swapped(temp, limit) == limit - temp

Deviation(temp, limit) == temp - limit

(* Only near the set point, and clamped.                                   *)
Integral(integral, error) ==
    Clamp(IF Magnitude(error) < 5000 THEN integral + error ELSE 0, - Windup, Windup)

Adjustment(error, integral, derivative) ==
    Quotient(error * Kp, 100) + Quotient(integral * Ki, 100) + Quotient(derivative * Kd, 100)

FactorChange_NoRateLimit(error, adjustment) == Quotient(adjustment, 1000)

FactorChange_NoRelease(error, adjustment) ==
    IF Quotient(adjustment, 1000) < -2 THEN 0 ELSE Clamp(Quotient(adjustment, 1000), 0, 10)

(* At least one step when far from the set point; at most ten down or two  *)
(* up.                                                                     *)
FactorChange(error, adjustment) ==
    LET steps == Quotient(adjustment, 1000)
        least == IF error > 0 THEN 1 ELSE -1
    IN  Clamp(IF Magnitude(error) > 5000 /\ steps = 0 THEN least ELSE steps, -2, 10)

NewFactor_NotCritical(factor, change, error) == Clamp(factor - change, Minimum, FullFactor)

NewFactor_NoClamp(factor, change, error) ==
    IF error > Critical /\ factor - change > factor - 5 THEN factor - 5 ELSE factor - change

(* Ten degrees above the limit the factor falls by five at least.          *)
NewFactor(factor, change, error) ==
    Clamp(IF error > Critical /\ factor - change > factor - 5 THEN factor - 5 ELSE factor - change,
          Minimum, FullFactor)

thermal_update ==
    LET temp     == read_sensor_temp(temp_offset_mc)
        error    == Deviation(temp, temp_limit_mc)
        integral == Integral(integral_error, error)
        change   == FactorChange(error, Adjustment(error, integral, error - prev_error))
    IN  /\ current_temp_mc' = temp
        /\ integral_error' = integral
        /\ prev_error' = error
        /\ throttle_factor' = NewFactor(throttle_factor, change, error)

-----------------------------------------------------------------------------
(* thermal_init has found nothing to read: it comes before the flash is    *)
(* mounted (Boot has the order, and the saving of the settings).           *)
Init ==
    /\ integral_error = 0 /\ prev_error = 0
    /\ current_temp_mc = 25000 /\ throttle_factor = FullFactor
    /\ temp_limit_mc = DefaultLimit * 1000 /\ temp_offset_mc = 0
    /\ thermal_timer = "off"
    /\ sensor \in Temperatures
    /\ calibrating = [at |-> "no"]

(* The interrupt.                                                          *)
thermal_timer_handler ==
    /\ thermal_timer = "on"
    /\ thermal_update
    /\ UNCHANGED <<configVars, thermal_timer, sensor, calibrating>>

(* action_on starts the timer, from the worker; action_off stops it, from   *)
(* the worker or from the interrupt of a menu that timed out.  Nothing      *)
(* resets the controller: it goes on where it was.                          *)
action_on ==
    /\ calibrating.at = "no" /\ thermal_timer' = "on"
    /\ UNCHANGED <<pidVars, configVars, sensor, calibrating>>

action_off ==
    /\ thermal_timer' = "off"
    /\ UNCHANGED <<pidVars, configVars, sensor, calibrating>>

(* cb_cal_thermal_set, one action per statement the interrupt may follow.  *)
ForgetOffset == \E known \in CurrentCounts :
    /\ calibrating.at = "no"
    /\ temp_offset_mc' = 0
    /\ calibrating' = [at |-> "read", known |-> known]
    /\ UNCHANGED <<pidVars, temp_limit_mc, thermal_timer, sensor>>

ReadRaw ==
    /\ calibrating.at = "read"
    /\ calibrating' = [at |-> "store", known |-> calibrating.known,
                       raw_current |-> read_sensor_temp(temp_offset_mc)]
    /\ UNCHANGED <<pidVars, configVars, thermal_timer, sensor>>

NewOffset(known, raw_current) == known * 1000 - raw_current

StoreOffset ==
    /\ calibrating.at = "store"
    /\ temp_offset_mc' = NewOffset(calibrating.known, calibrating.raw_current)
    /\ calibrating' = [at |-> "no"]
    /\ UNCHANGED <<pidVars, temp_limit_mc, thermal_timer, sensor>>

(* cb_cal_thermal_limit_set.                                               *)
thermal_set_limit == \E count \in LimitCounts :
    /\ calibrating.at = "no"
    /\ temp_limit_mc' = (30 + count) * 1000
    /\ UNCHANGED <<pidVars, temp_offset_mc, thermal_timer, sensor, calibrating>>

(* The environment: the temperature moves, the sensor fails or recovers.   *)
SensorChanges ==
    /\ sensor' \in (Temperatures \cup {Failed}) \ {sensor}
    /\ UNCHANGED <<pidVars, configVars, thermal_timer, calibrating>>

Next ==
    \/ thermal_timer_handler
    \/ action_on \/ action_off
    \/ ForgetOffset \/ ReadRaw \/ StoreOffset \/ thermal_set_limit
    \/ SensorChanges

Spec == Init /\ [][Next]_vars

(* A running timer goes on expiring, and the worker goes on.  Nothing is   *)
(* assumed of the user and of the temperature.                             *)
FairSpec == Spec /\ WF_vars(thermal_timer_handler) /\ WF_vars(ReadRaw \/ StoreOffset)

-----------------------------------------------------------------------------
(* Properties.                                                             *)

CalibrationSteps ==
    [at : {"no"}] \cup [at : {"read"}, known : CurrentCounts]
                  \cup [at : {"store"}, known : CurrentCounts, raw_current : Int]

(* The integral stays in its clamp and the factor between the minimum that *)
(* keeps the throttle from looking like a crash and full power, whatever   *)
(* the sensor and the user do: the byte it is cast to never wraps.         *)
TypeOK ==
    /\ integral_error \in (- Windup)..Windup /\ prev_error \in Int /\ current_temp_mc \in Int
    /\ throttle_factor \in Minimum..FullFactor
    /\ temp_limit_mc \in Nat /\ temp_offset_mc \in Int
    /\ thermal_timer \in {"off", "on"}
    /\ sensor \in Temperatures \cup {Failed}
    /\ calibrating \in CalibrationSteps

(* "Don't drop more than 10 levels per 500ms and don't rise more than 2":  *)
(* no step changes the factor by more, not when the sensor fails or comes  *)
(* back, not when a tick falls into a calibration and sees the temperature *)
(* without its offset, not when the limit moves.                           *)
RateLimited == [][throttle_factor' - throttle_factor \in -10..2]_vars

(* "If critically hot (> Limit + 10C), force faster drop regardless of     *)
(* PID": however fast the temperature has just fallen, a tick takes five   *)
(* levels or reaches the minimum.                                          *)
CriticalDrops ==
    [][thermal_timer_handler /\ prev_error' > Critical =>
         throttle_factor' <= throttle_factor - 5 \/ throttle_factor' = Minimum]_vars

OffBy(margin) == Magnitude(read_sensor_temp(temp_offset_mc) - temp_limit_mc) >= margin
Hot  == read_sensor_temp(temp_offset_mc) > temp_limit_mc
Cool == read_sensor_temp(temp_offset_mc) < temp_limit_mc

(* While the beam stays on and the reading stays two degrees above the     *)
(* limit, whatever it does up there, the throttle goes to its minimum.     *)
HotSettles ==
    <>[](thermal_timer = "on" /\ Hot /\ OffBy(2000)) => []<>(throttle_factor = Minimum)

(* A light that has cooled down comes back to full power: while the beam   *)
(* stays on and the reading is steady, two degrees below the limit, the    *)
(* whole throttle is released, whatever the integral has gathered.         *)
CoolRecovers ==
    /\ <>[](thermal_timer = "on" /\ Cool /\ OffBy(2000))
    /\ <>[][UNCHANGED <<sensor, temp_offset_mc>>]_vars
    => <>[](throttle_factor = FullFactor)
=============================================================================
