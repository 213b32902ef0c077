----------------------- MODULE ThermalManager_proofs -----------------------
(***************************************************************************)
(* What holds of the throttle for every choice of the gains, the limits,   *)
(* the temperatures the sensor may report and the number of levels.        *)
(***************************************************************************)
EXTENDS ThermalManager, TLAPS

(* Division as in C gives an integer.                                      *)
LEMMA QuotientType ==
    ASSUME NEW n \in Int, NEW d \in Nat \ {0}
    PROVE  Quotient(n, d) \in Int
<1>1. \A m \in Int : m \div d \in Int
  OBVIOUS
<1> QED BY <1>1 DEF Quotient

(* The sum of the three terms is an integer, for every gain.               *)
LEMMA AdjustmentType ==
    ASSUME NEW error \in Int, NEW integral \in Int, NEW derivative \in Int
    PROVE  Adjustment(error, integral, derivative) \in Int
<1>1. error * Kp \in Int /\ integral * Ki \in Int /\ derivative * Kd \in Int
  BY GainAssumption
<1>2. /\ Quotient(error * Kp, 100) \in Int
      /\ Quotient(integral * Ki, 100) \in Int
      /\ Quotient(derivative * Kd, 100) \in Int
  BY <1>1, QuotientType
<1> QED BY <1>2 DEF Adjustment

(* The rate limit: at most two levels up or ten down.                      *)
LEMMA ChangeBounds ==
    ASSUME NEW error \in Int, NEW adjustment \in Int
    PROVE  FactorChange(error, adjustment) \in -2..10
<1> DEFINE steps == Quotient(adjustment, 1000)
           least == IF error > 0 THEN 1 ELSE -1
           wish  == IF Magnitude(error) > 5000 /\ steps = 0 THEN least ELSE steps
<1>1. steps \in Int
  BY QuotientType
<1>2. wish \in Int
  <2> HIDE DEF steps
  <2> QED BY <1>1
<1>3. Clamp(wish, -2, 10) \in -2..10
  <2> HIDE DEF wish
  <2> QED BY <1>2 DEF Clamp
<1> QED BY <1>3 DEF FactorChange

(* Clamped to its range, the factor moves by no more than the rate limit   *)
(* allows, and a critical temperature takes at least five levels.          *)
LEMMA FactorMoves ==
    ASSUME NEW factor \in Minimum..FullFactor, NEW change \in -2..10, NEW error \in Int
    PROVE  /\ NewFactor(factor, change, error) \in Minimum..FullFactor
           /\ NewFactor(factor, change, error) - factor \in -10..2
           /\ error > Critical => \/ NewFactor(factor, change, error) <= factor - 5
                               \/ NewFactor(factor, change, error) = Minimum
BY FactorAssumption DEF NewFactor, Clamp, Minimum

(* The integral is an integer before and in its clamp afterwards.          *)
LEMMA IntegralBounds ==
    ASSUME NEW integral \in Int, NEW error \in Int
    PROVE  Integral(integral, error) \in (- Windup)..Windup
<1> DEFINE sum == IF Magnitude(error) < 5000 THEN integral + error ELSE 0
<1>1. sum \in Int
  OBVIOUS
<1>2. Windup \in Nat
  BY DEF Windup
<1>3. Clamp(sum, - Windup, Windup) \in (- Windup)..Windup
  <2> HIDE DEF sum
  <2> QED BY <1>1, <1>2 DEF Clamp
<1> QED BY <1>3 DEF Integral

(* What a reading is, whether the sensor answers or not.                   *)
LEMMA ReadingType ==
    ASSUME TypeOK, NEW offset \in Int
    PROVE  read_sensor_temp(offset) \in Int
BY SensorAssumption DEF TypeOK, read_sensor_temp, Fallback

(* One tick, from any state of the right types: the new values have their  *)
(* types, the factor moves within the rate limit and falls when critical.  *)
LEMMA TickBounds ==
    ASSUME TypeOK, thermal_update
    PROVE  /\ integral_error' \in (- Windup)..Windup
           /\ prev_error' \in Int /\ current_temp_mc' \in Int
           /\ throttle_factor' \in Minimum..FullFactor
           /\ throttle_factor' - throttle_factor \in -10..2
           /\ prev_error' > Critical =>
                throttle_factor' <= throttle_factor - 5 \/ throttle_factor' = Minimum
<1> DEFINE temp     == read_sensor_temp(temp_offset_mc)
           error    == Deviation(temp, temp_limit_mc)
           integral == Integral(integral_error, error)
           adjust   == Adjustment(error, integral, error - prev_error)
           change   == FactorChange(error, adjust)
<1>1. temp \in Int
  BY ReadingType DEF TypeOK
<1>2. error \in Int
  <2> HIDE DEF temp
  <2> QED BY <1>1 DEF Deviation, TypeOK
<1>3. integral \in (- Windup)..Windup
  <2> HIDE DEF error
  <2>1. integral_error \in Int
    BY DEF TypeOK, Windup
  <2> QED BY <1>2, <2>1, IntegralBounds
<1>4. adjust \in Int
  <2> HIDE DEF error, integral
  <2>1. error - prev_error \in Int
    BY <1>2 DEF TypeOK
  <2> QED BY <1>2, <1>3, <2>1, AdjustmentType
<1>5. change \in -2..10
  <2> HIDE DEF error, adjust
  <2> QED BY <1>2, <1>4, ChangeBounds
<1>6. /\ current_temp_mc' = temp /\ integral_error' = integral
      /\ prev_error' = error /\ throttle_factor' = NewFactor(throttle_factor, change, error)
  BY DEF thermal_update
<1> HIDE DEF temp, error, integral, change
<1>7. throttle_factor \in Minimum..FullFactor
  BY DEF TypeOK
<1> QED BY <1>1, <1>2, <1>3, <1>5, <1>6, <1>7, FactorMoves

-----------------------------------------------------------------------------
(* TypeOK is inductive.                                                    *)

(* A light that has just started is within the bounds.                     *)
LEMMA InitTypeOK == Init => TypeOK
<1> SUFFICES ASSUME Init PROVE TypeOK
  OBVIOUS
<1>1. FullFactor \in Minimum..FullFactor
  BY FactorAssumption DEF Minimum
<1>2. DefaultLimit * 1000 \in Nat
  BY SensorAssumption
<1>3. 0 \in (- Windup)..Windup
  BY DEF Windup
<1> QED BY <1>1, <1>2, <1>3 DEF Init, TypeOK, CalibrationSteps

(* A tick by TickBounds, every other step by what it assigns.              *)
LEMMA StepTypeOK == TypeOK /\ [Next]_vars => TypeOK'
<1> SUFFICES ASSUME TypeOK, [Next]_vars PROVE TypeOK'
  OBVIOUS
<1> USE DEF TypeOK
<1>1. CASE thermal_timer_handler
  <2>1. thermal_update
    BY <1>1 DEF thermal_timer_handler
  <2> QED BY <1>1, <2>1, TickBounds DEF thermal_timer_handler, configVars
<1>2. CASE action_on
  BY <1>2 DEF action_on, pidVars, configVars
<1>3. CASE action_off
  BY <1>3 DEF action_off, pidVars, configVars
<1>4. CASE ForgetOffset
  BY <1>4 DEF ForgetOffset, pidVars, CalibrationSteps
<1>5. CASE ReadRaw
  <2>1. read_sensor_temp(temp_offset_mc) \in Int
    BY ReadingType
  <2>2. calibrating.known \in CurrentCounts
    BY <1>5 DEF ReadRaw, CalibrationSteps
  <2> QED BY <1>5, <2>1, <2>2 DEF ReadRaw, CalibrationSteps, pidVars, configVars
<1>6. CASE StoreOffset
  <2>0. calibrating \in [at : {"store"}, known : CurrentCounts, raw_current : Int]
    BY <1>6 DEF StoreOffset, CalibrationSteps
  <2>1. calibrating.known \in CurrentCounts /\ calibrating.raw_current \in Int
    BY <2>0
  <2>2. NewOffset(calibrating.known, calibrating.raw_current) \in Int
    <3>1. \A known \in 1..10, raw \in Int : NewOffset(known, raw) \in Int
      BY DEF NewOffset
    <3> QED BY <2>1, <3>1, CountsAssumption
  <2> QED BY <1>6, <2>2 DEF StoreOffset, CalibrationSteps, pidVars
<1>7. CASE thermal_set_limit
  <2>1. \A count \in LimitCounts : (30 + count) * 1000 \in Nat
    BY CountsAssumption
  <2> QED BY <1>7, <2>1 DEF thermal_set_limit, pidVars
<1>8. CASE SensorChanges
  BY <1>8 DEF SensorChanges, pidVars, configVars
<1>9. CASE UNCHANGED vars
  BY <1>9 DEF vars, pidVars, configVars
<1> QED BY <1>1, <1>2, <1>3, <1>4, <1>5, <1>6, <1>7, <1>8, <1>9 DEF Next

(* The integral keeps its clamp and the factor its range, for every gain,  *)
(* limit, temperature and number of levels: the casts lose nothing.        *)
THEOREM TypeCorrect == Spec => []TypeOK
<1>1. Init => TypeOK
  BY InitTypeOK
<1>2. TypeOK /\ [Next]_vars => TypeOK'
  BY StepTypeOK
<1> QED BY <1>1, <1>2, PTL DEF Spec

-----------------------------------------------------------------------------
(* No step moves the factor by more than ten levels down or two up, for    *)
(* every gain: the derivative of a sudden change cannot get through.       *)
LEMMA StepRate == TypeOK /\ [Next]_vars => [throttle_factor' - throttle_factor \in -10..2]_vars
<1> SUFFICES ASSUME TypeOK, Next PROVE throttle_factor' - throttle_factor \in -10..2
  OBVIOUS
<1>1. CASE thermal_timer_handler
  BY <1>1, TickBounds DEF thermal_timer_handler
<1>2. CASE throttle_factor' = throttle_factor
  BY <1>2, FactorAssumption DEF TypeOK, Minimum
<1>3. \/ thermal_timer_handler \/ throttle_factor' = throttle_factor
  BY DEF Next, action_on, action_off, ForgetOffset, ReadRaw, StoreOffset,
         thermal_set_limit, SensorChanges, pidVars
<1> QED BY <1>1, <1>2, <1>3

(* The throttle never moves faster than the rate limit of thermal_update.  *)
THEOREM RateCorrect == Spec => RateLimited
<1>1. TypeOK /\ [Next]_vars => [throttle_factor' - throttle_factor \in -10..2]_vars
  BY StepRate
<1> QED BY <1>1, TypeCorrect, PTL DEF Spec, RateLimited

(* At a critical temperature every tick takes five levels or reaches the   *)
(* minimum, for every gain and however the temperature has moved.          *)
LEMMA StepCritical ==
    TypeOK /\ [Next]_vars =>
        [thermal_timer_handler /\ prev_error' > Critical =>
             throttle_factor' <= throttle_factor - 5 \/ throttle_factor' = Minimum]_vars
<1> SUFFICES ASSUME TypeOK, thermal_timer_handler, prev_error' > Critical
             PROVE  throttle_factor' <= throttle_factor - 5 \/ throttle_factor' = Minimum
  OBVIOUS
<1>1. thermal_update
  BY DEF thermal_timer_handler
<1> QED BY <1>1, TickBounds

(* A tick of thermal_update at a critical temperature always drops.        *)
THEOREM CriticalCorrect == Spec => CriticalDrops
<1>1. TypeOK /\ [Next]_vars =>
        [thermal_timer_handler /\ prev_error' > Critical =>
             throttle_factor' <= throttle_factor - 5 \/ throttle_factor' = Minimum]_vars
  BY StepCritical
<1> QED BY <1>1, TypeCorrect, PTL DEF Spec, CriticalDrops
=============================================================================
