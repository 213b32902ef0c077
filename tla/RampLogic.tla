------------------------------ MODULE RampLogic ------------------------------
(***************************************************************************)
(* The arithmetic of ramp_timer_handler (src/ui_actions.c): where one tick *)
(* of the ramp takes the brightness and which way it goes on.  The result  *)
(* is a record [level, direction].  An operator whose name ends in a       *)
(* remark is a plausible fault of the operator after it.                   *)
(***************************************************************************)
EXTENDS Integers

(* Kconfig allows 2..150 steps; the handler repairs anything smaller.      *)
UsableSteps(steps) == IF steps < 2 THEN 7 ELSE steps

(* The index of the step nearest to level.  The numerator is converted to  *)
(* uint32_t before the division: a level below the floor that the rounding *)
(* does not absorb wraps to a number past the last step (with range 1 the  *)
(* quotient does not shrink and int32_t makes it negative again; with      *)
(* range 2 the quotient may be INT_MAX, which is not modelled).            *)
StepIndex(level, floor, range, steps) ==
    LET n == (level - floor) * (steps - 1) + range \div 2
    IN  CASE n >= 0               -> n \div range
          [] n < 0 /\ range = 1   -> n
          [] OTHER                -> 2 * steps

SteppedTick_Truncates(level, direction, floor, ceiling, steps0) ==
    LET steps == UsableSteps(steps0)
        range == IF ceiling = floor THEN 1 ELSE ceiling - floor
        next  == ((level - floor) * (steps - 1)) \div range + (IF direction > 0 THEN 1 ELSE -1)
        idx   == IF next >= steps THEN steps - 1 ELSE IF next < 0 THEN 0 ELSE next
    IN  [level     |-> (floor + (idx * range) \div (steps - 1)) % 256,
         direction |-> IF next >= steps THEN -1 ELSE IF next < 0 THEN 1 ELSE direction]

SteppedTick_NoClamp(level, direction, floor, ceiling, steps0) ==
    LET steps == UsableSteps(steps0)
        range == IF ceiling = floor THEN 1 ELSE ceiling - floor
        next  == StepIndex(level, floor, range, steps) + (IF direction > 0 THEN 1 ELSE -1)
    IN  [level     |-> (floor + (next * range) \div (steps - 1)) % 256,
         direction |-> IF next >= steps THEN -1 ELSE IF next < 0 THEN 1 ELSE direction]

(* The new level is a uint8_t again.                                       *)
SteppedTick(level, direction, floor, ceiling, steps0) ==
    LET steps == UsableSteps(steps0)
        range == IF ceiling = floor THEN 1 ELSE ceiling - floor
        next  == StepIndex(level, floor, range, steps) + (IF direction > 0 THEN 1 ELSE -1)
        idx   == IF next >= steps THEN steps - 1 ELSE IF next < 0 THEN 0 ELSE next
    IN  [level     |-> (floor + (idx * range) \div (steps - 1)) % 256,
         direction |-> IF next >= steps THEN -1 ELSE IF next < 0 THEN 1 ELSE direction]

SmoothTick_OffByOne(level, direction, floor, ceiling) ==
    CASE direction > 0 /\ level <= ceiling -> [level |-> level + 1, direction |-> direction]
      [] direction > 0 /\ level > ceiling  -> [level |-> ceiling,   direction |-> -1]
      [] direction < 0 /\ level > floor + 1    -> [level |-> level - 1, direction |-> direction]
      [] direction < 0 /\ level <= floor + 1   -> [level |-> floor,     direction |-> 1]
      [] OTHER -> [level |-> level, direction |-> direction]

SmoothTick(level, direction, floor, ceiling) ==
    CASE direction > 0 /\ level < ceiling - 1  -> [level |-> level + 1, direction |-> direction]
      [] direction > 0 /\ level >= ceiling - 1 -> [level |-> ceiling,   direction |-> -1]
      [] direction < 0 /\ level > floor + 1    -> [level |-> level - 1, direction |-> direction]
      [] direction < 0 /\ level <= floor + 1   -> [level |-> floor,     direction |-> 1]
      [] OTHER -> [level |-> level, direction |-> direction]

RampTick(level, direction, style, floor, ceiling, steps) ==
    IF style = "STEPPED" THEN SteppedTick(level, direction, floor, ceiling, steps)
                         ELSE SmoothTick(level, direction, floor, ceiling)
=============================================================================
