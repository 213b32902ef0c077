-------------------------- MODULE RampSweep_proofs --------------------------
(***************************************************************************)
(* Proofs about the arithmetic of RampLogic, for every floor, ceiling and  *)
(* number of steps a byte can hold: the runs of RampSweep look at a few.   *)
(***************************************************************************)
EXTENDS RampSweep, TLAPS

(* The domains of a tick's arguments; kept folded where a lemma is cited.  *)
Byte == 0..255
End == 1..255
Direction == {-1, 1}
Below(a, b) == a < b

(* A quotient is bounded when its numerator is.                            *)
LEMMA DivBound ==
    ASSUME NEW a \in Nat, NEW b \in Nat \ {0}, NEW r \in Nat, a <= r * b
    PROVE  a \div b \in 0..r
OBVIOUS

LEMMA MulDiv ==
    ASSUME NEW a \in Nat \ {0}, NEW r \in Nat
    PROVE  (a * r) \div a = r
OBVIOUS

LEMMA MulBound ==
    ASSUME NEW i \in Nat, NEW n \in Nat, NEW r \in Nat, i <= n
    PROVE  i * r \in Nat /\ i * r <= r * n
OBVIOUS
(* A stepped tick ends between floor and ceiling, wherever it starts.      *)
LEMMA SteppedInRange ==
    ASSUME NEW level \in Byte, NEW direction \in Direction,
           NEW floor \in End, NEW ceiling \in End, Below(floor, ceiling),
           NEW steps0 \in Byte
    PROVE  /\ SteppedTick(level, direction, floor, ceiling, steps0).level \in floor..ceiling
           /\ SteppedTick(level, direction, floor, ceiling, steps0).direction \in Direction
<1> USE DEF Byte, End, Direction, Below
<1> DEFINE steps == UsableSteps(steps0)
           range == IF ceiling = floor THEN 1 ELSE ceiling - floor
           next  == StepIndex(level, floor, range, steps) + (IF direction > 0 THEN 1 ELSE -1)
           idx   == IF next >= steps THEN steps - 1 ELSE IF next < 0 THEN 0 ELSE next
<1>1. steps \in Nat /\ steps - 1 \in Nat \ {0}
  BY DEF UsableSteps
<1>2. range = ceiling - floor /\ range \in Nat \ {0}
  OBVIOUS
<1> HIDE DEF steps, range
<1>3. StepIndex(level, floor, range, steps) \in Int
  <2>1. (level - floor) * (steps - 1) + range \div 2 \in Int
    BY <1>1, <1>2
  <2> QED  BY <2>1, <1>1, <1>2 DEF StepIndex
<1>4. next \in Int
  BY <1>3
<1> HIDE DEF next
<1>5. idx \in Nat /\ idx <= steps - 1
  BY <1>1, <1>4
<1> HIDE DEF idx
<1>6. (idx * range) \div (steps - 1) \in 0..range
  BY <1>1, <1>2, <1>5, DivBound, MulBound
<1>7. (floor + (idx * range) \div (steps - 1)) % 256 \in floor..ceiling
  BY <1>2, <1>6
<1>8. SteppedTick(level, direction, floor, ceiling, steps0) =
         [level     |-> (floor + (idx * range) \div (steps - 1)) % 256,
          direction |-> IF next >= steps THEN -1 ELSE IF next < 0 THEN 1 ELSE direction]
  BY DEF SteppedTick, steps, range, next, idx
<1> QED  BY <1>7, <1>8

(* A smooth tick stays a byte, and in the range once it is there.          *)
LEMMA SmoothInRange ==
    ASSUME NEW level \in Byte, NEW direction \in Direction,
           NEW floor \in End, NEW ceiling \in End, Below(floor, ceiling)
    PROVE  /\ SmoothTick(level, direction, floor, ceiling).level \in Byte
           /\ SmoothTick(level, direction, floor, ceiling).direction \in Direction
           /\ level \in floor..ceiling =>
                 SmoothTick(level, direction, floor, ceiling).level \in floor..ceiling
<1> USE DEF Byte, End, Direction, Below
<1>1. CASE direction = 1 /\ level < ceiling - 1
  BY <1>1 DEF SmoothTick
<1>2. CASE direction = 1 /\ level >= ceiling - 1
  <2>1. SmoothTick(level, direction, floor, ceiling).level = ceiling
    BY <1>2 DEF SmoothTick
  <2>2. SmoothTick(level, direction, floor, ceiling).direction = -1
    BY <1>2 DEF SmoothTick
  <2> QED  BY <2>1, <2>2
<1>3. CASE direction = -1
  BY <1>3 DEF SmoothTick
<1> QED  BY <1>1, <1>2, <1>3

(* One tick, whatever the style.                                           *)
LEMMA TickInRange ==
    ASSUME NEW level \in Byte, NEW direction \in Direction, NEW style,
           NEW floor \in End, NEW ceiling \in End, Below(floor, ceiling),
           NEW steps \in Byte
    PROVE  /\ RampTick(level, direction, style, floor, ceiling, steps).level \in Byte
           /\ RampTick(level, direction, style, floor, ceiling, steps).direction \in Direction
           /\ level \in floor..ceiling \/ style = "STEPPED" =>
                 RampTick(level, direction, style, floor, ceiling, steps).level \in floor..ceiling
<1>1. CASE style = "STEPPED"
  <2>1. RampTick(level, direction, style, floor, ceiling, steps) =
        SteppedTick(level, direction, floor, ceiling, steps)
    BY <1>1 DEF RampTick
  <2>2. /\ SteppedTick(level, direction, floor, ceiling, steps).level \in floor..ceiling
        /\ SteppedTick(level, direction, floor, ceiling, steps).direction \in Direction
    BY SteppedInRange, Zenon
  <2>3. SteppedTick(level, direction, floor, ceiling, steps).level \in Byte
    BY <2>2 DEF Byte, End
  <2> QED  BY <2>1, <2>2, <2>3, Zenon
<1>2. CASE style # "STEPPED"
  <2>1. RampTick(level, direction, style, floor, ceiling, steps) =
        SmoothTick(level, direction, floor, ceiling)
    BY <1>2 DEF RampTick
  <2> QED  BY <1>2, <2>1, SmoothInRange, Zenon
<1> QED  BY <1>1, <1>2, Zenon

(* A tick that turns the ramp has taken the level to the end it went to:   *)
(* the last step is the ceiling and the first one the floor, whatever the  *)
(* rounding in between.                                                    *)
TurnsAtAnEnd(t, direction, floor, ceiling) ==
    t.direction # direction => t.level = (IF direction = 1 THEN ceiling ELSE floor)

LEMMA SteppedTurns ==
    ASSUME NEW level \in Byte, NEW direction \in Direction,
           NEW floor \in End, NEW ceiling \in End, Below(floor, ceiling),
           NEW steps0 \in Byte
    PROVE  TurnsAtAnEnd(SteppedTick(level, direction, floor, ceiling, steps0),
                        direction, floor, ceiling)
<1> USE DEF Byte, End, Direction, Below
<1> DEFINE steps == UsableSteps(steps0)
           range == IF ceiling = floor THEN 1 ELSE ceiling - floor
           next  == StepIndex(level, floor, range, steps) + (IF direction > 0 THEN 1 ELSE -1)
           idx   == IF next >= steps THEN steps - 1 ELSE IF next < 0 THEN 0 ELSE next
           t     == SteppedTick(level, direction, floor, ceiling, steps0)
<1>1. steps \in Nat /\ steps - 1 \in Nat \ {0}
  BY DEF UsableSteps
<1>2. range = ceiling - floor /\ range \in Nat \ {0}
  OBVIOUS
<1> HIDE DEF steps, range
<1>3. next \in Int
  <2>1. (level - floor) * (steps - 1) + range \div 2 \in Int
    BY <1>1, <1>2
  <2> QED  BY <2>1, <1>1, <1>2 DEF StepIndex
<1>4. /\ t.level = (floor + (idx * range) \div (steps - 1)) % 256
      /\ t.direction = IF next >= steps THEN -1 ELSE IF next < 0 THEN 1 ELSE direction
  BY DEF SteppedTick, steps, range, next, idx
<1> HIDE DEF next, t
<1>5. ASSUME direction = 1, t.direction # direction PROVE t.level = ceiling
  <2>1. next >= steps
    BY <1>1, <1>3, <1>4, <1>5
  <2>2. idx = steps - 1
    BY <2>1
  <2>3. ((steps - 1) * range) \div (steps - 1) = range
    BY <1>1, <1>2, MulDiv
  <2>4. t.level = (floor + range) % 256
    BY <1>4, <2>2, <2>3
  <2>5. t.level = ceiling
    BY <1>2, <2>4
  <2> QED  BY <2>5
<1>6. ASSUME direction = -1, t.direction # direction PROVE t.level = floor
  <2>1. ~(next >= steps) /\ next < 0
    BY <1>1, <1>3, <1>4, <1>6
  <2>2. idx = 0
    BY <2>1
  <2>3. (0 * range) \div (steps - 1) = 0
    BY <1>1, <1>2
  <2>4. t.level = floor % 256
    BY <1>4, <2>2, <2>3
  <2> QED  BY <2>4
<1>7. TurnsAtAnEnd(t, direction, floor, ceiling)
  BY <1>5, <1>6 DEF TurnsAtAnEnd
<1> QED  BY <1>7 DEF t

LEMMA SmoothTurns ==
    ASSUME NEW level \in Byte, NEW direction \in Direction,
           NEW floor \in End, NEW ceiling \in End, Below(floor, ceiling)
    PROVE  TurnsAtAnEnd(SmoothTick(level, direction, floor, ceiling), direction, floor, ceiling)
BY DEF TurnsAtAnEnd, SmoothTick, Byte, End, Direction, Below

-----------------------------------------------------------------------------
(* The configuration of a sweep does not change.                           *)
CfgOK ==
    /\ cfg \in [floor : 1..255, ceiling : 1..255, steps : 0..255, style : Styles]
    /\ cfg.floor < cfg.ceiling

Separate == \A f \in Floors, c \in Ceilings : f < c

(* The step of the sweep, with the lemma's parameters named.               *)
LEMMA TickOK ==
    ASSUME TypeOK, CfgOK, ramp_timer_handler
    PROVE  TypeOK' /\ CfgOK'
           /\ (InRange(current_brightness) \/ cfg.style = "STEPPED" => InRange(current_brightness'))
<1> DEFINE floor == cfg.floor
           ceiling == cfg.ceiling
           style == cfg.style
           steps == cfg.steps
           t == RampTick(current_brightness, ramp_direction, style, floor, ceiling, steps)
<1>1. current_brightness' = t.level /\ ramp_direction' = t.direction /\ cfg' = cfg
  BY DEF ramp_timer_handler
<1>2. Below(floor, ceiling)
  BY DEF CfgOK, Below
<1>3. floor \in End /\ ceiling \in End /\ steps \in Byte
  BY DEF CfgOK, End, Byte
<1>4. current_brightness \in Byte /\ ramp_direction \in Direction
  BY DEF TypeOK, Byte, Direction
<1>5. CfgOK'
  BY <1>1 DEF CfgOK
<1> HIDE DEF floor, ceiling, style, steps
<1>6. /\ t.level \in Byte /\ t.direction \in Direction
      /\ current_brightness \in floor..ceiling \/ style = "STEPPED" => t.level \in floor..ceiling
  BY <1>2, <1>3, <1>4, TickInRange, Zenon
<1> HIDE DEF t
<1>7. TypeOK'
  BY <1>1, <1>6 DEF TypeOK, Byte, Direction
<1>8. InRange(current_brightness) \/ cfg.style = "STEPPED" => InRange(current_brightness')
  <2> USE DEF InRange, floor, ceiling, style
  <2>1. cfg.floor' = cfg.floor /\ cfg.ceiling' = cfg.ceiling
    BY <1>1
  <2> QED  BY <1>1, <1>6
<1> QED  BY <1>5, <1>7, <1>8, Zenon

(* The strengthening of TypeOK that both theorems need.                    *)
LEMMA SweepInvariant == ASSUME Separate PROVE Spec => [](TypeOK /\ CfgOK)
<1>1. Init => TypeOK /\ CfgOK
  BY ConfigAssumption DEF Separate, Init, TypeOK, CfgOK
<1>2. TypeOK /\ CfgOK /\ [ramp_timer_handler]_vars => (TypeOK /\ CfgOK)'
  BY TickOK DEF vars, TypeOK, CfgOK
<1> QED  BY <1>1, <1>2, PTL DEF Spec

(* The level stays a byte and the direction a direction.                   *)
THEOREM SweepTypeCorrect == ASSUME Separate PROVE Spec => []TypeOK
BY SweepInvariant, PTL

(* With the floor below the ceiling, no tick leaves the range between      *)
(* them, whatever the number of steps.                                     *)
THEOREM RangeKept == ASSUME Separate PROVE Spec => StaysInRange
<1>1. TypeOK /\ CfgOK /\ [ramp_timer_handler]_vars =>
        [InRange(current_brightness) \/ cfg.style = "STEPPED" => InRange(current_brightness')]_vars
  BY TickOK DEF vars
<1> QED  BY <1>1, SweepInvariant, PTL DEF Spec, StaysInRange
(* A tick turns the ramp only when the level has arrived at the ceiling or *)
(* at the floor, whatever the level, the floor, the ceiling and the number *)
(* of steps it has to round with.                                          *)
THEOREM TurnsAtTheEnds == ASSUME Separate PROVE Spec => BouncesAtTheEnds
<1> DEFINE Bounce == ramp_direction' # ramp_direction =>
              current_brightness' = (IF ramp_direction = 1 THEN cfg.ceiling ELSE cfg.floor)
<1>1. TypeOK /\ CfgOK /\ ramp_timer_handler => Bounce
  <2> SUFFICES ASSUME TypeOK, CfgOK, ramp_timer_handler PROVE Bounce
    OBVIOUS
  <2> DEFINE floor == cfg.floor
             ceiling == cfg.ceiling
             style == cfg.style
             steps == cfg.steps
             t == RampTick(current_brightness, ramp_direction, style, floor, ceiling, steps)
  <2>1. current_brightness' = t.level /\ ramp_direction' = t.direction
    BY DEF ramp_timer_handler
  <2>2. Below(floor, ceiling)
    BY DEF CfgOK, Below
  <2>3. floor \in End /\ ceiling \in End /\ steps \in Byte
    BY DEF CfgOK, End, Byte
  <2>4. current_brightness \in Byte /\ ramp_direction \in Direction
    BY DEF TypeOK, Byte, Direction
  <2>5. TurnsAtAnEnd(t, ramp_direction, floor, ceiling)
    <3> HIDE DEF floor, ceiling, style, steps
    <3>1. TurnsAtAnEnd(SteppedTick(current_brightness, ramp_direction, floor, ceiling, steps),
                       ramp_direction, floor, ceiling)
      BY <2>2, <2>3, <2>4, SteppedTurns, Zenon
    <3>2. TurnsAtAnEnd(SmoothTick(current_brightness, ramp_direction, floor, ceiling),
                       ramp_direction, floor, ceiling)
      BY <2>2, <2>3, <2>4, SmoothTurns, Zenon
    <3>3. \/ t = SteppedTick(current_brightness, ramp_direction, floor, ceiling, steps)
          \/ t = SmoothTick(current_brightness, ramp_direction, floor, ceiling)
      BY Zenon DEF RampTick
    <3> QED  BY <3>1, <3>2, <3>3, Zenon
  <2> QED  BY <2>1, <2>5 DEF TurnsAtAnEnd
<1>2. TypeOK /\ CfgOK /\ [ramp_timer_handler]_vars => [Bounce]_vars
  BY <1>1 DEF vars
<1> QED  BY <1>2, SweepInvariant, PTL DEF Spec, BouncesAtTheEnds
=============================================================================
