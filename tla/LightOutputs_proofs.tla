------------------------ MODULE LightOutputs_proofs ------------------------
(***************************************************************************)
(* Theorems about LightOutputs and ChannelManager, for every number of     *)
(* emitters, every range of levels and all levels and factors in it.       *)
(***************************************************************************)
EXTENDS LightOutputs, TLAPS

(* A quotient rounds down.                                                 *)
LEMMA Rounds ==
    ASSUME NEW n \in Nat, NEW d \in Nat \ {0}
    PROVE  n \div d \in Nat /\ d * (n \div d) <= n /\ n < d * (n \div d) + d
OBVIOUS

(* More of the one times more of the other is more.                        *)
LEMMA Products ==
    ASSUME NEW a \in Nat, NEW b \in Nat, NEW c \in Nat, NEW d \in Nat, a <= c, b <= d
    PROVE  a * b \in Nat /\ c * d \in Nat /\ a * b <= c * d
<1>1. a * b <= c * b
  <2>1. (c - a) * b >= 0
    <3>1. \A x, y \in Nat : x * y >= 0
      OBVIOUS
    <3>2. c - a \in Nat
      OBVIOUS
    <3> QED BY <3>1, <3>2
  <2> QED BY <2>1
<1>2. c * b <= c * d
  <2>1. c * (d - b) >= 0
    <3>1. \A x, y \in Nat : x * y >= 0
      OBVIOUS
    <3>2. d - b \in Nat
      OBVIOUS
    <3> QED BY <3>1, <3>2
  <2> QED BY <2>1
<1> QED BY <1>1, <1>2

(* Division keeps the order.                                               *)
LEMMA Quotients ==
    ASSUME NEW n \in Nat, NEW m \in Nat, NEW d \in Nat \ {0}, n <= m
    PROVE  n \div d <= m \div d
<1> DEFINE p == n \div d
           q == m \div d
<1>1. p \in Nat /\ q \in Nat /\ d * p <= n /\ m < d * q + d
  BY Rounds
<1> SUFFICES ASSUME q + 1 <= p PROVE FALSE
  BY <1>1
<1> HIDE DEF p, q
<1>2. d * (q + 1) <= d * p
  BY <1>1, Products
<1>3. d * (q + 1) = d * q + d
  BY <1>1
<1> QED BY <1>1, <1>2, <1>3

(* A part of n, in d-ths, that is not more than the whole, is not more     *)
(* than n.                                                                 *)
LEMMA Parts ==
    ASSUME NEW n \in Nat, NEW part \in Nat, NEW d \in Nat \ {0}, part <= d
    PROVE  (n * part) \div d \in 0..n
<1>1. n * part \in Nat /\ n * d \in Nat /\ n * part <= n * d
  BY Products
<1>2. (n * part) \div d <= (n * d) \div d
  BY <1>1, Quotients
<1>3. (n * d) \div d = n
  <2>1. \A k \in Nat : (k * d) \div d = k
    OBVIOUS
  <2> QED BY <2>1
<1>4. (n * part) \div d \in Nat
  BY <1>1, Rounds
<1> QED BY <1>2, <1>3, <1>4

-----------------------------------------------------------------------------
(* Weights and levels.                                                     *)

(* There is an emitter, and every slice has a level.                       *)
LEMMA Slices == Full \in Nat \ {0} /\ Slice \in Nat \ {0} /\ Slice <= Full
<1>1. Full \in Nat \ {0} /\ NumEmitters \in Nat \ {0} /\ NumEmitters <= Full
  BY EmittersAssumption
<1>2. Slice \in Nat /\ Full < NumEmitters * Slice + NumEmitters
  BY <1>1, Rounds DEF Slice
<1>3. Slice # 0
  BY <1>1, <1>2
<1>4. Slice <= Full
  <2>1. Slice * NumEmitters <= Full
    BY <1>1, Rounds DEF Slice
  <2>2. Slice * 1 <= Slice * NumEmitters
    BY <1>1, <1>2, Products
  <2> QED BY <1>1, <1>2, <2>1, <2>2
<1> QED BY <1>1, <1>2, <1>3, <1>4

(* Where the slice of an emitter starts, and that the next starts where it *)
(* ends.                                                                   *)
LEMMA Starts ==
    ASSUME NEW i \in Nat
    PROVE  i * Slice \in Nat /\ (i + 1) * Slice = i * Slice + Slice
BY Slices

(* A sequential weight is a weight.                                        *)
LEMMA SequentialRange ==
    ASSUME NEW t \in Nat, NEW i \in Nat
    PROVE  SequentialWeight(t, i) \in 0..Full
<1> DEFINE start == i * Slice
<1>1. start \in Nat /\ (i + 1) * Slice = start + Slice
  BY Starts
<1>2. Full \in Nat \ {0} /\ Slice \in Nat \ {0}
  BY Slices
<1> HIDE DEF start
<1>3. CASE t > start /\ t < start + Slice
  <2>1. t - start \in Nat /\ t - start <= Slice
    BY <1>1, <1>2, <1>3
  <2>2. (Full * (t - start)) \div Slice \in 0..Full
    BY <1>2, <2>1, Parts
  <2>3. (t - start) * Full = Full * (t - start)
    BY <1>2, <2>1
  <2> QED BY <1>1, <1>2, <1>3, <2>2, <2>3 DEF SequentialWeight, start
<1>4. CASE ~(t > start /\ t < start + Slice)
  BY <1>1, <1>2, <1>4 DEF SequentialWeight, start
<1> QED BY <1>3, <1>4

(* It grows with the level.                                                *)
LEMMA SequentialGrows ==
    ASSUME NEW low \in Nat, NEW high \in Nat, low <= high, NEW i \in Nat
    PROVE  SequentialWeight(low, i) <= SequentialWeight(high, i)
<1> DEFINE start == i * Slice
<1>1. start \in Nat /\ (i + 1) * Slice = start + Slice
  BY Starts
<1>2. Full \in Nat \ {0} /\ Slice \in Nat \ {0}
  BY Slices
<1>3. SequentialWeight(low, i) \in 0..Full /\ SequentialWeight(high, i) \in 0..Full
  BY SequentialRange
<1> HIDE DEF start
<1>4. CASE low <= start
  BY <1>1, <1>2, <1>3, <1>4 DEF SequentialWeight, start
<1>5. CASE high >= start + Slice
  BY <1>1, <1>2, <1>3, <1>5 DEF SequentialWeight, start
<1>6. CASE low > start /\ high < start + Slice
  <2>1. low - start \in Nat /\ high - start \in Nat /\ low - start <= high - start
    BY <1>1, <1>2, <1>6
  <2>2. /\ (low - start) * Full \in Nat /\ (high - start) * Full \in Nat
        /\ (low - start) * Full <= (high - start) * Full
    BY <1>2, <2>1, Products
  <2>3. ((low - start) * Full) \div Slice <= ((high - start) * Full) \div Slice
    BY <1>2, <2>2, Quotients
  <2>4. SequentialWeight(low, i) = ((low - start) * Full) \div Slice
    BY <1>1, <1>2, <1>6 DEF SequentialWeight, start
  <2>5. SequentialWeight(high, i) = ((high - start) * Full) \div Slice
    BY <1>1, <1>2, <1>6 DEF SequentialWeight, start
  <2> QED BY <2>3, <2>4, <2>5
<1> QED BY <1>1, <1>2, <1>4, <1>5, <1>6

(* The modes that weigh an emitter whatever the level is.                  *)
LEMMA ConstantWeights ==
    ASSUME NEW mode \in ModeSet, mode \notin {"AUTO_TINT", "SEQUENTIAL"},
           NEW t \in Nat, NEW u \in Nat, NEW i \in Emitters
    PROVE  Weight(mode, t, i) \in 0..Full /\ Weight(mode, u, i) = Weight(mode, t, i)
<1>1. Full \in Nat
  BY Slices
<1>2. \A k : OnlyEmitter(i, k) \in 0..Full
  BY <1>1 DEF OnlyEmitter
<1>3. mode \in {"SINGLE", "50_50", "COLD", "WARM"}
  BY DEF ModeSet, ChannelModes
<1>4. CASE mode \in {"SINGLE", "COLD"}
  BY <1>2, <1>4 DEF Weight
<1>5. CASE mode = "50_50"
  BY <1>1, <1>5 DEF Weight
<1>6. CASE mode = "WARM"
  BY <1>2, <1>6 DEF Weight
<1> QED BY <1>3, <1>4, <1>5, <1>6

(* Every weight is one, of a level within the range.                       *)
LEMMA WeightRange ==
    ASSUME NEW mode \in ModeSet, NEW t \in 0..Full, NEW i \in Emitters
    PROVE  Weight(mode, t, i) \in 0..Full
<1>1. Full \in Nat /\ NumEmitters \in Nat \ {0} /\ i \in Nat
  BY EmittersAssumption DEF Emitters
<1>2. CASE mode = "SEQUENTIAL"
  <2>1. Weight(mode, t, i) = SequentialWeight(t, i)
    BY <1>2 DEF Weight
  <2> QED BY <1>1, <2>1, SequentialRange
<1>3. CASE mode = "AUTO_TINT"
  <2>1. CASE NumEmitters = 1
    BY <1>1, <1>3, <2>1 DEF Weight
  <2>2. CASE NumEmitters > 1 /\ i = 0
    BY <1>1, <1>3, <2>2 DEF Weight
  <2>3. CASE NumEmitters > 1 /\ i = 1
    BY <1>1, <1>3, <2>3 DEF Weight
  <2>4. CASE NumEmitters > 1 /\ i > 1
    BY <1>1, <1>3, <2>4 DEF Weight
  <2> QED BY <1>1, <2>1, <2>2, <2>3, <2>4
<1>4. CASE mode \notin {"AUTO_TINT", "SEQUENTIAL"}
  BY <1>1, <1>4, ConstantWeights
<1> QED BY <1>2, <1>3, <1>4

(* What an emitter is given: a part of the level, or a tint.               *)
LEMMA LevelRange ==
    ASSUME NEW mode \in ModeSet, NEW t \in 0..Full, NEW i \in Emitters
    PROVE  /\ EmitterLevel(mode, t, i) \in 0..Full
           /\ mode # "AUTO_TINT" => EmitterLevel(mode, t, i) <= t
<1>1. Full \in Nat \ {0} /\ t \in Nat
  BY Slices
<1>2. Weight(mode, t, i) \in 0..Full
  BY WeightRange
<1>3. CASE mode = "AUTO_TINT" /\ NumEmitters > 1
  BY <1>2, <1>3 DEF EmitterLevel
<1>4. CASE ~(mode = "AUTO_TINT" /\ NumEmitters > 1)
  <2>1. (t * Weight(mode, t, i)) \div Full \in 0..t
    BY <1>1, <1>2, Parts
  <2>2. EmitterLevel(mode, t, i) = (t * Weight(mode, t, i)) \div Full
    BY <1>4 DEF EmitterLevel
  <2> QED BY <1>1, <2>1, <2>2
<1> QED BY <1>3, <1>4

(* Without a tint it grows with the level.                                 *)
LEMMA LevelGrows ==
    ASSUME NEW mode \in ModeSet, mode # "AUTO_TINT", NEW i \in Emitters,
           NEW low \in 0..Full, NEW high \in low..Full
    PROVE  EmitterLevel(mode, low, i) <= EmitterLevel(mode, high, i)
<1>1. Full \in Nat \ {0} /\ low \in Nat /\ high \in 0..Full /\ high \in Nat /\ low <= high
  BY Slices
<1>2. Weight(mode, low, i) \in Nat /\ Weight(mode, high, i) \in Nat
  BY <1>1, WeightRange
<1>3. Weight(mode, low, i) <= Weight(mode, high, i)
  <2>1. CASE mode = "SEQUENTIAL"
    <3>1. /\ Weight(mode, low, i) = SequentialWeight(low, i)
          /\ Weight(mode, high, i) = SequentialWeight(high, i)
      BY <2>1 DEF Weight
    <3>2. i \in Nat
      BY EmittersAssumption DEF Emitters
    <3> QED BY <1>1, <3>1, <3>2, SequentialGrows
  <2>2. CASE mode # "SEQUENTIAL"
    <3>1. Weight(mode, high, i) = Weight(mode, low, i)
      BY <1>1, <2>2, ConstantWeights
    <3> QED BY <1>2, <3>1
  <2> QED BY <2>1, <2>2
<1>4. /\ low * Weight(mode, low, i) \in Nat /\ high * Weight(mode, high, i) \in Nat
      /\ low * Weight(mode, low, i) <= high * Weight(mode, high, i)
  BY <1>1, <1>2, <1>3, Products
<1>5. (low * Weight(mode, low, i)) \div Full <= (high * Weight(mode, high, i)) \div Full
  BY <1>1, <1>4, Quotients
<1> QED BY <1>5 DEF EmitterLevel

(* The throttle takes away, and never adds.                                *)
LEMMA ThrottledRange ==
    ASSUME NEW level \in 0..Full, NEW factor \in 0..Full
    PROVE  thermal_apply_throttle(level, factor) \in 0..Full
<1>1. Full \in Nat \ {0}
  BY Slices
<1>2. (level * factor) \div Full \in 0..level
  BY <1>1, Parts
<1> QED BY <1>1, <1>2 DEF thermal_apply_throttle

(* A mix gives every emitter a level.                                      *)
LEMMA MixType ==
    ASSUME NEW mode \in ModeSet, NEW level \in 0..Full, NEW factor \in 0..Full
    PROVE  Mix(mode, thermal_apply_throttle(level, factor)) \in [Emitters -> 0..Full]
BY ThrottledRange, LevelRange DEF Mix

(* The cycle of the modes ends in a mode.                                  *)
LEMMA CycledMode ==
    ASSUME NEW mode \in ModeSet
    PROVE  channel_cycle_mode(mode) \in ModeSet
<1>1. PICK k \in 1..6 : ChannelModes[k] = mode
  BY DEF ModeSet
<1>2. ModeIndex(mode) \in 1..6
  BY <1>1 DEF ModeIndex
<1>3. (ModeIndex(mode) % 6) + 1 \in 1..6
  BY <1>2
<1> QED BY <1>3 DEF channel_cycle_mode, ModeSet

-----------------------------------------------------------------------------
(* The inductive invariant: what the worker has still to run only has      *)
(* levels of the range.                                                    *)
Statement ==
    [op : {"mix", "brightness"}, level : 0..Full]
        \cup [op : {"write"}, emitter : Emitters, level : 0..Full]
        \cup [op : {"thermal", "ramp"}, state : {"off", "on"}]

IInv == TypeOK /\ todo \in Seq(Statement)

(* What the statements of a call are.                                      *)
LEMMA Statements ==
    /\ \A level \in 0..Full : ApplyMix(level) \in Statement /\ SetBrightness(level) \in Statement
    /\ \A state \in {"off", "on"} : Thermal(state) \in Statement /\ Ramp(state) \in Statement
    /\ \A i \in Emitters, level \in 0..Full : Write(i, level) \in Statement
BY DEF Statement, ApplyMix, SetBrightness, Thermal, Ramp, Write

(* A call is given statements, and changes nothing yet.                    *)
LEMMA CallsStep ==
    ASSUME IInv, NEW statements \in Seq(Statement), Calls(statements)
    PROVE  IInv'
BY DEF IInv, TypeOK, Calls, ledVars

(* The user.                                                               *)
LEMMA InputStep == ASSUME IInv, Input PROVE IInv'
<1>1. /\ Floor \in 0..Full /\ Ceiling \in 0..Full /\ 0 \in 0..Full /\ Full \in 0..Full
      /\ \A level \in OnLevels : level \in 0..Full
  BY Slices, OutputsAssumption
<1>2. CASE action_on
  <2>1. PICK level \in OnLevels :
            Calls(<<Thermal("on"), Ramp("off"), SetBrightness(level), ApplyMix(level)>>)
    BY <1>2 DEF action_on
  <2>2. <<Thermal("on"), Ramp("off"), SetBrightness(level), ApplyMix(level)>> \in Seq(Statement)
    BY <1>1, Statements
  <2> QED BY <2>1, <2>2, CallsStep
<1>3. CASE action_turbo
  <2>1. <<Ramp("off"), SetBrightness(Ceiling), ApplyMix(Ceiling)>> \in Seq(Statement)
    BY <1>1, Statements
  <2> QED BY <1>3, <2>1, CallsStep DEF action_turbo
<1>4. CASE action_off
  <2>1. <<Ramp("off"), ApplyMix(0), Thermal("off")>> \in Seq(Statement)
    BY <1>1, Statements
  <2> QED BY <1>4, <2>1, CallsStep DEF action_off
<1>5. CASE action_lockout
  <2>1. <<Ramp("off"), ApplyMix(0)>> \in Seq(Statement)
    BY <1>1, Statements
  <2> QED BY <1>5, <2>1, CallsStep DEF action_lockout
<1>6. CASE action_moon
  <2>1. <<SetBrightness(Floor), ApplyMix(Floor)>> \in Seq(Statement)
    BY <1>1, Statements
  <2> QED BY <1>6, <2>1, CallsStep DEF action_moon
<1>7. CASE hold_from_off
  <2>1. <<SetBrightness(Floor), ApplyMix(Floor), Ramp("on")>> \in Seq(Statement)
    BY <1>1, Statements
  <2> QED BY <1>7, <2>1, CallsStep DEF hold_from_off
<1>8. CASE start_ramping
  <2>1. <<Ramp("on")>> \in Seq(Statement)
    BY Statements
  <2> QED BY <1>8, <2>1, CallsStep DEF start_ramping
<1>9. CASE action_aux_config
  <2>1. <<ApplyMix(Full), ApplyMix(current_brightness)>> \in Seq(Statement)
    BY <1>1, Statements DEF IInv, TypeOK
  <2> QED BY <1>9, <2>1, CallsStep DEF action_aux_config
<1>10. CASE action_channel_cycle
  BY <1>10, CycledMode DEF action_channel_cycle, IInv, TypeOK
<1> QED BY <1>2, <1>3, <1>4, <1>5, <1>6, <1>7, <1>8, <1>9, <1>10 DEF Input

(* A factor is a part of Full.                                             *)
LEMMA FactorRange == ASSUME TypeOK PROVE throttle_factor \in 0..Full
BY Slices, OutputsAssumption DEF TypeOK

(* The head of what is to be run is a statement of its kind.               *)
LEMMA HeadType ==
    ASSUME IInv, todo # <<>>
    PROVE  /\ Tail(todo) \in Seq(Statement)
           /\ Head(todo).op \in {"mix", "brightness"} => Head(todo).level \in 0..Full
           /\ Head(todo).op = "write" => Head(todo).emitter \in Emitters /\ Head(todo).level \in 0..Full
           /\ Head(todo).op \in {"thermal", "ramp"} => Head(todo).state \in {"off", "on"}
<1>1. todo \in Seq(Statement) /\ Head(todo) \in Statement /\ Tail(todo) \in Seq(Statement)
  BY DEF IInv
<1> QED BY <1>1 DEF Statement

(* The worker.                                                             *)
LEMMA WorkerStep == ASSUME IInv, Worker PROVE IInv'
<1>1. CASE channel_apply_mix
  <2> DEFINE mix == Mixed(Head(todo).level)
             writes == [k \in 1..NumEmitters |-> Write(k - 1, mix[k - 1])]
  <2>1. todo # <<>> /\ Head(todo).op = "mix" /\ todo' = writes \o Tail(todo) /\ UNCHANGED ledVars
    BY <1>1 DEF channel_apply_mix
  <2>2. Head(todo).level \in 0..Full /\ Tail(todo) \in Seq(Statement)
    BY <2>1, HeadType
  <2>3. mix \in [Emitters -> 0..Full]
    BY <2>2, FactorRange, MixType DEF Mixed, IInv, TypeOK
  <2> HIDE DEF mix
  <2>4. \A k \in 1..NumEmitters : Write(k - 1, mix[k - 1]) \in Statement
    <3>1. \A k \in 1..NumEmitters : k - 1 \in Emitters
      BY EmittersAssumption DEF Emitters
    <3> QED BY <2>3, <3>1, Statements
  <2>5. writes \in Seq(Statement)
    <3>1. NumEmitters \in Nat
      BY EmittersAssumption
    <3>2. writes \in [1..NumEmitters -> Statement]
      BY <2>4
    <3> HIDE DEF writes
    <3> QED BY <3>1, <3>2
  <2> HIDE DEF writes
  <2>6. todo' \in Seq(Statement)
    BY <2>1, <2>2, <2>5
  <2> QED BY <2>1, <2>6 DEF IInv, TypeOK, ledVars
<1>2. CASE pwm_set_pulse_dt
  <2>1. todo # <<>> /\ Head(todo).op = "write"
    BY <1>2 DEF pwm_set_pulse_dt
  <2>2. /\ Head(todo).emitter \in Emitters /\ Head(todo).level \in 0..Full
        /\ Tail(todo) \in Seq(Statement)
    BY <2>1, HeadType
  <2>3. emitters' \in [Emitters -> 0..Full]
    BY <1>2, <2>2 DEF pwm_set_pulse_dt, IInv, TypeOK
  <2> QED BY <1>2, <2>2, <2>3 DEF pwm_set_pulse_dt, IInv, TypeOK
<1>3. CASE Assigns
  <2>1. todo # <<>> /\ Tail(todo) \in Seq(Statement) /\ todo' = Tail(todo)
    BY <1>3, HeadType DEF Assigns
  <2>2. current_brightness' \in 0..Full /\ {thermal_timer, ramp_timer}' \subseteq {"off", "on"}
    BY <1>3, <2>1, HeadType DEF Assigns, IInv, TypeOK
  <2> QED BY <1>3, <2>1, <2>2 DEF Assigns, IInv, TypeOK
<1> QED BY <1>1, <1>2, <1>3 DEF Worker

(* The regulation writes one mix, with the factor it has just set.         *)
LEMMA ThermalStep ==
    ASSUME IInv, thermal_timer_handler
    PROVE  /\ emitters' = Mix(channel_mode, thermal_apply_throttle(current_brightness, throttle_factor'))
           /\ IInv'
<1>1. throttle_factor' \in 0..Full
  BY Slices, OutputsAssumption DEF thermal_timer_handler
<1>2. emitters' = Mix(channel_mode, thermal_apply_throttle(current_brightness, throttle_factor'))
  BY DEF thermal_timer_handler, TickEmitters
<1>3. emitters' \in [Emitters -> 0..Full]
  BY <1>1, <1>2, MixType DEF IInv, TypeOK
<1> QED BY <1>2, <1>3 DEF thermal_timer_handler, IInv, TypeOK

(* So does the ramp, with the level it has just set.                       *)
LEMMA RampStep ==
    ASSUME IInv, ramp_timer_handler
    PROVE  /\ emitters' = Mix(channel_mode, thermal_apply_throttle(current_brightness', throttle_factor))
           /\ IInv'
<1>1. current_brightness' \in 0..Full
  BY Slices, OutputsAssumption DEF ramp_timer_handler
<1>2. emitters' = Mix(channel_mode, thermal_apply_throttle(current_brightness', throttle_factor))
  BY DEF ramp_timer_handler, TickEmitters, Mixed
<1>3. emitters' \in [Emitters -> 0..Full]
  BY <1>1, <1>2, FactorRange, MixType DEF IInv, TypeOK
<1> QED BY <1>1, <1>2, <1>3 DEF ramp_timer_handler, IInv, TypeOK

(* What the outputs are given stays in the range, for every number of      *)
(* emitters, in every mode, whatever is being written when a timer ticks.  *)
THEOREM Invariance == Spec => []IInv
<1>1. Init => IInv
  <2> SUFFICES ASSUME Init PROVE IInv
    OBVIOUS
  <2>1. channel_mode \in ModeSet
    <3>1. ChannelModes[1] = "SINGLE" /\ ChannelModes[2] = "50_50"
      BY DEF ChannelModes
    <3> QED BY <3>1 DEF Init, channel_init, ModeSet
  <2>2. 0 \in 0..Full /\ Full \in Nat
    BY Slices
  <2> QED BY <2>1, <2>2 DEF Init, IInv, TypeOK
<1>2. IInv /\ [Next]_vars => IInv'
  <2> SUFFICES ASSUME IInv, [Next]_vars PROVE IInv'
    OBVIOUS
  <2>1. CASE Input \/ Worker \/ thermal_timer_handler \/ ramp_timer_handler
    BY <2>1, InputStep, WorkerStep, ThermalStep, RampStep
  <2>2. CASE UNCHANGED vars
    BY <2>2 DEF vars, ledVars, IInv, TypeOK
  <2> QED BY <2>1, <2>2 DEF Next, Input, Worker
<1> QED BY <1>1, <1>2, PTL DEF Spec

(* In the sequential mode an emitter waits for the one before it, however  *)
(* many there are and however the range divides among them.                *)
THEOREM SequentialCorrect == Spec => []SequentialInOrder
<1>1. SequentialInOrder
  <2> SUFFICES ASSUME channel_mode = "SEQUENTIAL", NEW level \in 0..Full, NEW i \in Emitters \ {0},
                      Weight(channel_mode, level, i) > 0
               PROVE  Weight(channel_mode, level, i - 1) = Full
    BY DEF SequentialInOrder
  <2>1. Full \in Nat \ {0} /\ level \in Nat /\ i \in Nat /\ i - 1 \in Nat /\ Slice \in Nat \ {0}
    BY Slices, EmittersAssumption DEF Emitters
  <2>2. SequentialWeight(level, i) > 0
    BY DEF Weight
  <2>3. level > i * Slice
    <3>1. CASE level <= i * Slice
      BY <2>2, <3>1 DEF SequentialWeight
    <3> QED BY <2>1, <3>1, Starts
  <2>4. i * Slice = (i - 1) * Slice + Slice /\ (i - 1) * Slice \in Nat /\ (i - 1) + 1 = i
    BY <2>1, Starts
  <2>5. SequentialWeight(level, i - 1) = Full
    BY <2>1, <2>3, <2>4 DEF SequentialWeight
  <2> QED BY <2>5 DEF Weight
<1> QED BY <1>1, PTL

(* In every mode but AUTO_TINT, asking for more never dims an emitter, and *)
(* no emitter exceeds what was asked.                                      *)
THEOREM BrighterCorrect == Spec => []BrighterIsBrighter
<1>1. IInv => BrighterIsBrighter
  <2> SUFFICES ASSUME IInv, channel_mode # "AUTO_TINT", NEW low \in 0..Full, NEW i \in Emitters
               PROVE  /\ EmitterLevel(channel_mode, low, i) <= low
                      /\ \A high \in low..Full :
                            EmitterLevel(channel_mode, low, i) <= EmitterLevel(channel_mode, high, i)
    BY DEF BrighterIsBrighter
  <2>1. channel_mode \in ModeSet
    BY DEF IInv, TypeOK
  <2> QED BY <2>1, LevelRange, LevelGrows
<1> QED BY <1>1, Invariance, PTL
=============================================================================
