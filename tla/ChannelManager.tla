--------------------------- MODULE ChannelManager ---------------------------
(***************************************************************************)
(* src/channel_manager.c: how one level is divided among the emitters.     *)
(* The pulse widths are proportional to the levels and left out.           *)
(*                                                                         *)
(* An operator whose name ends in a remark is a plausible fault of the     *)
(* operator it precedes; no specification uses it.                         *)
(***************************************************************************)
EXTENDS Integers

CONSTANTS
    NumEmitters,       \* NUM_EMITTERS, from the device tree
    Full               \* 255: the largest level, weight and factor

ASSUME EmittersAssumption == NumEmitters \in Nat \ {0} /\ Full \in Nat /\ NumEmitters <= Full

Emitters     == 0..(NumEmitters - 1)
ChannelModes == <<"SINGLE", "50_50", "COLD", "WARM", "AUTO_TINT", "SEQUENTIAL">>
ModeSet      == {ChannelModes[k] : k \in 1..6}

channel_init == IF NumEmitters > 1 THEN "50_50" ELSE "SINGLE"

(* The factor of the thermal manager, applied to a level that is asked for. *)
thermal_apply_throttle(level, factor) == (level * factor) \div Full

(* The slice of the range in which emitter i goes from 0 to full.          *)
Slice == Full \div NumEmitters

SequentialWeight_LastFirst(throttled, i) ==
    LET start == (NumEmitters - 1 - i) * Slice
    IN  IF throttled <= start THEN 0
        ELSE IF throttled >= start + Slice THEN Full
        ELSE ((throttled - start) * Full) \div Slice

SequentialWeight_Reversed(throttled, i) ==
    IF throttled <= i * Slice THEN Full ELSE 0

SequentialWeight(throttled, i) ==
    IF throttled <= i * Slice THEN 0
    ELSE IF throttled >= (i + 1) * Slice THEN Full
    ELSE ((throttled - i * Slice) * Full) \div Slice

OnlyEmitter(i, k) == IF i = k THEN Full ELSE 0

Weight(mode, throttled, i) ==
    CASE mode \in {"SINGLE", "COLD"}               -> OnlyEmitter(i, 0)
      [] mode = "50_50"                            -> Full
      [] mode = "WARM"                             -> OnlyEmitter(i, IF NumEmitters > 1 THEN 1 ELSE 0)
      [] mode = "AUTO_TINT" /\ NumEmitters = 1     -> Full
      [] mode = "AUTO_TINT" /\ NumEmitters > 1 /\ i = 0 -> throttled
      [] mode = "AUTO_TINT" /\ NumEmitters > 1 /\ i = 1 -> Full - throttled
      [] mode = "AUTO_TINT" /\ NumEmitters > 1 /\ i > 1 -> 0
      [] mode = "SEQUENTIAL"                       -> SequentialWeight(throttled, i)

(* The tint's weights are levels already.                                  *)
EmitterLevel(mode, throttled, i) ==
    IF mode = "AUTO_TINT" /\ NumEmitters > 1
    THEN Weight(mode, throttled, i)
    ELSE (throttled * Weight(mode, throttled, i)) \div Full

Mix(mode, throttled) == [i \in Emitters |-> EmitterLevel(mode, throttled, i)]

ModeIndex(mode) == CHOOSE k \in 1..6 : ChannelModes[k] = mode

channel_cycle_mode(mode) ==
    IF NumEmitters = 1 THEN mode ELSE ChannelModes[(ModeIndex(mode) % 6) + 1]
=============================================================================
