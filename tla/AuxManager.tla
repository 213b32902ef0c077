----------------------------- MODULE AuxManager -----------------------------
(***************************************************************************)
(* lib/aux_manager.c: the second LED.  The interrupt of aux_timer submits  *)
(* a work item every ten milliseconds; the system work queue runs it and   *)
(* sets the LED from the mode and from the ticks it has counted.  An item  *)
(* that is still pending is not submitted twice.                           *)
(*                                                                         *)
(* An operator whose name ends in a remark is a plausible fault of the     *)
(* operator it precedes; no specification uses it.                         *)
(***************************************************************************)
EXTENDS Integers

CONSTANTS
    TickMod,           \* 2^32: ticks is a uint32_t
    BlinkTicks, BlinkOn,  \* 300 and 10: a blink of 100 ms in three seconds
    SineTicks,         \* 3: ticks for one entry of the sine table
    SineSize           \* 256: sine_index is a uint8_t

ASSUME AuxAssumption ==
    /\ {TickMod, BlinkTicks, BlinkOn, SineTicks, SineSize} \subseteq Nat \ {0}
    /\ BlinkOn < BlinkTicks /\ BlinkTicks <= TickMod

VARIABLES
    aux_mode,          \* current_mode
    aux_pending,       \* aux_work is in the work queue
    ticks, sine_index,
    aux_led            \* what the PWM shows

vars == <<aux_mode, aux_pending, ticks, sine_index, aux_led>>

AuxLeds  == {<<"dark">>, <<"low">>, <<"full">>} \cup ({"sine"} \X (0..(SineSize - 1)))
AuxModes == <<"OFF", "LOW", "HIGH", "BLINK", "SINE">>

NextAuxMode(mode) == AuxModes[((CHOOSE k \in 1..5 : AuxModes[k] = mode) % 5) + 1]

Init ==
    /\ aux_mode = "OFF" /\ aux_pending = FALSE
    /\ ticks = 0 /\ sine_index = 0 /\ aux_led = <<"dark">>

BlinkLed_WholeCycle(tick) == IF tick % BlinkTicks < BlinkTicks THEN <<"full">> ELSE <<"dark">>

BlinkLed(tick) == IF tick % BlinkTicks < BlinkOn THEN <<"full">> ELSE <<"dark">>

NextSine_NoWrap(tick, index) ==
    IF tick % SineTicks = 0 /\ index < SineSize - 1 THEN index + 1 ELSE index

NextSine(tick, index) == IF tick % SineTicks = 0 THEN (index + 1) % SineSize ELSE index

(* k_work_submit of an item that is pending does nothing.                  *)
aux_timer_handler ==
    /\ aux_pending' = TRUE
    /\ UNCHANGED <<aux_mode, ticks, sine_index, aux_led>>

Led_Stale(mode, tick, index) ==
    CASE mode \in {"LOW", "HIGH", "OFF"} -> aux_led
      [] mode = "BLINK" -> BlinkLed(tick)
      [] mode = "SINE"  -> <<"sine", index>>

Led(mode, tick, index) ==
    CASE mode = "OFF"   -> <<"dark">>
      [] mode = "LOW"   -> <<"low">>
      [] mode = "HIGH"  -> <<"full">>
      [] mode = "BLINK" -> BlinkLed(tick)
      [] mode = "SINE"  -> <<"sine", index>>

aux_work_handler ==
    /\ aux_pending
    /\ aux_pending' = FALSE
    /\ ticks' = (ticks + 1) % TickMod
    /\ sine_index' = IF aux_mode = "SINE" THEN NextSine(ticks', sine_index) ELSE sine_index
    /\ aux_led' = Led(aux_mode, ticks', sine_index')
    /\ UNCHANGED aux_mode

aux_cycle_mode ==
    /\ aux_mode' = NextAuxMode(aux_mode)
    /\ UNCHANGED <<aux_pending, ticks, sine_index, aux_led>>

Next == aux_timer_handler \/ aux_work_handler \/ aux_cycle_mode

Spec == Init /\ [][Next]_vars

(* The timer is never stopped and the work queue has the highest priority. *)
FairSpec == Spec /\ WF_vars(aux_timer_handler) /\ WF_vars(aux_work_handler)

-----------------------------------------------------------------------------
(* Properties.                                                             *)

(* A steady mode that the user leaves set is shown, although the worker    *)
(* changes the mode without touching the LED and the work item may be      *)
(* pending or not.                                                         *)
ShowsItsMode ==
    /\ <>[](aux_mode = "OFF")  => <>[](aux_led = <<"dark">>)
    /\ <>[](aux_mode = "LOW")  => <>[](aux_led = <<"low">>)
    /\ <>[](aux_mode = "HIGH") => <>[](aux_led = <<"full">>)

(* The blink goes on and off for ever, past the wrap of the tick counter,  *)
(* which is no multiple of its period.                                     *)
Blinks ==
    <>[](aux_mode = "BLINK") => []<>(aux_led = <<"full">>) /\ []<>(aux_led = <<"dark">>)

(* The sine mode breathes through its whole table and starts again.        *)
Breathes ==
    <>[](aux_mode = "SINE") =>
        \A k \in 0..(SineSize - 1) : []<>(aux_led = <<"sine", k>>)
=============================================================================
