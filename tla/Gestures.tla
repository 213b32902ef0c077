------------------------------ MODULE Gestures ------------------------------
(***************************************************************************)
(* What the input engine promises to the rest of the light                 *)
(* (include/multi_tap_input.h, include/zbeam_msg.h): the presses of the    *)
(* button are grouped into gestures, every press is counted in exactly one *)
(* of them, and a gesture is either                                        *)
(*     TAP(n)                              n presses, all released, or     *)
(*     HOLD_START(n) ; HOLD_RELEASE(n)     n presses, the last one held.   *)
(* Nothing is said of timers, threads or interrupts: MultiTapInput is the  *)
(* code that keeps this promise.                                           *)
(***************************************************************************)
EXTENDS Integers, Sequences

CONSTANT CountMod   \* the count field of struct zbeam_msg wraps here (uint8_t: 256)

VARIABLES
    pending,   \* presses made and not yet part of a gesture that was reported
    held,      \* presses of the hold that is going on, 0 when there is none
    posted     \* the messages reported so far, oldest first

gvars == <<pending, held, posted>>

TAP(n)          == [type |-> "TAP",          count |-> n % CountMod]
HOLD_START(n)   == [type |-> "HOLD_START",   count |-> n % CountMod]
HOLD_RELEASE(n) == [type |-> "HOLD_RELEASE", count |-> n % CountMod]

Init == pending = 0 /\ held = 0 /\ posted = <<>>

(* The button goes down: one more press to report.                         *)
Press ==
    /\ held = 0
    /\ pending' = pending + 1
    /\ UNCHANGED <<held, posted>>

(* A run of clicks is over.  A press that arrives at the very moment the   *)
(* run is reported is either in it or the first of the next gesture.       *)
ReportTap ==
    \E n \in {pending, pending - 1} :
        /\ held = 0
        /\ pending > 0 /\ n > 0
        /\ posted' = Append(posted, TAP(n))
        /\ pending' = pending - n
        /\ UNCHANGED held

(* The last press has lasted long enough: the gesture is a hold.           *)
StartHold ==
    /\ held = 0 /\ pending > 0
    /\ posted' = Append(posted, HOLD_START(pending))
    /\ held' = pending
    /\ pending' = 0

EndHold ==
    /\ held > 0
    /\ posted' = Append(posted, HOLD_RELEASE(held))
    /\ held' = 0
    /\ UNCHANGED pending

(* A test case starts over.                                                *)
Restart == pending' = 0 /\ held' = 0 /\ posted' = <<>>

Next == Press \/ ReportTap \/ StartHold \/ EndHold \/ Restart

Spec == Init /\ [][Next]_gvars
=============================================================================
