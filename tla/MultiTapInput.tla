--------------------------- MODULE MultiTapInput ---------------------------
(***************************************************************************)
(* lib/multi_tap_input.c: the engine that turns key events into gestures.  *)
(*                                                                         *)
(* Two contexts share its static variables without a lock.                 *)
(*   - The input thread runs process_key_event() for every key event.  It  *)
(*     can be interrupted between any two statements: pc is the statement  *)
(*     it has reached, and every operator of that part of the module is    *)
(*     one access to a kernel timer or to the state the timers' handlers   *)
(*     read.                                                               *)
(*   - click_timer and hold_timer expire in the timer interrupt.  A        *)
(*     handler runs to its end before the thread goes on, so it is one     *)
(*     action.  A timer that is armed may expire at any moment; one that   *)
(*     was stopped does not (k_timer_stop on the same core).               *)
(* The key events are arbitrary: the input subsystem may lose one, so two  *)
(* presses or two releases in a row reach the code, which tests for them.  *)
(*                                                                         *)
(* An operator whose name ends in a remark (post_event_NoWrap) is a        *)
(* plausible fault of the operator after it; no specification uses it.     *)
(***************************************************************************)
EXTENDS Integers, Sequences

CONSTANTS
    CountMod,      \* modulus of the message's uint8_t count: 256 in the code
    MaxClicks,     \* bound of the model: presses in one gesture
    MaxPosted      \* bound of the model: length of the history of messages

ASSUME CountModAssumption == CountMod \in Nat \ {0}
ASSUME BoundsAssumption   == MaxClicks \in Nat \ {0} /\ MaxPosted \in Nat

VARIABLES
    current_state, click_count, is_holding,   \* the static variables of the file
    click_timer, hold_timer,                  \* TRUE: the k_timer is running
    pc,                                       \* where the input thread is
    posted                                    \* every call of fsm_worker_post_msg

vars == <<current_state, click_count, is_holding, click_timer, hold_timer, pc, posted>>

multi_tap_state == {"IDLE", "PRESSED", "WAIT_TIMEOUT"}

Locations == {"ready",                                     \* waiting for a key event
              "down_idle", "down_wait", "down_count", "down_arm",
              "up_stop", "up_test", "up_reset", "up_arm"}

EventTypes == {"TAP", "HOLD_START", "HOLD_RELEASE"}

(* struct zbeam_msg, without the fields that input events leave alone.     *)
zbeam_msg == [type : EventTypes, count : 0..CountMod - 1]

Message(type, count) == [type |-> type, count |-> count % CountMod]

(* post_event: the click counter is an int, the count parameter a uint8_t. *)
post_event_NoWrap(type, count) ==
    posted' = Append(posted, [type |-> type, count |-> count])

post_event(type, count) == posted' = Append(posted, Message(type, count))

Init ==
    /\ current_state = "IDLE" /\ click_count = 0 /\ is_holding = FALSE
    /\ click_timer = FALSE /\ hold_timer = FALSE
    /\ pc = "ready"
    /\ posted = <<>>

-----------------------------------------------------------------------------
(* The timer interrupt.                                                    *)

click_timer_handler_ResetFirst ==
    /\ click_timer /\ click_timer' = FALSE
    /\ IF current_state = "WAIT_TIMEOUT"
       THEN /\ post_event("TAP", 0)
            /\ click_count' = 0 /\ is_holding' = FALSE /\ current_state' = "IDLE"
       ELSE UNCHANGED <<posted, click_count, is_holding, current_state>>
    /\ UNCHANGED <<hold_timer, pc>>

click_timer_handler ==
    /\ click_timer
    /\ click_timer' = FALSE
    /\ IF current_state = "WAIT_TIMEOUT"
       THEN /\ post_event("TAP", click_count)
            /\ click_count' = 0 /\ is_holding' = FALSE /\ current_state' = "IDLE"
       ELSE UNCHANGED <<posted, click_count, is_holding, current_state>>
    /\ UNCHANGED <<hold_timer, pc>>

hold_timer_handler ==
    /\ hold_timer
    /\ hold_timer' = FALSE
    /\ IF current_state = "PRESSED"
       THEN is_holding' = TRUE /\ post_event("HOLD_START", click_count)
       ELSE UNCHANGED <<is_holding, posted>>
    /\ UNCHANGED <<current_state, click_count, click_timer, pc>>

-----------------------------------------------------------------------------
(* process_key_event(1) in the input thread.                               *)

(* The switch reads current_state once; a press while PRESSED is ignored.  *)
KeyDown ==
    /\ pc = "ready"
    /\ click_count < MaxClicks /\ Len(posted) < MaxPosted
    /\ \/ current_state = "IDLE"         /\ pc' = "down_idle"
       \/ current_state = "WAIT_TIMEOUT" /\ pc' = "down_wait"
    /\ UNCHANGED <<current_state, click_count, is_holding, click_timer, hold_timer, posted>>

DownStopClickTimer ==
    /\ pc = "down_wait"
    /\ click_timer' = FALSE
    /\ pc' = "down_count"
    /\ UNCHANGED <<current_state, click_count, is_holding, hold_timer, posted>>

DownCount ==
    /\ \/ pc = "down_idle"  /\ click_count' = 1
       \/ pc = "down_count" /\ click_count' = click_count + 1
    /\ current_state' = "PRESSED"
    /\ pc' = "down_arm"
    /\ UNCHANGED <<is_holding, click_timer, hold_timer, posted>>

DownStartHoldTimer ==
    /\ pc = "down_arm"
    /\ hold_timer' = TRUE
    /\ pc' = "ready"
    /\ UNCHANGED <<current_state, click_count, is_holding, click_timer, posted>>

-----------------------------------------------------------------------------
(* process_key_event(0) in the input thread.                               *)

(* A release in any other state is ignored.                                *)
KeyUp ==
    /\ pc = "ready"
    /\ current_state = "PRESSED"
    /\ pc' = "up_stop"
    /\ UNCHANGED <<current_state, click_count, is_holding, click_timer, hold_timer, posted>>

UpStopHoldTimer_NoStop ==
    pc = "up_stop" /\ pc' = "up_test"
    /\ UNCHANGED <<current_state, click_count, is_holding, click_timer, hold_timer, posted>>

UpStopHoldTimer ==
    /\ pc = "up_stop"
    /\ hold_timer' = FALSE
    /\ pc' = "up_test"
    /\ UNCHANGED <<current_state, click_count, is_holding, click_timer, posted>>

UpTestHolding ==
    /\ pc = "up_test"
    /\ IF is_holding
       THEN /\ post_event("HOLD_RELEASE", click_count)
            /\ pc' = "up_reset"
            /\ UNCHANGED current_state
       ELSE /\ current_state' = "WAIT_TIMEOUT"
            /\ pc' = "up_arm"
            /\ UNCHANGED posted
    /\ UNCHANGED <<click_count, is_holding, click_timer, hold_timer>>

UpReset_KeepsHolding ==
    /\ pc = "up_reset"
    /\ click_count' = 0 /\ current_state' = "IDLE"
    /\ pc' = "ready"
    /\ UNCHANGED <<is_holding, click_timer, hold_timer, posted>>

UpReset ==
    /\ pc = "up_reset"
    /\ click_count' = 0 /\ is_holding' = FALSE /\ current_state' = "IDLE"
    /\ pc' = "ready"
    /\ UNCHANGED <<click_timer, hold_timer, posted>>

UpStartClickTimer_Forgotten ==
    pc = "up_arm" /\ pc' = "ready"
    /\ UNCHANGED <<current_state, click_count, is_holding, click_timer, hold_timer, posted>>

UpStartClickTimer ==
    /\ pc = "up_arm"
    /\ click_timer' = TRUE
    /\ pc' = "ready"
    /\ UNCHANGED <<current_state, click_count, is_holding, hold_timer, posted>>

-----------------------------------------------------------------------------
(* multi_tap_input_reset: the tests call it between two cases, when the    *)
(* input thread is idle, and purge the queue with it.                      *)
multi_tap_input_reset ==
    /\ pc = "ready"
    /\ click_timer' = FALSE /\ hold_timer' = FALSE
    /\ click_count' = 0 /\ current_state' = "IDLE" /\ is_holding' = FALSE
    /\ posted' = <<>>
    /\ UNCHANGED pc

InputThread == DownStopClickTimer \/ DownCount \/ DownStartHoldTimer
               \/ UpStopHoldTimer \/ UpTestHolding \/ UpReset \/ UpStartClickTimer

Next == \/ KeyDown \/ KeyUp
        \/ InputThread
        \/ click_timer_handler \/ hold_timer_handler
        \/ multi_tap_input_reset

(* A thread that has started to process a key event goes on, and a running *)
(* timer expires.  The user owes nothing: no fairness on the key events.   *)
Fairness == /\ WF_vars(InputThread)
            /\ WF_vars(click_timer_handler)
            /\ WF_vars(hold_timer_handler)

Spec == Init /\ [][Next]_vars

FairSpec == Spec /\ Fairness

-----------------------------------------------------------------------------
(* The state and the history have the types of the C declarations.         *)
TypeOK ==
    /\ current_state \in multi_tap_state
    /\ click_count \in 0..MaxClicks
    /\ is_holding \in BOOLEAN
    /\ click_timer \in BOOLEAN /\ hold_timer \in BOOLEAN
    /\ pc \in Locations
    /\ posted \in Seq(zbeam_msg)

(* Between two key events an unreported press always has the one timer     *)
(* that will report it: a press waiting for more clicks has click_timer, a *)
(* press that is down has hold_timer until it becomes a hold, and nothing  *)
(* else runs.  Otherwise a press would be lost or reported twice.          *)
PressHasItsTimer ==
    pc = "ready" =>
        /\ click_timer <=> (current_state = "WAIT_TIMEOUT")
        /\ hold_timer <=> (current_state = "PRESSED" /\ ~is_holding)
        /\ (click_count > 0) <=> (current_state # "IDLE")

Held == is_holding /\ pc # "up_reset"

(* Every HOLD_START is followed at once by the HOLD_RELEASE of the same    *)
(* count, or the hold is still going on; no HOLD_RELEASE comes without.    *)
(* The ramp that HOLD_START starts relies on it (fsm_engine.c:95).         *)
HoldsBracketed ==
    \A i \in 1..Len(posted) :
        /\ posted[i].type = "HOLD_START" =>
              IF i = Len(posted)
              THEN Held /\ posted[i].count = click_count % CountMod
              ELSE posted[i + 1] = [posted[i] EXCEPT !.type = "HOLD_RELEASE"]
        /\ posted[i].type = "HOLD_RELEASE" =>
              i > 1 /\ posted[i - 1] = [posted[i] EXCEPT !.type = "HOLD_START"]

(* A press whose key-down event is being processed, not yet in click_count *)
Arriving == IF pc \in {"down_idle", "down_wait", "down_count"} THEN 1 ELSE 0

(* The engine implements the promise of Gestures whatever the interleaving *)
(* of the input thread and the timer interrupt: each press is counted in   *)
(* one gesture, in particular the press that arrives while the click timer *)
(* expires and the release that arrives while the hold timer expires.      *)
PendingPresses == (IF is_holding THEN 0 ELSE click_count) + Arriving
HeldPresses == IF Held THEN click_count ELSE 0

G == INSTANCE Gestures WITH pending <- PendingPresses, held <- HeldPresses

ImplementsGestures == G!Spec

(* A user who stops touching the button gets his presses reported: no      *)
(* interleaving leaves the engine waiting without a timer.                 *)
EveryPressReported == (PendingPresses > 0) ~> (PendingPresses = 0)

-----------------------------------------------------------------------------
(* The inductive strengthening of the invariants: what the input thread    *)
(* may rely on at each location.  "down_wait" and "up_stop" are the two    *)
(* places where a handler can still get in front of the thread.            *)
Quiet == ~click_timer /\ ~hold_timer

Idle    == current_state = "IDLE" /\ click_count = 0 /\ ~is_holding /\ Quiet
Down    == current_state = "PRESSED" /\ click_count > 0
Waiting == current_state = "WAIT_TIMEOUT" /\ click_count > 0 /\ ~is_holding

LocationInv ==
    /\ pc = "ready" => \/ Idle
                       \/ Down /\ ~click_timer /\ (hold_timer <=> ~is_holding)
                       \/ Waiting /\ click_timer /\ ~hold_timer
    /\ pc = "down_idle"  => Idle
    /\ pc = "down_wait"  => Idle \/ (Waiting /\ click_timer /\ ~hold_timer)
    /\ pc = "down_count" => Idle \/ (Waiting /\ Quiet)
    /\ pc = "down_arm"   => Down /\ ~is_holding /\ Quiet
    /\ pc = "up_stop"    => Down /\ ~click_timer /\ (hold_timer <=> ~is_holding)
    /\ pc = "up_test"    => Down /\ Quiet
    /\ pc = "up_reset"   => Down /\ is_holding /\ Quiet
    /\ pc = "up_arm"     => Waiting /\ Quiet

(* The count can still grow only where the guard of KeyDown has been       *)
(* passed.                                                                 *)
BoundInv == pc \in {"down_idle", "down_wait", "down_count"} => click_count < MaxClicks

(* What HoldsBracketed leaves open of the last message.                    *)
OpenHoldInv ==
    Held <=> /\ posted # <<>>
             /\ posted[Len(posted)].type = "HOLD_START"

IInv == TypeOK /\ LocationInv /\ BoundInv /\ HoldsBracketed /\ OpenHoldInv
=============================================================================
