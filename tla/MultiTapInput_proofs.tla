----------------------- MODULE MultiTapInput_proofs -----------------------
(***************************************************************************)
(* Proofs about MultiTapInput, for every count width, every bound on the   *)
(* clicks of a gesture and every length of the history.                    *)
(***************************************************************************)
EXTENDS MultiTapInput, TLAPS

(* What the message's count field holds is a value of its type.            *)
LEMMA MessageType ==
    ASSUME NEW type \in EventTypes, NEW n \in 0..MaxClicks
    PROVE  Message(type, n) \in zbeam_msg
BY CountModAssumption, BoundsAssumption DEF Message, zbeam_msg

(* Both interrupt handlers and the input thread keep the types.            *)
LEMMA InitInv == Init => IInv
<1> SUFFICES ASSUME Init PROVE IInv
  OBVIOUS
<1>1. TypeOK
  <2>1. is_holding \in BOOLEAN /\ click_timer \in BOOLEAN /\ hold_timer \in BOOLEAN
    BY DEF Init
  <2> QED
    BY <2>1, BoundsAssumption DEF Init, TypeOK, multi_tap_state, Locations
<1>2. LocationInv /\ BoundInv
  BY BoundsAssumption DEF Init, LocationInv, BoundInv, Idle, Quiet
<1>3. HoldsBracketed /\ OpenHoldInv
  BY DEF Init, HoldsBracketed, OpenHoldInv, Held
<1> QED
  BY <1>1, <1>2, <1>3 DEF IInv

LEMMA TypeStep == IInv /\ [Next]_vars => TypeOK'
<1> SUFFICES ASSUME IInv, [Next]_vars PROVE TypeOK'
  OBVIOUS
<1> USE BoundsAssumption, CountModAssumption DEF IInv, TypeOK, multi_tap_state, Locations
<1>a. \A type \in EventTypes : Message(type, click_count) \in zbeam_msg
  BY MessageType
<1>1. CASE KeyDown
  BY <1>1 DEF KeyDown
<1>2. CASE KeyUp
  BY <1>2 DEF KeyUp
<1>3. CASE DownStopClickTimer
  BY <1>3 DEF DownStopClickTimer
<1>4. CASE DownCount
  BY <1>4 DEF DownCount, BoundInv
<1>5. CASE DownStartHoldTimer
  BY <1>5 DEF DownStartHoldTimer
<1>6. CASE UpStopHoldTimer
  BY <1>6 DEF UpStopHoldTimer
<1>7. CASE UpTestHolding
  BY <1>7, <1>a DEF UpTestHolding, post_event, EventTypes
<1>8. CASE UpReset
  <2>1. (is_holding \in BOOLEAN /\ click_timer \in BOOLEAN /\ hold_timer \in BOOLEAN)'
    BY <1>8 DEF UpReset
  <2> QED
    BY <1>8, <2>1 DEF UpReset
<1>9. CASE UpStartClickTimer
  BY <1>9 DEF UpStartClickTimer
<1>10. CASE click_timer_handler
  <2>1. (is_holding \in BOOLEAN /\ click_timer \in BOOLEAN /\ hold_timer \in BOOLEAN)'
    BY <1>10 DEF click_timer_handler
  <2>2. (posted \in Seq(zbeam_msg))'
    BY <1>10, <1>a DEF click_timer_handler, post_event, EventTypes
  <2> QED
    BY <1>10, <2>1, <2>2 DEF click_timer_handler
<1>11. CASE hold_timer_handler
  <2>1. (is_holding \in BOOLEAN /\ click_timer \in BOOLEAN /\ hold_timer \in BOOLEAN)'
    BY <1>11 DEF hold_timer_handler
  <2>2. (posted \in Seq(zbeam_msg))'
    BY <1>11, <1>a DEF hold_timer_handler, post_event, EventTypes
  <2> QED
    BY <1>11, <2>1, <2>2 DEF hold_timer_handler
<1>12. CASE multi_tap_input_reset
  <2>1. (is_holding \in BOOLEAN /\ click_timer \in BOOLEAN /\ hold_timer \in BOOLEAN)'
    BY <1>12 DEF multi_tap_input_reset
  <2> QED
    BY <1>12, <2>1 DEF multi_tap_input_reset
<1>13. CASE UNCHANGED vars
  BY <1>13 DEF vars
<1> QED
  BY <1>1, <1>2, <1>3, <1>4, <1>5, <1>6, <1>7, <1>8, <1>9, <1>10, <1>11, <1>12, <1>13
     DEF Next, InputThread

LEMMA LocationStep == IInv /\ [Next]_vars => (LocationInv /\ BoundInv)'
<1> SUFFICES ASSUME IInv, [Next]_vars PROVE (LocationInv /\ BoundInv)'
  OBVIOUS
<1> USE BoundsAssumption DEF IInv, TypeOK, multi_tap_state, Locations, LocationInv, BoundInv,
        Idle, Down, Waiting, Quiet
<1>1. CASE KeyDown
  BY <1>1 DEF KeyDown
<1>2. CASE KeyUp
  BY <1>2 DEF KeyUp
<1>3. CASE DownStopClickTimer
  BY <1>3 DEF DownStopClickTimer
<1>4. CASE DownCount
  BY <1>4 DEF DownCount
<1>5. CASE DownStartHoldTimer
  BY <1>5 DEF DownStartHoldTimer
<1>6. CASE UpStopHoldTimer
  BY <1>6 DEF UpStopHoldTimer
<1>7. CASE UpTestHolding
  BY <1>7 DEF UpTestHolding
<1>8. CASE UpReset
  BY <1>8 DEF UpReset
<1>9. CASE UpStartClickTimer
  BY <1>9 DEF UpStartClickTimer
<1>10. CASE click_timer_handler
  BY <1>10 DEF click_timer_handler
<1>11. CASE hold_timer_handler
  BY <1>11 DEF hold_timer_handler
<1>12. CASE multi_tap_input_reset
  BY <1>12 DEF multi_tap_input_reset
<1>13. CASE UNCHANGED vars
  BY <1>13 DEF vars
<1> QED
  BY <1>1, <1>2, <1>3, <1>4, <1>5, <1>6, <1>7, <1>8, <1>9, <1>10, <1>11, <1>12, <1>13
     DEF Next, InputThread

(* A step that posts nothing and does not touch the hold that is going on  *)
(* leaves the history as well bracketed as it was.                         *)
LEMMA NothingPosted ==
    ASSUME IInv, UNCHANGED posted, Held' <=> Held,
           Held => UNCHANGED click_count
    PROVE  (HoldsBracketed /\ OpenHoldInv)'
BY DEF IInv, HoldsBracketed, OpenHoldInv

(* A click run may be reported when no hold is open.                       *)
LEMMA TapPosted ==
    ASSUME IInv, ~Held, ~Held', post_event("TAP", click_count)
    PROVE  (HoldsBracketed /\ OpenHoldInv)'
BY DEF IInv, TypeOK, HoldsBracketed, OpenHoldInv, post_event, Message

LEMMA HoldPosted ==
    ASSUME IInv, ~Held, Held', UNCHANGED click_count, post_event("HOLD_START", click_count)
    PROVE  (HoldsBracketed /\ OpenHoldInv)'
BY DEF IInv, TypeOK, HoldsBracketed, OpenHoldInv, post_event, Message

LEMMA ReleasePosted ==
    ASSUME IInv, Held, ~Held', post_event("HOLD_RELEASE", click_count)
    PROVE  (HoldsBracketed /\ OpenHoldInv)'
<1> DEFINE m == Message("HOLD_RELEASE", click_count)
<1>0. posted \in Seq(zbeam_msg)
  BY DEF IInv, TypeOK
<1>1. posted # <<>> /\ posted[Len(posted)].type = "HOLD_START"
      /\ posted[Len(posted)].count = click_count % CountMod
  <2>1. posted # <<>> /\ posted[Len(posted)].type = "HOLD_START"
    BY DEF IInv, OpenHoldInv
  <2>2. Len(posted) \in 1..Len(posted)
    BY <1>0, <2>1
  <2> QED
    BY <2>1, <2>2 DEF IInv, HoldsBracketed
<1>2. posted[Len(posted)] \in zbeam_msg
  BY <1>0, <1>1
<1>3. m = [posted[Len(posted)] EXCEPT !.type = "HOLD_RELEASE"]
      /\ posted[Len(posted)] = [m EXCEPT !.type = "HOLD_START"]
      /\ m.type = "HOLD_RELEASE"
  BY <1>1, <1>2 DEF Message, zbeam_msg
<1>4. Len(posted') = Len(posted) + 1 /\ posted'[Len(posted')] = m
      /\ \A i \in 1..Len(posted) : posted'[i] = posted[i]
  BY <1>0 DEF post_event
<1> HIDE DEF m
<1>a. posted'[Len(posted)] = posted[Len(posted)] /\ Len(posted) \in Nat \ {0}
  BY <1>0, <1>1, <1>4
<1>5. HoldsBracketed'
  <2> SUFFICES ASSUME NEW i \in 1..Len(posted')
               PROVE  /\ posted'[i].type = "HOLD_START" =>
                            /\ i # Len(posted')
                            /\ posted'[i + 1] = [posted'[i] EXCEPT !.type = "HOLD_RELEASE"]
                      /\ posted'[i].type = "HOLD_RELEASE" =>
                            i > 1 /\ posted'[i - 1] = [posted'[i] EXCEPT !.type = "HOLD_START"]
    BY DEF HoldsBracketed
  <2>1. CASE i = Len(posted')
    <3>1. posted'[i] = m /\ i - 1 = Len(posted) /\ i > 1
      BY <1>4, <1>a, <2>1
    <3> QED
      BY <1>3, <1>a, <3>1
  <2>2. CASE i = Len(posted)
    <3>1. posted'[i] = posted[Len(posted)] /\ posted'[i + 1] = m
      BY <1>4, <1>a, <2>2
    <3> QED
      BY <1>1, <1>3, <1>4, <1>a, <2>2, <3>1
  <2>3. CASE i < Len(posted)
    BY <1>0, <1>4, <2>3 DEF IInv, HoldsBracketed
  <2> QED
    BY <1>0, <1>4, <2>1, <2>2, <2>3
<1>6. OpenHoldInv'
  BY <1>0, <1>3, <1>4 DEF OpenHoldInv
<1> QED BY <1>5, <1>6

LEMMA BracketStep == IInv /\ [Next]_vars => (HoldsBracketed /\ OpenHoldInv)'
<1> SUFFICES ASSUME IInv, [Next]_vars PROVE (HoldsBracketed /\ OpenHoldInv)'
  OBVIOUS
<1>a. LocationInv /\ is_holding \in BOOLEAN
  BY DEF IInv, TypeOK
<1>1. CASE KeyDown
  BY <1>1, NothingPosted DEF KeyDown, Held
<1>2. CASE KeyUp
  BY <1>2, NothingPosted DEF KeyUp, Held
<1>3. CASE DownStopClickTimer
  BY <1>3, NothingPosted DEF DownStopClickTimer, Held
<1>4. CASE DownCount
  BY <1>4, <1>a, NothingPosted DEF DownCount, Held, LocationInv, Idle, Waiting
<1>5. CASE DownStartHoldTimer
  BY <1>5, NothingPosted DEF DownStartHoldTimer, Held
<1>6. CASE UpStopHoldTimer
  BY <1>6, NothingPosted DEF UpStopHoldTimer, Held
<1>7. CASE UpTestHolding
  <2>1. CASE is_holding
    BY <1>7, <2>1, ReleasePosted DEF UpTestHolding, Held
  <2>2. CASE ~is_holding
    BY <1>7, <2>2, NothingPosted DEF UpTestHolding, Held
  <2> QED
    BY <2>1, <2>2
<1>8. CASE UpReset
  BY <1>8, NothingPosted DEF UpReset, Held
<1>9. CASE UpStartClickTimer
  BY <1>9, NothingPosted DEF UpStartClickTimer, Held
<1>10. CASE click_timer_handler
  <2>1. ~Held
    BY <1>10, <1>a DEF click_timer_handler, Held, LocationInv, Idle, Down, Waiting, Quiet, IInv, TypeOK, Locations
  <2>2. ~Held'
    BY <1>10, <2>1 DEF click_timer_handler, Held
  <2> QED
    BY <1>10, <2>1, <2>2, TapPosted, NothingPosted DEF click_timer_handler
<1>11. CASE hold_timer_handler
  <2>1. current_state = "PRESSED" /\ pc \in {"ready", "up_stop"} /\ ~is_holding
    BY <1>11, <1>a DEF hold_timer_handler, LocationInv, Idle, Down, Waiting, Quiet, IInv, TypeOK, Locations
  <2> QED
    BY <1>11, <2>1, HoldPosted DEF hold_timer_handler, Held
<1>12. CASE multi_tap_input_reset
  BY <1>12 DEF multi_tap_input_reset, HoldsBracketed, OpenHoldInv, Held
<1>13. CASE UNCHANGED vars
  BY <1>13, NothingPosted DEF vars, Held
<1> QED
  BY <1>1, <1>2, <1>3, <1>4, <1>5, <1>6, <1>7, <1>8, <1>9, <1>10, <1>11, <1>12, <1>13
     DEF Next, InputThread

(* IInv is inductive.                                                      *)
THEOREM Invariance == Spec => []IInv
<1>1. IInv /\ [Next]_vars => IInv'
  BY TypeStep, LocationStep, BracketStep DEF IInv
<1> QED
  BY InitInv, <1>1, PTL DEF Spec

(* The types of the C declarations are kept by both contexts.              *)
THEOREM TypeCorrect == Spec => []TypeOK
BY Invariance, PTL DEF IInv

(* An unreported press always has exactly the timer that will report it.   *)
THEOREM TimersCorrect == Spec => []PressHasItsTimer
<1>1. IInv => PressHasItsTimer
  BY DEF IInv, TypeOK, LocationInv, PressHasItsTimer, Idle, Down, Waiting, Quiet
<1> QED
  BY Invariance, <1>1, PTL

(* Holds are bracketed: a release follows its start at once.               *)
THEOREM HoldsCorrect == Spec => []HoldsBracketed
BY Invariance, PTL DEF IInv

-----------------------------------------------------------------------------
(* The engine implements Gestures: every step is a step of the abstract    *)
(* machine or leaves it alone.                                             *)
LEMMA RefinesInit == Init => G!Init
BY DEF Init, G!Init, PendingPresses, HeldPresses, Held, Arriving

LEMMA RefinesNext ==
    ASSUME IInv, [Next]_vars
    PROVE  [G!Next]_(G!gvars)
<1> USE DEF PendingPresses, HeldPresses, Held, Arriving
<1>a. click_count \in Nat /\ is_holding \in BOOLEAN
  BY BoundsAssumption DEF IInv, TypeOK
<1>b. LocationInv /\ pc \in Locations
  BY DEF IInv, TypeOK
<1> USE DEF LocationInv, Locations, Idle, Down, Waiting, Quiet
<1>1. CASE KeyDown
  <2>1. G!Press
    BY <1>1, <1>a, <1>b DEF KeyDown, G!Press
  <2> QED
    BY <2>1 DEF G!Next
<1>2. CASE KeyUp
  BY <1>2 DEF KeyUp, G!gvars
<1>3. CASE DownStopClickTimer
  BY <1>3 DEF DownStopClickTimer, G!gvars
<1>4. CASE DownCount
  BY <1>4, <1>a, <1>b DEF DownCount, G!gvars
<1>5. CASE DownStartHoldTimer
  BY <1>5 DEF DownStartHoldTimer, G!gvars
<1>6. CASE UpStopHoldTimer
  BY <1>6 DEF UpStopHoldTimer, G!gvars
<1>7. CASE UpTestHolding
  <2>1. CASE is_holding
    <3>1. G!EndHold
      BY <1>7, <2>1, <1>a, <1>b DEF UpTestHolding, G!EndHold, G!HOLD_RELEASE, post_event, Message
    <3> QED
      BY <3>1 DEF G!Next
  <2>2. CASE ~is_holding
    BY <1>7, <2>2 DEF UpTestHolding, G!gvars
  <2> QED
    BY <2>1, <2>2
<1>8. CASE UpReset
  BY <1>8, <1>b DEF UpReset, G!gvars
<1>9. CASE UpStartClickTimer
  BY <1>9 DEF UpStartClickTimer, G!gvars
<1>10. CASE click_timer_handler
  <2>1. Waiting /\ pc \in {"ready", "down_wait"}
    BY <1>10, <1>b DEF click_timer_handler
  <2>2. G!ReportTap
    <3>1. /\ click_count' = 0 /\ ~is_holding' /\ UNCHANGED pc
          /\ post_event("TAP", click_count)
      BY <1>10, <2>1 DEF click_timer_handler
    <3>2. /\ HeldPresses = 0 /\ HeldPresses' = 0
          /\ click_count > 0 /\ PendingPresses - click_count = PendingPresses'
          /\ click_count \in {PendingPresses, PendingPresses - 1}
      BY <2>1, <3>1, <1>a
    <3>3. PendingPresses > 0
      BY <2>1, <1>a
    <3>4. posted' = Append(posted, G!TAP(click_count))
      BY <3>1 DEF G!TAP, post_event, Message
    <3> HIDE DEF PendingPresses, HeldPresses
    <3> QED
      BY <3>2, <3>3, <3>4 DEF G!ReportTap
  <2> QED
    BY <2>2 DEF G!Next
<1>11. CASE hold_timer_handler
  <2>1. Down /\ ~is_holding /\ pc \in {"ready", "up_stop"}
    BY <1>11, <1>b DEF hold_timer_handler
  <2>2. G!StartHold
    <3>1. is_holding' = TRUE /\ post_event("HOLD_START", click_count)
          /\ UNCHANGED <<current_state, click_count, pc>>
      BY <1>11, <2>1 DEF hold_timer_handler
    <3>2. PendingPresses = click_count /\ HeldPresses = 0 /\ click_count > 0
      BY <2>1, <1>a
    <3>3. PendingPresses' = 0 /\ HeldPresses' = click_count
      BY <2>1, <3>1, <1>a
    <3>4. posted' = Append(posted, G!HOLD_START(PendingPresses))
      BY <3>1, <3>2 DEF G!HOLD_START, post_event, Message
    <3> QED
      BY <3>2, <3>3, <3>4 DEF G!StartHold
  <2> QED
    BY <2>2 DEF G!Next
<1>12. CASE multi_tap_input_reset
  <2>1. G!Restart
    BY <1>12 DEF multi_tap_input_reset, G!Restart
  <2> QED
    BY <2>1 DEF G!Next
<1>13. CASE UNCHANGED vars
  BY <1>13 DEF vars, G!gvars
<1> QED
  BY <1>1, <1>2, <1>3, <1>4, <1>5, <1>6, <1>7, <1>8, <1>9, <1>10, <1>11, <1>12, <1>13
     DEF Next, InputThread

(* The promise of include/multi_tap_input.h is kept: each press is counted *)
(* in exactly one gesture, for every interleaving with the timers.         *)
THEOREM Refinement == Spec => ImplementsGestures
<1>1. IInv /\ [Next]_vars => [G!Next]_(G!gvars)
  BY RefinesNext
<1> QED
  BY Invariance, RefinesInit, <1>1, PTL DEF Spec, ImplementsGestures, G!Spec
=============================================================================
