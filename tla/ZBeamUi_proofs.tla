--------------------------- MODULE ZBeamUi_proofs ---------------------------
(***************************************************************************)
(* Theorems about ZBeamUi, for every range of levels, every set of click   *)
(* counts and every memory mode.                                           *)
(*                                                                         *)
(* The worker and the inactivity handler execute the same functions        *)
(* without a lock.  Every invariant below therefore speaks of the          *)
(* statements that are still pending: what a timer or a variable may be    *)
(* now depends on what the worker or the handler is about to execute, and  *)
(* at rest nothing is pending, which leaves the property.                  *)
(*                                                                         *)
(*   IInv, ShapeInv, NodeInv   where the handler may come in, and what the *)
(*                             worker can be in the middle of (NavInv)     *)
(*   FlagInv, LevelInv, DueInv the types of the static variables           *)
(*   QuietInv                  the thermal and strobe timers               *)
(*   MsgInv, CfgInv, OnRampInv what is looked up, and a ramp begun in ON   *)
(*   BrightInv, OrderInv, BuzzInv, LedInv, OnInv   what ON shows           *)
(*                                                                         *)
(* What ends a ramp, and what it leaves to ON, is ZBeamUiHistory_proofs.   *)
(***************************************************************************)
EXTENDS ZBeamUi, SequenceTheorems, TLAPS

(* A sequence of anything: statements are records of many shapes.          *)
IsSeq(s) == \E S : s \in Seq(S)

(* A sequence and another one after it, whatever they hold.                *)
LEMMA Joins ==
    ASSUME NEW s, NEW t, IsSeq(s), IsSeq(t)
    PROVE  /\ IsSeq(s \o t)
           /\ Len(s) \in Nat /\ Len(t) \in Nat /\ Len(s \o t) = Len(s) + Len(t)
           /\ \A i \in 1..(Len(s) + Len(t)) :
                 (s \o t)[i] = IF i <= Len(s) THEN s[i] ELSE t[i - Len(s)]
<1>1. PICK S : s \in Seq(S)
  BY DEF IsSeq
<1>2. PICK T : t \in Seq(T)
  BY DEF IsSeq
<1>3. s \in Seq(S \cup T) /\ t \in Seq(S \cup T)
  BY <1>1, <1>2
<1>4. s \o t \in Seq(S \cup T)
  BY <1>3
<1>5. IsSeq(s \o t)
  BY <1>4 DEF IsSeq
<1> QED BY <1>3, <1>4, <1>5

(* What is left of a sequence.                                             *)
LEMMA Tails ==
    ASSUME NEW s, IsSeq(s), s # <<>>
    PROVE  /\ IsSeq(Tail(s)) /\ Head(s) = s[1]
           /\ Len(s) \in Nat \ {0} /\ Len(Tail(s)) = Len(s) - 1
           /\ \A i \in 1..(Len(s) - 1) : Tail(s)[i] = s[i + 1]
<1>1. PICK S : s \in Seq(S)
  BY DEF IsSeq
<1>2. Tail(s) \in Seq(S)
  BY <1>1
<1>3. IsSeq(Tail(s))
  BY <1>2 DEF IsSeq
<1> QED BY <1>1, <1>2, <1>3

(* The short sequences the bodies of functions are put together from.      *)
LEMMA None == IsSeq(<<>>) /\ Len(<<>>) = 0
<1>1. <<>> \in Seq({})
  OBVIOUS
<1> QED BY <1>1 DEF IsSeq

(* A sequence of one.                                                      *)
LEMMA One == ASSUME NEW a PROVE IsSeq(<<a>>) /\ Len(<<a>>) = 1 /\ <<a>>[1] = a
<1>1. <<a>> \in Seq({a})
  OBVIOUS
<1> QED BY <1>1 DEF IsSeq

(* A sequence of four.                                                     *)
LEMMA Four ==
    ASSUME NEW a, NEW b, NEW c, NEW d
    PROVE  LET s == <<a, b, c, d>>
           IN  IsSeq(s) /\ Len(s) = 4 /\ s[1] = a /\ s[2] = b /\ s[3] = c /\ s[4] = d
<1>1. <<a, b, c, d>> \in Seq({a, b, c, d})
  OBVIOUS
<1> QED BY <1>1 DEF IsSeq

-----------------------------------------------------------------------------
(* The invariant.                                                          *)

(* Statements of action routines and callbacks: none of them navigates.    *)
PlainOps == {"start", "stop", "set", "led", "led_brightness", "sleep", "save_memory",
             "level_on", "level_floor", "level_ceiling", "override_floor",
             "toggle_style", "next_strobe", "strobe_entry", "reboot"}

(* The one statement a plain one must not be.                              *)
StartsTimer(o) == o.op = "start" /\ o.timer = "inactivity"

IsPlain(o) == o.op \in PlainOps /\ ~StartsTimer(o)

Plain(s) == IsSeq(s) /\ \A i \in 1..Len(s) : IsPlain(s[i])

(* What dispatch_input is given.                                           *)
MessageTypes == {"TAP", "HOLD_START", "HOLD_RELEASE"}

(* A node is assigned right after the timer was stopped.                   *)
EntersAfterStop(s) ==
    \A i \in 2..Len(s) : s[i].op = "enter" => s[i - 1] = Stop("inactivity")

(* Where an inactivity timer may run.                                      *)
MayRun == TimedNodes \cup {timeout_node(n) : n \in TimedNodes} \cup {home_node}

(* The property, at any time and not only at rest.                         *)
TimerInv ==
    /\ timer \in [Timers -> {"stopped", "running", "due"}]
    /\ timer["inactivity"] # "stopped" => current_node \in MayRun

(* The worker: only its next statement may assign a node without a stop    *)
(* before it, and then the timer is stopped and no handler in progress;    *)
(* only its next statement may start the timer, and then the handler can   *)
(* only have taken it to a node where it may run.                          *)
WorkerInv ==
    /\ IsSeq(todo) /\ EntersAfterStop(todo)
    /\ \A i \in 2..Len(todo) : ~StartsTimer(todo[i])
    /\ \A i \in 1..Len(todo) : todo[i].op = "callback" => todo[i].msg.type \in MessageTypes
    /\ todo # <<>> /\ todo[1].op = "enter" => isr = <<>> /\ timer["inactivity"] = "stopped"
    /\ todo # <<>> /\ StartsTimer(todo[1]) => current_node \in MayRun

(* The handler does not look anything up and only goes where it was sent.  *)
IsHandlers(o) ==
    /\ o.op \in PlainOps \cup {"transition", "enter", "action", "arm"}
    /\ ~StartsTimer(o)
    /\ o.op \in {"transition", "enter"} => o.node \in MayRun

HandlerInv ==
    /\ IsSeq(isr) /\ EntersAfterStop(isr)
    /\ \A i \in 1..Len(isr) : IsHandlers(isr[i])
    /\ isr # <<>> /\ isr[1].op = "enter" => timer["inactivity"] = "stopped"

IInv == TimerInv /\ WorkerInv /\ HandlerInv

-----------------------------------------------------------------------------
(* What a function call is replaced by.                                    *)

(* A routine that is put together from plain ones is plain.                *)
LEMMA PlainJoins ==
    ASSUME NEW s, NEW t, Plain(s), Plain(t)
    PROVE  Plain(s \o t)
BY Joins DEF Plain

(* The short ones.                                                         *)
LEMMA Plain0 == Plain(<<>>)
BY None DEF Plain

(* One plain statement is plain.                                           *)
LEMMA Plain1 == ASSUME NEW a, IsPlain(a) PROVE Plain(<<a>>)
BY One DEF Plain

(* Two of them are.                                                        *)
LEMMA Plain2 == ASSUME NEW a, NEW b, IsPlain(a), IsPlain(b) PROVE Plain(<<a, b>>)
<1>1. <<a, b>> \in Seq({a, b})
  OBVIOUS
<1>2. IsSeq(<<a, b>>) /\ Len(<<a, b>>) = 2 /\ <<a, b>>[1] = a /\ <<a, b>>[2] = b
  BY <1>1 DEF IsSeq
<1> QED BY <1>2 DEF Plain

(* Three of them are.                                                      *)
LEMMA Plain3 ==
    ASSUME NEW a, NEW b, NEW c, IsPlain(a), IsPlain(b), IsPlain(c)
    PROVE  Plain(<<a, b, c>>)
<1> DEFINE s == <<a, b, c>>
<1>1. s \in Seq({a, b, c})
  OBVIOUS
<1>2. IsSeq(s) /\ Len(s) = 3 /\ s[1] = a /\ s[2] = b /\ s[3] = c
  BY <1>1 DEF IsSeq
<1> HIDE DEF s
<1>3. \A i \in 1..Len(s) : i = 1 \/ i = 2 \/ i = 3
  BY <1>2
<1>4. Plain(s)
  BY <1>2, <1>3 DEF Plain
<1> QED BY <1>4 DEF s

(* Four of them are.                                                       *)
LEMMA Plain4 ==
    ASSUME NEW a, NEW b, NEW c, NEW d, IsPlain(a), IsPlain(b), IsPlain(c), IsPlain(d)
    PROVE  Plain(<<a, b, c, d>>)
BY Four DEF Plain

(* The statements there are.                                               *)
LEMMA PlainStatements ==
    /\ \A t \in {"thermal", "ramp", "strobe", "buzz"} : IsPlain(Start(t))
    /\ \A t : IsPlain(Stop(t))
    /\ \A level : IsPlain(Led(level))
    /\ \A var, val : IsPlain(Set(var, val))
    /\ \A name \in PlainOps \ {"start"} : IsPlain(Op(name))
    /\ IsPlain(LedBrightness) /\ IsPlain(Sleep) /\ IsPlain(Resume) /\ IsPlain(Suspend)
BY DEF IsPlain, StartsTimer, PlainOps, Start, Stop, Led, Set, Op, LedBrightness, Sleep, Resume, Suspend

(* The routines of src/ui_actions.c do not navigate.                       *)
LEMMA RampPlain ==
    /\ Plain(stop_ramping)
    /\ \A dir : Plain(start_ramping(dir))
<1>1. Plain(stop_ramping)
  BY PlainStatements, Plain2 DEF stop_ramping, PlainOps
<1>2. ASSUME NEW dir PROVE Plain(start_ramping(dir))
  BY PlainStatements, Plain3 DEF start_ramping
<1> QED BY <1>1, <1>2

(* The routines are plain.                                                 *)
LEMMA RoutinePlain ==
    /\ Plain(action_off) /\ Plain(action_on) /\ Plain(action_turbo) /\ Plain(action_lockout)
    /\ Plain(action_battcheck) /\ Plain(action_strobe) /\ Plain(action_aux_config)
    /\ Plain(action_factory_reset) /\ Plain(action_config_floor)
    /\ Plain(action_moon) /\ Plain(action_strobe_next) /\ Plain(action_toggle_ramp_style)
<1> USE PlainStatements, RampPlain DEF PlainOps
<1>1. Plain(action_off)
  <2>1. Plain(<<Led(0), Stop("thermal"), Stop("strobe"), Suspend>>)
    BY Plain4
  <2> QED BY <2>1, PlainJoins DEF action_off
<1>2. Plain(action_on)
  <2>1. Plain(<<Resume, Start("thermal")>>) /\ Plain(<<Op("level_on"), LedBrightness>>)
    BY Plain2
  <2> QED BY <2>1, PlainJoins DEF action_on
<1>3. Plain(action_turbo)
  <2>1. Plain(<<Resume>>) /\ Plain(<<Op("level_ceiling"), LedBrightness>>)
    BY Plain1, Plain2
  <2> QED BY <2>1, PlainJoins DEF action_turbo
<1>4. Plain(action_lockout)
  <2>1. Plain(<<Led(0)>>)
    BY Plain1
  <2> QED BY <2>1, PlainJoins DEF action_lockout
<1>5. Plain(action_battcheck)
  <2>1. Plain(Blink) /\ Plain(<<Sleep>>)
    BY Plain1, Plain4 DEF Blink
  <2> QED BY <2>1, PlainJoins DEF action_battcheck
<1>6. Plain(action_strobe)
  <2>1. Plain(<<Set("active_param", "FREQUENCY"), Start("strobe"), Led(MaxLevel),
                Set("strobe_on", TRUE)>>)
    BY Plain4
  <2> QED BY <2>1, PlainJoins DEF action_strobe
<1>7. Plain(action_aux_config)
  BY Plain3 DEF action_aux_config
<1>8. Plain(action_factory_reset)
  <2>1. Plain(<<Op("reboot")>>)
    BY Plain1
  <2> QED BY <2>1, PlainJoins DEF action_factory_reset
<1>9. Plain(action_config_floor)
  BY Plain1 DEF action_config_floor
<1>10. Plain(action_moon)
  BY Plain4 DEF action_moon
<1>11. Plain(action_strobe_next)
  <2> DEFINE s == <<Op("next_strobe"), Stop("strobe"), Op("strobe_entry"), Resume>>
             t == <<Start("strobe")>>
  <2>1. Plain(s) /\ Plain(t)
    BY Plain1, Plain4
  <2>2. action_strobe_next = s \o t
    BY DEF action_strobe_next
  <2> QED BY <2>1, <2>2, PlainJoins
<1>12. Plain(action_toggle_ramp_style)
  BY Plain4 DEF action_toggle_ramp_style
<1> QED BY <1>1, <1>2, <1>3, <1>4, <1>5, <1>6, <1>7, <1>8, <1>9, <1>10, <1>11, <1>12

(* Nor does what a node does on entry,                                     *)
LEMMA ActionPlain == \A node : Plain(Action(action_routine(node)))
<1> TAKE node
<1>1. action_routine(node) \in
        {"action_off", "action_on", "action_turbo", "action_ramp", "action_lockout",
         "action_battcheck", "action_tempcheck", "action_strobe", "action_aux_config",
         "action_factory_reset", "start_buzz"}
  BY DEF action_routine
<1> QED BY <1>1, RoutinePlain, Plain0 DEF Action

(* The callbacks of the node tables.                                       *)
CallbackNames == SimpleCallbacks \cup AdvancedCallbacks \cup MenuCallbacks \cup {NULL}

(* nor a callback, before it returns a node.                               *)
LEMMA CallbackPlain ==
    ASSUME NEW name \in CallbackNames, NEW count
    PROVE  Plain(Callback(name, count).ops)
<1> USE PlainStatements, RampPlain, RoutinePlain DEF PlainOps
<1>1. CASE name \in SimpleCallbacks
  <2>1. Plain(action_moon \o start_ramping(1))
    BY PlainJoins
  <2>2. Plain(<<Op("override_floor")>>)
    BY Plain1
  <2>3. Plain(ui_toggle_mode.ops)
    BY Plain1 DEF ui_toggle_mode
  <2>4. Plain(SimpleCallback(name).ops)
    BY <1>1, <2>1, <2>2, <2>3 DEF SimpleCallback, SimpleCallbacks
  <2>5. Callback(name, count) = SimpleCallback(name)
    BY <1>1 DEF Callback, SimpleCallbacks, AdvancedCallbacks, MenuCallbacks, NULL
  <2> QED BY <2>4, <2>5
<1>2. CASE name \in AdvancedCallbacks
  <2>1. Plain(AdvancedCallback(name).ops)
    BY <1>2 DEF AdvancedCallback, AdvancedCallbacks
  <2>2. Callback(name, count) = AdvancedCallback(name)
    BY <1>2 DEF Callback, SimpleCallbacks, AdvancedCallbacks, MenuCallbacks, NULL
  <2> QED BY <2>1, <2>2
<1>3. CASE name \in MenuCallbacks
  <2>1. Plain(<<Stop("buzz")>>) /\ Plain(<<>>) /\ \A val : Plain(<<Set("floor", val)>>)
        /\ \A level : Plain(<<Set("ceiling", level)>>)
    BY Plain0, Plain1
  <2>2. Plain(MenuCallback(name, count).ops)
    BY <2>1, PlainJoins DEF MenuCallback
  <2>3. Callback(name, count) = MenuCallback(name, count)
    BY <1>3 DEF Callback, SimpleCallbacks, AdvancedCallbacks, MenuCallbacks, NULL
  <2> QED BY <2>2, <2>3
<1>4. CASE name = NULL
  BY <1>4, Plain0 DEF Callback, NULL, AdvancedCallbacks, SimpleCallbacks, MenuCallbacks
<1> QED BY <1>1, <1>2, <1>3, <1>4 DEF CallbackNames

(* The engine only asks for callbacks there are.                           *)
LEMMA CallbacksNamed ==
    /\ \A msg : msg.type \in MessageTypes => CallbackFor(msg) \in CallbackNames
    /\ any_click_callback(current_node) \in CallbackNames
<1> USE DEF CallbackNames, SimpleCallbacks, AdvancedCallbacks, MenuCallbacks
<1>1. \A n : click_callback(current_node, n) \in CallbackNames
  BY DEF click_callback
<1>2. \A n : hold_callback(current_node, n) \in CallbackNames
  BY DEF hold_callback
<1>3. release_callback(current_node) \in CallbackNames
  BY DEF release_callback
<1>4. any_click_callback(current_node) \in CallbackNames
  BY DEF any_click_callback
<1> QED BY <1>1, <1>2, <1>3, <1>4 DEF CallbackFor, MessageTypes

(* The body of a call: nothing is entered in it without a stop before, and *)
(* no timer is started unless that is all it does.                         *)
IsBody(s) ==
    /\ IsSeq(s) /\ EntersAfterStop(s)
    /\ s # <<>> => s[1].op # "enter"
    /\ \A i \in 1..Len(s) : s[i].op # "callback"
    /\ \A i \in 2..Len(s) : ~StartsTimer(s[i])
    /\ s # <<>> /\ StartsTimer(s[1]) => current_node \in TimedNodes

(* fsm_transition_to stops the timer and then assigns the node.            *)
LEMMA TransitionBody == \A node : IsBody(fsm_transition_to(node))
<1> TAKE node
<1> DEFINE s == fsm_transition_to(node)
<1>1. /\ IsSeq(s) /\ Len(s) = 4
      /\ s[1] = Stop("inactivity") /\ s[2] = [op |-> "enter", node |-> node]
      /\ s[3] = Op("action") /\ s[4] = Op("arm")
  BY Four DEF fsm_transition_to
<1> HIDE DEF s
<1>2. s[1].op = "stop" /\ s[2].op = "enter" /\ s[3].op = "action" /\ s[4].op = "arm"
  BY <1>1 DEF Stop, Op
<1>3. \A i \in 1..Len(s) : i = 1 \/ i = 2 \/ i = 3 \/ i = 4
  BY <1>1
<1>4. \A i \in 1..Len(s) : ~StartsTimer(s[i])
  BY <1>2, <1>3 DEF StartsTimer
<1>5. EntersAfterStop(s)
  BY <1>1, <1>2, <1>3 DEF EntersAfterStop
<1>6. IsBody(s)
  BY <1>1, <1>2, <1>3, <1>4, <1>5 DEF IsBody
<1> QED BY <1>6 DEF s

(* Statements that change nothing about nodes, alone or before one that    *)
(* goes on.                                                                *)
LEMMA PlainBody == ASSUME NEW s, Plain(s) PROVE IsBody(s)
<1>1. \A i \in 1..Len(s) : s[i].op \notin {"enter", "callback"} /\ ~StartsTimer(s[i])
  BY DEF Plain, IsPlain, PlainOps
<1>2. Len(s) \in Nat /\ (s # <<>> => Len(s) > 0)
  BY Tails, None DEF Plain
<1> QED BY <1>1, <1>2 DEF IsBody, EntersAfterStop, Plain

(* Plain statements with a transition after them.                          *)
LEMMA PlainThen ==
    ASSUME NEW s, Plain(s), NEW o, o.op \in {"transition", "map"}
    PROVE  IsBody(s \o <<o>>)
<1> DEFINE t == s \o <<o>>
<1>1. /\ IsSeq(t) /\ Len(s) \in Nat /\ Len(t) = Len(s) + 1
      /\ \A i \in 1..Len(t) : t[i] = IF i <= Len(s) THEN s[i] ELSE o
  BY Joins, One DEF Plain
<1> HIDE DEF t
<1>2. \A i \in 1..Len(t) : t[i].op \notin {"enter", "callback"} /\ ~StartsTimer(t[i])
  BY <1>1 DEF Plain, IsPlain, PlainOps, StartsTimer
<1>3. IsBody(t)
  BY <1>1, <1>2 DEF IsBody, EntersAfterStop
<1> QED BY <1>3 DEF t

(* Each function that is called is a body in this sense.                   *)
LEMMA Bodies ==
    ASSUME NEW o, o.op \in Calls, o.op = "callback" => o.msg.type \in MessageTypes
    PROVE  IsBody(Body(o))
<1>1. CASE o.op = "transition"
  BY <1>1, TransitionBody DEF Body
<1>2. CASE o.op = "reset"
  <2>1. IsBody(<<>>)
    BY None DEF IsBody, EntersAfterStop
  <2>2. ASSUME current_node \in TimedNodes PROVE IsBody(<<Start("inactivity")>>)
    BY <2>2, One DEF IsBody, EntersAfterStop, Start, StartsTimer
  <2> QED BY <1>2, <2>1, <2>2 DEF Body, reset_inactivity_timer
<1>3. CASE o.op = "callback"
  <2> DEFINE cb == Callback(CallbackFor(o.msg), o.msg.count)
  <2>1. Plain(cb.ops)
    BY <1>3, CallbacksNamed, CallbackPlain
  <2> HIDE DEF cb
  <2>2. IsBody(cb.ops \o <<transition_to(cb.next)>>) /\ IsBody(cb.ops \o <<>>)
        /\ IsBody(cb.ops \o <<lookup("map", o.msg)>>)
    BY <2>1, PlainThen, PlainBody, Plain0, PlainJoins DEF transition_to, lookup
  <2>3. IsBody(TryCallback(o.msg))
    BY <2>2 DEF TryCallback, Then, cb
  <2> QED BY <1>3, <2>3 DEF Body
<1>4. CASE o.op = "map"
  <2> DEFINE any == Callback(any_click_callback(current_node), o.msg.count)
  <2>1. Plain(any.ops)
    BY CallbacksNamed, CallbackPlain
  <2> HIDE DEF any
  <2>2. IsBody(any.ops \o <<transition_to(any.next)>>) /\ IsBody(any.ops \o <<>>)
    BY <2>1, PlainThen, PlainBody, Plain0, PlainJoins DEF transition_to
  <2>3. ASSUME NEW node PROVE IsBody(<<transition_to(node)>>) /\ IsBody(<<>>)
    BY One, None DEF IsBody, EntersAfterStop, transition_to, StartsTimer
  <2>4. IsBody(TryMap(o.msg))
    BY <2>2, <2>3 DEF TryMap, Then, any
  <2> QED BY <1>4, <2>4 DEF Body
<1>5. CASE o.op = "action"
  <2>1. Plain(Action(action_routine(current_node)))
    BY ActionPlain
  <2> QED BY <1>5, <2>1, PlainBody DEF Body
<1> QED BY <1>1, <1>2, <1>3, <1>4, <1>5 DEF Calls

-----------------------------------------------------------------------------
(* The steps.                                                              *)

(* What is left to do after a statement that is executed or expanded.      *)
LEMMA TailOf ==
    ASSUME NEW s, IsSeq(s), s # <<>>, EntersAfterStop(s)
    PROVE  /\ IsSeq(Tail(s)) /\ EntersAfterStop(Tail(s))
           /\ Tail(s) # <<>> => Len(Tail(s)) \in Nat \ {0} /\ Tail(s)[1] = s[2] /\ 2 \in 1..Len(s)
           /\ Tail(s) # <<>> /\ Tail(s)[1].op = "enter" => s[1] = Stop("inactivity")
<1> DEFINE t == Tail(s)
<1>1. /\ IsSeq(t) /\ Len(s) \in Nat \ {0} /\ Len(t) = Len(s) - 1
      /\ \A i \in 1..(Len(s) - 1) : t[i] = s[i + 1]
  BY Tails
<1>2. t # <<>> => Len(t) \in Nat \ {0}
  BY <1>1, Tails
<1> HIDE DEF t
<1>3. t # <<>> => t[1] = s[2] /\ 2 \in 2..Len(s)
  BY <1>1, <1>2
<1>4. EntersAfterStop(t)
  <2> SUFFICES ASSUME NEW i \in 2..Len(t), t[i].op = "enter" PROVE t[i - 1] = Stop("inactivity")
    BY DEF EntersAfterStop
  <2>1. t[i] = s[i + 1] /\ t[i - 1] = s[i] /\ i + 1 \in 2..Len(s) /\ (i + 1) - 1 = i
    BY <1>1
  <2> QED BY <2>1 DEF EntersAfterStop
<1>5. t # <<>> /\ t[1].op = "enter" => s[1] = Stop("inactivity")
  BY <1>3 DEF EntersAfterStop
<1> QED BY <1>1, <1>2, <1>3, <1>4, <1>5 DEF t

(* A body in front of what is left.                                        *)
LEMMA BodyBefore ==
    ASSUME NEW b, IsBody(b), NEW t, IsSeq(t), EntersAfterStop(t),
           t # <<>> => t[1].op # "enter"
    PROVE  LET s == b \o t
           IN  /\ IsSeq(s) /\ EntersAfterStop(s)
               /\ s # <<>> => s[1].op # "enter"
               /\ \A i \in 1..Len(s) : \/ i \in 1..Len(b) /\ s[i] = b[i]
                                       \/ \E j \in 1..Len(t) : s[i] = t[j]
<1> DEFINE s == b \o t
<1>1. /\ IsSeq(s) /\ Len(b) \in Nat /\ Len(t) \in Nat /\ Len(s) = Len(b) + Len(t)
      /\ \A i \in 1..Len(s) : s[i] = IF i <= Len(b) THEN b[i] ELSE t[i - Len(b)]
  BY Joins DEF IsBody
<1>2. (b # <<>> => Len(b) > 0) /\ (t # <<>> => Len(t) > 0) /\ (s # <<>> => Len(s) > 0)
      /\ (t = <<>> => Len(t) = 0)
  BY <1>1, Tails, None DEF IsBody
<1> HIDE DEF s
<1>3. s # <<>> => s[1].op # "enter"
  <2> SUFFICES ASSUME s # <<>> PROVE s[1].op # "enter"
    OBVIOUS
  <2>1. CASE Len(b) > 0
    BY <1>1, <2>1, None DEF IsBody
  <2>2. CASE Len(b) = 0
    BY <1>1, <1>2, <2>2
  <2> QED BY <1>1, <2>1, <2>2
<1>4. EntersAfterStop(s)
  <2> SUFFICES ASSUME NEW i \in 2..Len(s), s[i].op = "enter" PROVE s[i - 1] = Stop("inactivity")
    BY DEF EntersAfterStop
  <2>1. CASE i <= Len(b)
    BY <1>1, <2>1 DEF IsBody, EntersAfterStop
  <2>2. CASE i = Len(b) + 1
    <3>1. Len(t) # 0 /\ ~(i <= Len(b)) /\ i - Len(b) = 1
      BY <1>1, <2>2
    <3>2. s[i] = t[1]
      BY <1>1, <3>1
    <3> QED BY <1>2, <3>1, <3>2
  <2>3. CASE i > Len(b) + 1
    <3>1. /\ i - Len(b) \in 2..Len(t) /\ ~(i <= Len(b))
          /\ i - 1 \in 1..Len(s) /\ ~(i - 1 <= Len(b)) /\ (i - 1) - Len(b) = (i - Len(b)) - 1
      BY <1>1, <2>3
    <3>2. s[i] = t[i - Len(b)]
      BY <1>1, <3>1
    <3>3. s[i - 1] = t[(i - 1) - Len(b)]
      BY <1>1, <3>1
    <3>4. s[i - 1] = t[(i - Len(b)) - 1]
      BY <3>1, <3>3
    <3> QED BY <3>1, <3>2, <3>4 DEF EntersAfterStop
  <2> QED BY <1>1, <2>1, <2>2, <2>3
<1>5. ASSUME NEW i \in 1..Len(s)
      PROVE  \/ i \in 1..Len(b) /\ s[i] = b[i]
             \/ \E j \in 1..Len(t) : s[i] = t[j]
  <2>1. CASE i <= Len(b)
    BY <1>1, <2>1
  <2>2. CASE i > Len(b)
    <3>1. i - Len(b) \in 1..Len(t) /\ s[i] = t[i - Len(b)]
      BY <1>1, <2>2
    <3> QED BY <3>1
  <2> QED BY <1>1, <2>1, <2>2
<1> QED BY <1>1, <1>3, <1>4, <1>5 DEF s

(* home_node changes with a reset only.                                    *)
LEMMA MayRunKept == ASSUME UNCHANGED home_node PROVE MayRun' = MayRun
BY DEF MayRun, timeout_node, TimedNodes

(* A reset.                                                                *)
LEMMA RebootStep == ASSUME NEW flash, Reboot(flash) PROVE IInv'
<1>1. todo' = <<transition_to(OffNode(flash.mode))>> /\ isr' = <<>>
      /\ timer' = [t \in Timers |-> "stopped"]
  BY DEF Reboot
<1>2. TimerInv'
  BY <1>1 DEF TimerInv, Timers
<1>3. WorkerInv'
  BY <1>1, One DEF WorkerInv, EntersAfterStop, transition_to, StartsTimer
<1>4. HandlerInv'
  BY <1>1, None DEF HandlerInv, EntersAfterStop
<1> QED BY <1>2, <1>3, <1>4 DEF IInv

(* A message, or a shutdown, is taken.                                     *)
LEMMA DeliverStep ==
    ASSUME IInv, NEW s, Deliver(s), IsSeq(s), s # <<>> => s[1].op # "enter",
           \A i \in 1..Len(s) : /\ s[i].op # "enter" /\ ~StartsTimer(s[i])
                                /\ s[i].op = "callback" => s[i].msg.type \in MessageTypes
    PROVE  IInv'
<1>1. todo' = s /\ UNCHANGED <<current_node, home_node, timer, isr>>
  BY DEF Deliver
<1>2. TimerInv' /\ HandlerInv'
  BY <1>1, MayRunKept DEF IInv, TimerInv, HandlerInv, IsHandlers
<1>3. Len(s) \in Nat /\ (s # <<>> => Len(s) > 0)
  BY Tails, None
<1>4. WorkerInv'
  BY <1>1, <1>3 DEF WorkerInv, EntersAfterStop
<1> QED BY <1>2, <1>4 DEF IInv

(* Clicks, holds and shutdowns.                                            *)
LEMMA InputStep == ASSUME IInv, Tap \/ HoldStart \/ HoldRelease \/ Shutdown PROVE IInv'
<1>1. ASSUME NEW msg, msg.type \in MessageTypes, Deliver(dispatch_input(msg)) PROVE IInv'
  <2> DEFINE s == dispatch_input(msg)
  <2>1. <<lookup("reset", msg), lookup("callback", msg)>>
          \in Seq({lookup("reset", msg), lookup("callback", msg)})
    OBVIOUS
  <2>2. IsSeq(s) /\ Len(s) = 2 /\ s[1] = lookup("reset", msg) /\ s[2] = lookup("callback", msg)
    BY <2>1 DEF IsSeq, dispatch_input
  <2> HIDE DEF s
  <2>3. s[1].op = "reset" /\ s[2].op = "callback" /\ s[2].msg = msg
    BY <2>2 DEF lookup
  <2>4. \A i \in 1..Len(s) : i = 1 \/ i = 2
    BY <2>2
  <2>5. Deliver(s)
    BY <1>1 DEF s
  <2> QED BY <1>1, <2>2, <2>3, <2>4, <2>5, DeliverStep DEF StartsTimer
<1>2. ASSUME Deliver(fsm_emergency_off) PROVE IInv'
  <2> DEFINE s == fsm_emergency_off
  <2>1. /\ IsSeq(s) /\ Len(s) = 4
        /\ s[1] = Set("emergency", TRUE) /\ s[2] = Stop("inactivity")
        /\ s[3] = Op("go_home") /\ s[4] = Op("action")
    BY Four DEF fsm_emergency_off
  <2> HIDE DEF s
  <2>2. s[1].op = "set" /\ s[2].op = "stop" /\ s[3].op = "go_home" /\ s[4].op = "action"
    BY <2>1 DEF Set, Stop, Op
  <2>3. \A i \in 1..Len(s) : i = 1 \/ i = 2 \/ i = 3 \/ i = 4
    BY <2>1
  <2>4. Deliver(s)
    BY <1>2 DEF s
  <2> QED BY <2>1, <2>2, <2>3, <2>4, DeliverStep DEF StartsTimer
<1>3. CASE Tap
  BY <1>1, <1>3 DEF Tap, MessageTypes
<1>4. CASE HoldStart
  BY <1>1, <1>4 DEF HoldStart, MessageTypes
<1>5. CASE HoldRelease
  BY <1>1, <1>5 DEF HoldRelease, MessageTypes
<1>6. CASE Shutdown
  BY <1>2, <1>6 DEF Shutdown
<1> QED BY <1>3, <1>4, <1>5, <1>6

(* What the worker still has to do after its next statement.               *)
LEMMA WorkerTail ==
    ASSUME IInv, todo # <<>>
    PROVE  LET t == Tail(todo)
           IN  /\ Head(todo) = todo[1] /\ 1 \in 1..Len(todo)
               /\ IsSeq(t) /\ EntersAfterStop(t)
               /\ \A i \in 1..Len(t) : /\ ~StartsTimer(t[i])
                                       /\ t[i].op = "callback" => t[i].msg.type \in MessageTypes
               /\ t # <<>> => 1 \in 1..Len(t)
               /\ t # <<>> /\ t[1].op = "enter" => todo[1] = Stop("inactivity")
<1> DEFINE t == Tail(todo)
<1>1. /\ Head(todo) = todo[1] /\ Len(todo) \in Nat \ {0} /\ Len(t) = Len(todo) - 1
      /\ \A i \in 1..(Len(todo) - 1) : t[i] = todo[i + 1]
  BY Tails DEF IInv, WorkerInv
<1>2. /\ IsSeq(t) /\ EntersAfterStop(t)
      /\ t # <<>> => Len(t) \in Nat \ {0}
      /\ t # <<>> /\ t[1].op = "enter" => todo[1] = Stop("inactivity")
  BY TailOf DEF IInv, WorkerInv
<1> HIDE DEF t
<1>3. ASSUME NEW i \in 1..Len(t)
      PROVE  ~StartsTimer(t[i]) /\ (t[i].op = "callback" => t[i].msg.type \in MessageTypes)
  <2>1. t[i] = todo[i + 1] /\ i + 1 \in 2..Len(todo)
    BY <1>1
  <2> QED BY <2>1 DEF IInv, WorkerInv
<1> QED BY <1>1, <1>2, <1>3 DEF t

(* The worker looks a callback or a map up, or calls a routine.            *)
LEMMA WorkerCallsStep == ASSUME IInv, WorkerCalls PROVE IInv'
<1> DEFINE t == Tail(todo)
           b == Body(Head(todo))
           s == b \o t
<1>1. /\ isr = <<>> /\ todo # <<>> /\ Head(todo).op \in Calls /\ todo' = s
      /\ UNCHANGED <<current_node, home_node, timer, isr>>
  BY DEF WorkerCalls
<1>2. /\ Head(todo) = todo[1] /\ 1 \in 1..Len(todo)
      /\ IsSeq(t) /\ EntersAfterStop(t)
      /\ \A i \in 1..Len(t) : /\ ~StartsTimer(t[i])
                              /\ t[i].op = "callback" => t[i].msg.type \in MessageTypes
      /\ t # <<>> /\ t[1].op = "enter" => todo[1] = Stop("inactivity")
  BY <1>1, WorkerTail
<1>3. t # <<>> => t[1].op # "enter"
  BY <1>1, <1>2 DEF Calls, Stop
<1>4. IsBody(b)
  BY <1>1, <1>2, Bodies DEF IInv, WorkerInv
<1> HIDE DEF b, t
<1>5. /\ IsSeq(s) /\ EntersAfterStop(s)
      /\ s # <<>> => s[1].op # "enter"
      /\ \A i \in 1..Len(s) : \/ i \in 1..Len(b) /\ s[i] = b[i]
                              \/ \E j \in 1..Len(t) : s[i] = t[j]
  BY <1>2, <1>3, <1>4, BodyBefore
<1>6. b # <<>> => Len(b) \in Nat \ {0}
  BY <1>4, Tails DEF IsBody
<1>7. b = <<>> => Len(b) = 0
  BY None
<1> HIDE DEF s
<1>8. \A i \in 2..Len(s) : ~StartsTimer(s[i])
  BY <1>2, <1>4, <1>5 DEF IsBody
<1>9. \A i \in 1..Len(s) : s[i].op = "callback" => s[i].msg.type \in MessageTypes
  BY <1>2, <1>4, <1>5 DEF IsBody
<1>10. s # <<>> => Len(s) \in Nat \ {0}
  BY <1>5, Tails
<1>11. s # <<>> /\ StartsTimer(s[1]) => current_node \in MayRun
  <2> SUFFICES ASSUME s # <<>>, StartsTimer(s[1]) PROVE current_node \in MayRun
    OBVIOUS
  <2>1. 1 \in 1..Len(b) /\ s[1] = b[1]
    BY <1>2, <1>5, <1>10
  <2>2. b # <<>>
    BY <1>7, <2>1
  <2> QED BY <1>4, <2>1, <2>2 DEF IsBody, MayRun
<1>12. WorkerInv'
  BY <1>1, <1>5, <1>8, <1>9, <1>11, MayRunKept DEF WorkerInv
<1>13. TimerInv' /\ HandlerInv'
  BY <1>1, MayRunKept DEF IInv, TimerInv, HandlerInv, IsHandlers
<1> QED BY <1>12, <1>13 DEF IInv

(* One statement, in whichever context.                                    *)
LEMMA Executes ==
    ASSUME IInv, NEW o, Execute(o),
           o.op = "enter" => o.node \in MayRun \/ timer["inactivity"] = "stopped",
           StartsTimer(o) => current_node \in MayRun
    PROVE  /\ TimerInv'
           /\ o = Stop("inactivity") => timer'["inactivity"] = "stopped"
           /\ o.op # "enter" => current_node' \in {current_node, home_node}
           /\ o.op = "enter" => current_node' = o.node
           /\ UNCHANGED home_node
<1>1. /\ timer' = TimerAfter(o) /\ current_node' = NodeAfter(o) /\ home_node' = home_node
  BY DEF Execute
<1>2. MayRun' = MayRun /\ home_node \in MayRun /\ TimedNodes \subseteq MayRun
  BY <1>1, MayRunKept DEF MayRun
<1>3. timer \in [Timers -> {"stopped", "running", "due"}] /\ "inactivity" \in Timers
      /\ (timer["inactivity"] # "stopped" => current_node \in MayRun)
  BY DEF IInv, TimerInv, Timers
<1>4. o.op # "enter" => current_node' \in {current_node, home_node}
  BY <1>1 DEF NodeAfter
<1>5. CASE o.op = "start"
  <2>1. timer' = [timer EXCEPT ![o.timer] = "running"] /\ current_node' = current_node
    BY <1>1, <1>5 DEF TimerAfter, NodeAfter
  <2>2. timer'["inactivity"] # "stopped" => current_node \in MayRun
    BY <1>3, <1>5, <2>1 DEF StartsTimer
  <2>3. timer' \in [Timers -> {"stopped", "running", "due"}]
    BY <1>3, <2>1
  <2>4. o # Stop("inactivity")
    BY <1>5 DEF Stop
  <2> QED BY <1>1, <1>2, <1>4, <1>5, <2>1, <2>2, <2>3, <2>4 DEF TimerInv
<1>6. CASE o.op = "stop"
  <2>1. timer' = [timer EXCEPT ![o.timer] = "stopped"] /\ current_node' = current_node
    BY <1>1, <1>6 DEF TimerAfter, NodeAfter
  <2>2. timer'["inactivity"] # "stopped" => current_node \in MayRun
    BY <1>3, <2>1
  <2>3. o = Stop("inactivity") => timer'["inactivity"] = "stopped"
    BY <1>3, <2>1 DEF Stop
  <2> QED BY <1>1, <1>2, <1>3, <1>4, <1>6, <2>1, <2>2, <2>3 DEF TimerInv
<1>7. CASE o.op = "arm"
  <2>1. current_node' = current_node
    BY <1>1, <1>7 DEF NodeAfter
  <2>2. CASE current_node \in TimedNodes
    <3>1. timer' = [timer EXCEPT !["inactivity"] = "running"]
      BY <1>1, <1>7, <2>2 DEF TimerAfter
    <3> QED BY <1>1, <1>2, <1>3, <1>4, <1>7, <2>1, <2>2, <3>1 DEF TimerInv, Stop
  <2>3. CASE current_node \notin TimedNodes
    <3>1. timer' = timer
      BY <1>1, <1>7, <2>3 DEF TimerAfter
    <3> QED BY <1>1, <1>2, <1>3, <1>4, <1>7, <2>1, <3>1 DEF TimerInv, Stop
  <2> QED BY <2>2, <2>3
<1>8. CASE o.op \notin {"start", "stop", "arm"}
  <2>1. timer' = timer
    BY <1>1, <1>8 DEF TimerAfter
  <2>2. o.op = "enter" => current_node' = o.node
    BY <1>1 DEF NodeAfter
  <2>3. o # Stop("inactivity")
    BY <1>8 DEF Stop
  <2> QED BY <1>1, <1>2, <1>3, <1>4, <1>8, <2>1, <2>2, <2>3 DEF TimerInv
<1> QED BY <1>5, <1>6, <1>7, <1>8

(* The worker executes a statement.                                        *)
LEMMA WorkerExecutesStep == ASSUME IInv, WorkerExecutes PROVE IInv'
<1> DEFINE t == Tail(todo)
<1>1. isr = <<>> /\ todo # <<>> /\ todo' = t /\ Execute(Head(todo)) /\ UNCHANGED isr
  BY DEF WorkerExecutes
<1>2. /\ Head(todo) = todo[1] /\ 1 \in 1..Len(todo)
      /\ IsSeq(t) /\ EntersAfterStop(t)
      /\ \A i \in 1..Len(t) : /\ ~StartsTimer(t[i])
                              /\ t[i].op = "callback" => t[i].msg.type \in MessageTypes
      /\ t # <<>> => 1 \in 1..Len(t)
      /\ t # <<>> /\ t[1].op = "enter" => todo[1] = Stop("inactivity")
  BY <1>1, WorkerTail
<1> HIDE DEF t
<1>3. /\ todo[1].op = "enter" => timer["inactivity"] = "stopped"
      /\ StartsTimer(todo[1]) => current_node \in MayRun
  BY <1>1 DEF IInv, WorkerInv
<1>4. TimerInv' /\ (todo[1] = Stop("inactivity") => timer'["inactivity"] = "stopped")
  BY <1>1, <1>2, <1>3, Executes
<1>5. WorkerInv'
  <2>1. \A i \in 2..Len(t) : ~StartsTimer(t[i])
    BY <1>2
  <2>2. t # <<>> => ~StartsTimer(t[1])
    BY <1>2
  <2> QED BY <1>1, <1>2, <1>4, <2>1, <2>2 DEF WorkerInv
<1>6. HandlerInv'
  BY <1>1, None DEF HandlerInv, EntersAfterStop
<1> QED BY <1>4, <1>5, <1>6 DEF IInv

-----------------------------------------------------------------------------
(* The timer interrupt.                                                    *)

(* The worker's next statement assigns a node only with the timer stopped, *)
(* so nothing expires there.                                               *)
LEMMA PassesStep == ASSUME IInv, InactivityPasses PROVE IInv'
<1>1. /\ isr = <<>> /\ timer["inactivity"] = "running"
      /\ timer' = [timer EXCEPT !["inactivity"] = "due"]
      /\ UNCHANGED <<current_node, home_node, todo, isr>>
  BY DEF InactivityPasses
<1>2. TimerInv'
  BY <1>1, MayRunKept DEF IInv, TimerInv
<1>3. WorkerInv'
  BY <1>1, MayRunKept DEF IInv, WorkerInv
<1>4. HandlerInv'
  BY <1>1, None DEF HandlerInv, EntersAfterStop
<1> QED BY <1>2, <1>3, <1>4 DEF IInv

(* The inactivity handler is called: it goes home or where a menu ends.    *)
LEMMA HandlerStep == ASSUME IInv, inactivity_timer_handler PROVE IInv'
<1> DEFINE node == IF timeout_node(current_node) # NULL THEN timeout_node(current_node)
                                                        ELSE home_node
<1>1. /\ isr = <<>> /\ timer["inactivity"] = "due"
      /\ timer' = [timer EXCEPT !["inactivity"] = "stopped"]
      /\ isr' = Then(node)
      /\ UNCHANGED <<current_node, home_node, todo>>
  BY DEF inactivity_timer_handler
<1>2. node \in MayRun
  <2>1. timeout_node(current_node) # NULL => current_node \in TimedNodes
    BY DEF timeout_node, TimedNodes
  <2> QED BY <2>1 DEF MayRun
<1> HIDE DEF node
<1>3. TimerInv'
  BY <1>1 DEF IInv, TimerInv, Timers
<1>4. WorkerInv'
  <2>1. timer["inactivity"] # "stopped"
    BY <1>1
  <2> QED BY <1>1, <2>1, MayRunKept DEF IInv, WorkerInv
<1>5. HandlerInv'
  <2>1. CASE node = NULL
    BY <1>1, <2>1, None DEF Then, HandlerInv, EntersAfterStop
  <2>2. CASE node # NULL
    <3>1. isr' = <<transition_to(node)>>
      BY <1>1, <2>2 DEF Then
    <3> DEFINE s == <<transition_to(node)>>
    <3>2. IsSeq(s) /\ Len(s) = 1 /\ s[1] = transition_to(node)
      BY One
    <3>3. isr' = s
      BY <3>1
    <3> HIDE DEF s
    <3>4. s[1].op = "transition" /\ s[1].node = node
      BY <3>2 DEF transition_to
    <3>5. IsHandlers(s[1])
      BY <1>2, <3>4 DEF IsHandlers, StartsTimer
    <3>6. \A i \in 1..Len(s) : IsHandlers(s[i])
      BY <3>2, <3>5
    <3>7. EntersAfterStop(s) /\ s[1].op # "enter"
      BY <3>2, <3>4 DEF EntersAfterStop
    <3> QED BY <1>1, <3>2, <3>3, <3>6, <3>7, MayRunKept DEF HandlerInv, IsHandlers
  <2> QED BY <2>1, <2>2
<1> QED BY <1>3, <1>4, <1>5 DEF IInv

(* What the handler still has to do after its next statement.              *)
LEMMA HandlerTail ==
    ASSUME IInv, isr # <<>>
    PROVE  LET t == Tail(isr)
           IN  /\ Head(isr) = isr[1] /\ IsHandlers(isr[1])
               /\ IsSeq(t) /\ EntersAfterStop(t)
               /\ \A i \in 1..Len(t) : IsHandlers(t[i])
               /\ t # <<>> /\ t[1].op = "enter" => isr[1] = Stop("inactivity")
<1> DEFINE t == Tail(isr)
<1>1. /\ Head(isr) = isr[1] /\ Len(isr) \in Nat \ {0} /\ Len(t) = Len(isr) - 1
      /\ \A i \in 1..(Len(isr) - 1) : t[i] = isr[i + 1]
  BY Tails DEF IInv, HandlerInv
<1>2. /\ IsSeq(t) /\ EntersAfterStop(t)
      /\ t # <<>> /\ t[1].op = "enter" => isr[1] = Stop("inactivity")
  BY TailOf DEF IInv, HandlerInv
<1> HIDE DEF t
<1>3. ASSUME NEW i \in 1..Len(t) PROVE IsHandlers(t[i])
  <2>1. t[i] = isr[i + 1] /\ i + 1 \in 1..Len(isr)
    BY <1>1
  <2> QED BY <2>1 DEF IInv, HandlerInv
<1>4. IsHandlers(isr[1])
  BY <1>1 DEF IInv, HandlerInv
<1> QED BY <1>1, <1>2, <1>3, <1>4 DEF t

(* The handler navigates only where it was sent.                           *)
LEMMA HandlersBody ==
    ASSUME NEW o, IsHandlers(o), o.op \in Calls
    PROVE  \A i \in 1..Len(Body(o)) : IsHandlers(Body(o)[i])
<1>1. CASE o.op = "transition"
  <2> DEFINE s == fsm_transition_to(o.node)
  <2>1. /\ Len(s) = 4
        /\ s[1] = Stop("inactivity") /\ s[2] = [op |-> "enter", node |-> o.node]
        /\ s[3] = Op("action") /\ s[4] = Op("arm")
    BY Four DEF fsm_transition_to
  <2>2. Body(o) = s
    BY <1>1 DEF Body
  <2> HIDE DEF s
  <2>3. \A i \in 1..Len(s) : i = 1 \/ i = 2 \/ i = 3 \/ i = 4
    BY <2>1
  <2>4. IsHandlers(s[1]) /\ IsHandlers(s[3]) /\ IsHandlers(s[4])
    BY <2>1 DEF IsHandlers, Stop, Op, StartsTimer, PlainOps
  <2>5. IsHandlers(s[2])
    BY <1>1, <2>1 DEF IsHandlers, StartsTimer
  <2> QED BY <2>2, <2>3, <2>4, <2>5
<1>2. CASE o.op = "action"
  <2>1. Body(o) = Action(action_routine(current_node))
    BY <1>2 DEF Body
  <2>2. Plain(Body(o))
    BY <2>1, ActionPlain
  <2> QED BY <2>2 DEF Plain, IsPlain, IsHandlers, PlainOps
<1>3. o.op \in {"transition", "action"}
  BY DEF IsHandlers, PlainOps, Calls
<1> QED BY <1>1, <1>2, <1>3

(* The handler calls fsm_transition_to and the action routine.             *)
LEMMA IsrCallsStep == ASSUME IInv, IsrCalls PROVE IInv'
<1> DEFINE t == Tail(isr)
           b == Body(Head(isr))
           s == b \o t
<1>1. /\ isr # <<>> /\ Head(isr).op \in Calls /\ isr' = s
      /\ UNCHANGED <<current_node, home_node, timer, todo>>
  BY DEF IsrCalls
<1>2. /\ Head(isr) = isr[1] /\ IsHandlers(isr[1])
      /\ IsSeq(t) /\ EntersAfterStop(t)
      /\ \A i \in 1..Len(t) : IsHandlers(t[i])
      /\ t # <<>> /\ t[1].op = "enter" => isr[1] = Stop("inactivity")
  BY <1>1, HandlerTail
<1>3. t # <<>> => t[1].op # "enter"
  BY <1>1, <1>2 DEF Calls, Stop
<1>4. Head(isr).op # "callback"
  BY <1>2 DEF IsHandlers, PlainOps
<1>5. IsBody(b) /\ \A i \in 1..Len(b) : IsHandlers(b[i])
  BY <1>1, <1>2, <1>4, Bodies, HandlersBody
<1> HIDE DEF b, t
<1>6. /\ IsSeq(s) /\ EntersAfterStop(s)
      /\ s # <<>> => s[1].op # "enter"
      /\ \A i \in 1..Len(s) : \/ i \in 1..Len(b) /\ s[i] = b[i]
                              \/ \E j \in 1..Len(t) : s[i] = t[j]
  BY <1>2, <1>3, <1>5, BodyBefore
<1> HIDE DEF s
<1>7. \A i \in 1..Len(s) : IsHandlers(s[i])
  BY <1>2, <1>5, <1>6
<1>8. HandlerInv'
  BY <1>1, <1>6, <1>7, MayRunKept DEF HandlerInv, IsHandlers
<1>9. TimerInv'
  BY <1>1, MayRunKept DEF IInv, TimerInv
<1>10. WorkerInv'
  BY <1>1, MayRunKept DEF IInv, WorkerInv
<1> QED BY <1>8, <1>9, <1>10 DEF IInv

(* The handler executes a statement, while the worker waits.               *)
LEMMA IsrExecutesStep == ASSUME IInv, IsrExecutes PROVE IInv'
<1> DEFINE t == Tail(isr)
<1>1. /\ isr # <<>> /\ isr' = t /\ Execute(Head(isr)) /\ UNCHANGED todo
  BY DEF IsrExecutes
<1>2. /\ Head(isr) = isr[1] /\ IsHandlers(isr[1])
      /\ IsSeq(t) /\ EntersAfterStop(t)
      /\ \A i \in 1..Len(t) : IsHandlers(t[i])
      /\ t # <<>> /\ t[1].op = "enter" => isr[1] = Stop("inactivity")
  BY <1>1, HandlerTail
<1> HIDE DEF t
<1>3. /\ TimerInv'
      /\ isr[1] = Stop("inactivity") => timer'["inactivity"] = "stopped"
      /\ isr[1].op # "enter" => current_node' \in {current_node, home_node}
      /\ isr[1].op = "enter" => current_node' = isr[1].node
      /\ UNCHANGED home_node
  BY <1>1, <1>2, Executes DEF IsHandlers
<1>4. HandlerInv'
  BY <1>1, <1>2, <1>3, MayRunKept DEF HandlerInv, IsHandlers
<1>5. WorkerInv'
  <2>1. todo # <<>> => todo[1].op # "enter"
    BY <1>1 DEF IInv, WorkerInv
  <2>2. current_node \in MayRun => current_node' \in MayRun'
    BY <1>2, <1>3, MayRunKept DEF IsHandlers, MayRun
  <2> QED BY <1>1, <2>1, <2>2 DEF IInv, WorkerInv
<1> QED BY <1>3, <1>4, <1>5 DEF IInv

(* The other handlers write the light, not the nodes.                      *)
LEMMA Stutters ==
    ASSUME IInv, UNCHANGED <<current_node, home_node, timer, todo, isr>>
    PROVE  IInv'
<1>1. TimerInv'
  BY MayRunKept DEF IInv, TimerInv
<1>2. WorkerInv'
  BY MayRunKept DEF IInv, WorkerInv
<1>3. HandlerInv'
  BY MayRunKept DEF IInv, HandlerInv, IsHandlers
<1> QED BY <1>1, <1>2, <1>3 DEF IInv

(* What the worker and the handler may rely on of each other, for every    *)
(* table of levels and every set of click counts: neither gets between the *)
(* other's stopping of the timer and its change of the node.               *)
THEOREM Invariance == Spec => []IInv
<1>1. Init => IInv
  <2> SUFFICES ASSUME Init PROVE IInv
    OBVIOUS
  <2>1. /\ timer = [t \in Timers |-> "stopped"] /\ isr = <<>>
        /\ todo = <<transition_to(home_node)>>
    BY DEF Init
  <2>2. TimerInv
    BY <2>1 DEF TimerInv, Timers
  <2>3. WorkerInv
    BY <2>1, One DEF WorkerInv, EntersAfterStop, transition_to, StartsTimer
  <2>4. HandlerInv
    BY <2>1, None DEF HandlerInv, EntersAfterStop
  <2> QED BY <2>2, <2>3, <2>4 DEF IInv
<1>2. IInv /\ [Next]_vars => IInv'
  <2> SUFFICES ASSUME IInv, [Next]_vars PROVE IInv'
    OBVIOUS
  <2>1. CASE Tap \/ HoldStart \/ HoldRelease \/ Shutdown
    BY <2>1, InputStep
  <2>2. CASE WorkerCalls
    BY <2>2, WorkerCallsStep
  <2>3. CASE WorkerExecutes
    BY <2>3, WorkerExecutesStep
  <2>4. CASE WorkerReboots \/ WorkerCrashes \/ IsrCrashes
    BY <2>4, RebootStep DEF WorkerReboots, WorkerCrashes, IsrCrashes
  <2>5. CASE InactivityPasses
    BY <2>5, PassesStep
  <2>6. CASE inactivity_timer_handler
    BY <2>6, HandlerStep
  <2>7. CASE IsrCalls
    BY <2>7, IsrCallsStep
  <2>8. CASE IsrExecutes
    BY <2>8, IsrExecutesStep
  <2>9. CASE thermal_timer_handler \/ ramp_timer_handler
             \/ strobe_timer_handler \/ buzz_timer_handler
    <3>1. UNCHANGED <<current_node, home_node, timer, todo, isr>>
      BY <2>9 DEF thermal_timer_handler, ramp_timer_handler, strobe_timer_handler,
                  buzz_timer_handler, Expires
    <3> QED BY <3>1, Stutters
  <2>10. CASE UNCHANGED vars
    BY <2>10, Stutters DEF vars
  <2> QED
    BY <2>1, <2>2, <2>3, <2>4, <2>5, <2>6, <2>7, <2>8, <2>9, <2>10 DEF Next
<1> QED BY <1>1, <1>2, PTL DEF Spec

(* An inactivity timer that is left running belongs to a menu, to home or  *)
(* to where a menu ends, whenever a click, a timeout and a shutdown meet.  *)
THEOREM TimeoutCorrect == Spec => []TimeoutHasItsNode
<1>1. IInv => TimeoutHasItsNode
  <2> SUFFICES ASSUME IInv, timer["inactivity"] # "stopped" PROVE current_node \in MayRun
    BY DEF TimeoutHasItsNode, MayRun
  <2> QED BY DEF IInv, TimerInv
<1> QED BY <1>1, Invariance, PTL

-----------------------------------------------------------------------------
(* What is pending.  For most of what follows only the set of statements   *)
(* still to run matters, not their order.                                  *)
Ops(s) == {s[i] : i \in 1..Len(s)}

(* The statements of two sequences, of a sequence and what is left of it,  *)
(* and of the short ones.                                                  *)
LEMMA OpsJoin ==
    ASSUME NEW s, NEW t, IsSeq(s), IsSeq(t) PROVE Ops(s \o t) = Ops(s) \cup Ops(t)
<1> DEFINE u == s \o t
<1>1. /\ Len(s) \in Nat /\ Len(t) \in Nat /\ Len(u) = Len(s) + Len(t)
      /\ \A i \in 1..(Len(s) + Len(t)) : u[i] = IF i <= Len(s) THEN s[i] ELSE t[i - Len(s)]
  BY Joins
<1> HIDE DEF u
<1>2. ASSUME NEW i \in 1..Len(u) PROVE u[i] \in Ops(s) \cup Ops(t)
  <2>1. CASE i <= Len(s)
    BY <1>1, <2>1 DEF Ops
  <2>2. CASE i > Len(s)
    BY <1>1, <2>2 DEF Ops
  <2> QED BY <1>1, <2>1, <2>2
<1>3. ASSUME NEW i \in 1..Len(s) PROVE s[i] \in Ops(u)
  <2>1. i \in 1..Len(u) /\ u[i] = s[i]
    BY <1>1
  <2> QED BY <2>1 DEF Ops
<1>4. ASSUME NEW i \in 1..Len(t) PROVE t[i] \in Ops(u)
  <2>1. i + Len(s) \in 1..Len(u) /\ u[i + Len(s)] = t[i]
    BY <1>1
  <2> QED BY <2>1 DEF Ops
<1>5. Ops(u) = Ops(s) \cup Ops(t)
  BY <1>2, <1>3, <1>4 DEF Ops
<1> QED BY <1>5 DEF u

(* The first statement and what is left.                                   *)
LEMMA OpsTail ==
    ASSUME NEW s, IsSeq(s), s # <<>>
    PROVE  Ops(s) = {Head(s)} \cup Ops(Tail(s))
BY DEF IsSeq, Ops

(* The statements of the shortest sequences.                               *)
LEMMA OpsShort ==
    /\ Ops(<<>>) = {}
    /\ \A a : Ops(<<a>>) = {a}
    /\ \A a, b : Ops(<<a, b>>) = {a, b}
    /\ \A a, b, c : Ops(<<a, b, c>>) = {a, b, c}
    /\ \A a, b, c, d : Ops(<<a, b, c, d>>) = {a, b, c, d}
BY DEF Ops

(* The shortest sequences taken apart.                                     *)
LEMMA Short ==
    /\ IsSeq(<<>>)
    /\ \A a : IsSeq(<<a>>) /\ Head(<<a>>) = a /\ Tail(<<a>>) = <<>> /\ <<a>> # <<>>
    /\ \A a, b : /\ IsSeq(<<a, b>>) /\ Head(<<a, b>>) = a /\ Tail(<<a, b>>) = <<b>>
                 /\ <<a, b>> # <<>>
    /\ \A a, b, c : /\ IsSeq(<<a, b, c>>) /\ Head(<<a, b, c>>) = a
                    /\ Tail(<<a, b, c>>) = <<b, c>> /\ <<a, b, c>> # <<>>
    /\ \A a, b, c, d : /\ IsSeq(<<a, b, c, d>>) /\ Head(<<a, b, c, d>>) = a
                       /\ Tail(<<a, b, c, d>>) = <<b, c, d>> /\ <<a, b, c, d>> # <<>>
<1>1. IsSeq(<<>>)
  BY None
<1>2. \A a : IsSeq(<<a>>)
  BY One
<1>3. ASSUME NEW a, NEW b PROVE IsSeq(<<a, b>>)
  <2>1. <<a, b>> \in Seq({a, b})
    OBVIOUS
  <2> QED BY <2>1 DEF IsSeq
<1>4. ASSUME NEW a, NEW b, NEW c PROVE IsSeq(<<a, b, c>>)
  <2>1. <<a, b, c>> \in Seq({a, b, c})
    OBVIOUS
  <2> QED BY <2>1 DEF IsSeq
<1>5. \A a, b, c, d : IsSeq(<<a, b, c, d>>)
  BY Four
<1> QED BY <1>1, <1>2, <1>3, <1>4, <1>5

(* Nothing joined to a sequence is that sequence.                          *)
LEMMA JoinShort ==
    /\ <<>> \o <<>> = <<>>
    /\ \A s : IsSeq(s) => s \o <<>> = s /\ <<>> \o s = s
<1>1. ASSUME NEW s, IsSeq(s) PROVE s \o <<>> = s /\ <<>> \o s = s
  <2>1. PICK S : s \in Seq(S)
    BY <1>1 DEF IsSeq
  <2> QED BY <2>1
<1> QED BY <1>1, None

-----------------------------------------------------------------------------
(* The shapes of what a context still has to do.                           *)

Enter(node) == [op |-> "enter", node |-> node]

(* The rest of a routine, a call after it at most, or the end of           *)
(* fsm_transition_to.                                                      *)
IsLast(o) ==
    \/ o.op \in {"map", "arm"}
    \/ o.op = "transition" /\ o.node \in Nodes

Loose(s) ==
    /\ IsSeq(s)
    /\ \A i \in 1..Len(s) : IsPlain(s[i]) \/ (i = Len(s) /\ IsLast(s[i]))

(* A message: its node is looked up after its timer is restarted.          *)
Dispatching(s) ==
    \E m : s \in {<<lookup("reset", m), lookup("callback", m)>>,
                  <<Start("inactivity"), lookup("callback", m)>>,
                  <<lookup("callback", m)>>}

(* A transition and a shutdown, up to the action routine.                  *)
Entering(node) == <<Enter(node), Op("action"), Op("arm")>>
Going(s) == \E node \in Nodes : s \in {fsm_transition_to(node), Entering(node)}

Homing(s) ==
    s \in {fsm_emergency_off, <<Stop("inactivity"), Op("go_home"), Op("action")>>,
           <<Op("go_home"), Op("action")>>}

Acting(s) == s \in {<<Op("action"), Op("arm")>>, <<Op("action")>>}

Shape(s) == Loose(s) \/ Dispatching(s) \/ Going(s) \/ Homing(s) \/ Acting(s)

(* Between the worker's stop of the timer and its action routine nothing   *)
(* expires; and the handler is only in progress where it may run.          *)
Undisturbed == isr = <<>> /\ timer["inactivity"] = "stopped"

ShapeInv ==
    /\ Shape(todo) /\ Shape(isr)
    /\ todo # <<>> /\ todo[1].op \in {"enter", "go_home"} => Undisturbed
    /\ Acting(todo) => Undisturbed
    /\ isr # <<>> => current_node \in MayRun

(* Rests and joins.                                                        *)
LEMMA LoosePlain == ASSUME NEW s, Plain(s) PROVE Loose(s)
BY DEF Plain, Loose

(* One statement is loose.                                                 *)
LEMMA LooseOne == ASSUME NEW o, IsPlain(o) \/ IsLast(o) PROVE Loose(<<o>>)
BY One DEF Loose

(* Plain statements before loose ones are loose.                           *)
LEMMA LooseJoin == ASSUME NEW s, Plain(s), NEW t, Loose(t) PROVE Loose(s \o t)
<1> DEFINE u == s \o t
<1>1. /\ IsSeq(u) /\ Len(s) \in Nat /\ Len(t) \in Nat /\ Len(u) = Len(s) + Len(t)
      /\ \A i \in 1..(Len(s) + Len(t)) : u[i] = IF i <= Len(s) THEN s[i] ELSE t[i - Len(s)]
  BY Joins DEF Plain, Loose
<1> HIDE DEF u
<1>2. ASSUME NEW i \in 1..Len(u) PROVE IsPlain(u[i]) \/ (i = Len(u) /\ IsLast(u[i]))
  <2>1. CASE i <= Len(s)
    BY <1>1, <2>1 DEF Plain
  <2>2. CASE i > Len(s)
    <3>1. i - Len(s) \in 1..Len(t) /\ u[i] = t[i - Len(s)] /\ (i - Len(s) = Len(t) => i = Len(u))
      BY <1>1, <2>2
    <3> QED BY <3>1 DEF Loose
  <2> QED BY <1>1, <2>1, <2>2
<1>3. Loose(u)
  BY <1>1, <1>2 DEF Loose
<1> QED BY <1>3 DEF u

(* What follows a plain statement is loose; what is no plain one is last.  *)
LEMMA LooseTail ==
    ASSUME NEW s, Loose(s), s # <<>>
    PROVE  /\ Loose(Tail(s))
           /\ IsPlain(Head(s)) \/ (IsLast(Head(s)) /\ s = <<Head(s)>>)
<1> DEFINE t == Tail(s)
<1>1. /\ IsSeq(s) /\ IsSeq(t) /\ Head(s) = s[1]
      /\ Len(s) \in Nat \ {0} /\ Len(t) = Len(s) - 1
      /\ \A i \in 1..(Len(s) - 1) : t[i] = s[i + 1]
  BY Tails DEF Loose
<1> HIDE DEF t
<1>2. ASSUME NEW i \in 1..Len(t) PROVE IsPlain(t[i]) \/ (i = Len(t) /\ IsLast(t[i]))
  <2>1. t[i] = s[i + 1] /\ i + 1 \in 1..Len(s) /\ (i + 1 = Len(s) => i = Len(t))
    BY <1>1
  <2> QED BY <2>1 DEF Loose
<1>3. Loose(t)
  BY <1>1, <1>2 DEF Loose
<1>4. IsPlain(s[1]) \/ (Len(s) = 1 /\ IsLast(s[1]))
  <2>1. 1 \in 1..Len(s)
    BY <1>1
  <2> QED BY <2>1 DEF Loose
<1>5. Len(s) = 1 => s = <<s[1]>>
  <2>1. PICK S : s \in Seq(S)
    BY <1>1 DEF IsSeq
  <2> QED BY <2>1
<1> QED BY <1>1, <1>3, <1>4, <1>5 DEF t

-----------------------------------------------------------------------------
(* The node tables.                                                        *)

(* Where n clicks lead.                                                    *)
LEMMA ClickTable ==
    ASSUME NEW node, NEW n
    PROVE  LET next == At(click_map(node), n)
           IN  /\ next \in Nodes \cup {NULL}
               /\ next \notin RampNodes \cup {"adv_strobe", "adv_config_floor", "adv_config_ceiling"}
               /\ node = "adv_strobe" => next \in {"adv_off", NULL}
<1> DEFINE next == At(click_map(node), n)
<1>1. ASSUME node \in SimpleNodes
      PROVE  next \in {"simple_off", "simple_on", "simple_turbo", "simple_lockout",
                       "simple_battcheck", NULL}
  <2>1. click_map(node) = simple_click_map(node)
    BY <1>1 DEF click_map
  <2>2. CASE node = "simple_off"
    BY <2>1, <2>2 DEF At, simple_click_map
  <2>3. CASE node = "simple_on"
    BY <2>1, <2>3 DEF At, simple_click_map
  <2>4. CASE node = "simple_turbo"
    BY <2>1, <2>4 DEF At, simple_click_map
  <2>5. CASE node = "simple_lockout"
    BY <2>1, <2>5 DEF At, simple_click_map
  <2>6. CASE node \in {"simple_ramp", "simple_battcheck"}
    BY <2>1, <2>6 DEF At, simple_click_map
  <2> QED BY <1>1, <2>2, <2>3, <2>4, <2>5, <2>6 DEF SimpleNodes
<1>2. ASSUME node \notin SimpleNodes
      PROVE  /\ next \in {"adv_off", "adv_on", "adv_turbo", "adv_lockout", "adv_battcheck",
                          "adv_tempcheck", "adv_reset", "adv_aux_config", NULL}
             /\ node = "adv_strobe" => next \in {"adv_off", NULL}
  <2>1. click_map(node) = adv_click_map(node)
    BY <1>2 DEF click_map
  <2>2. CASE node = "adv_off"
    BY <2>1, <2>2 DEF At, adv_click_map
  <2>3. CASE node = "adv_on"
    BY <2>1, <2>3 DEF At, adv_click_map
  <2>4. CASE node = "adv_turbo"
    BY <2>1, <2>4 DEF At, adv_click_map
  <2>5. CASE node = "adv_lockout"
    BY <2>1, <2>5 DEF At, adv_click_map
  <2>6. CASE node \in {"adv_battcheck", "adv_tempcheck"}
    BY <2>1, <2>6 DEF At, adv_click_map
  <2>7. CASE node \in {"adv_ramp", "adv_strobe"}
    BY <2>1, <2>7 DEF At, adv_click_map
  <2>8. CASE node = "adv_aux_config"
    BY <2>1, <2>8 DEF At, adv_click_map
  <2>9. CASE node \notin {"adv_off", "adv_on", "adv_turbo", "adv_lockout", "adv_battcheck",
                          "adv_tempcheck", "adv_ramp", "adv_strobe", "adv_aux_config"}
    BY <2>1, <2>9 DEF At, adv_click_map
  <2> QED BY <2>2, <2>3, <2>4, <2>5, <2>6, <2>7, <2>8, <2>9
<1> HIDE DEF next
<1>3. /\ next \in Nodes \cup {NULL}
      /\ next \notin RampNodes \cup {"adv_strobe", "adv_config_floor", "adv_config_ceiling"}
      /\ node = "adv_strobe" => next \in {"adv_off", NULL}
  BY <1>1, <1>2 DEF Nodes, SimpleNodes, AdvancedNodes, RampNodes, NULL
<1> QED BY <1>3 DEF next

(* Where n clicks with the last one held lead.                             *)
LEMMA HoldTable ==
    ASSUME NEW node, NEW n
    PROVE  LET next == At(hold_map(node), n)
           IN  /\ next \in Nodes \cup {NULL}
               /\ next # "adv_config_ceiling"
               /\ next = "adv_config_floor" => n = 7
               /\ node \in RampNodes \cup {"adv_strobe"} => next = NULL
               /\ n = 1 /\ node \in OnNodes \cup OffNodes => next \in RampNodes
               /\ n = 2 /\ node \in OnNodes => next \in RampNodes
<1> DEFINE next == At(hold_map(node), n)
<1> USE DEF At, hold_map, simple_hold_map, adv_hold_map
<1>1. CASE node = "simple_off"
  <2>1. /\ next \in {"simple_ramp", "simple_turbo", NULL}
        /\ n = 1 => next = "simple_ramp"
    BY <1>1 DEF SimpleNodes
  <2> QED BY <1>1, <2>1 DEF Nodes, SimpleNodes, RampNodes, OnNodes, NULL
<1>2. CASE node = "simple_on"
  <2>1. /\ next \in {"simple_ramp", NULL}
        /\ n = 1 \/ n = 2 => next = "simple_ramp"
    BY <1>2 DEF SimpleNodes
  <2> QED BY <1>2, <2>1 DEF Nodes, SimpleNodes, RampNodes, NULL
<1>3. CASE node = "adv_off"
  <2>1. /\ next \in {"adv_ramp", "adv_strobe", NULL}
        /\ n = 1 => next = "adv_ramp"
    BY <1>3 DEF SimpleNodes
  <2> QED BY <1>3, <2>1 DEF Nodes, AdvancedNodes, RampNodes, OnNodes, NULL
<1>4. CASE node = "adv_on"
  <2>1. /\ next \in {"adv_ramp", "adv_config_floor", NULL}
        /\ next = "adv_config_floor" => n = 7
        /\ n = 1 \/ n = 2 => next = "adv_ramp"
    BY <1>4 DEF SimpleNodes, NULL
  <2> QED BY <1>4, <2>1 DEF Nodes, AdvancedNodes, RampNodes, NULL
<1>5. CASE node \notin OnNodes \cup OffNodes
  <2>1. next \in {"adv_cal_voltage", "adv_cal_thermal_current", NULL}
    BY <1>5 DEF SimpleNodes, OnNodes, OffNodes
  <2>2. next # NULL => node \in {"adv_battcheck", "adv_tempcheck"}
    BY <1>5 DEF SimpleNodes, OnNodes, OffNodes
  <2> QED BY <1>5, <2>1, <2>2 DEF Nodes, AdvancedNodes, RampNodes, NULL
<1> QED BY <1>1, <1>2, <1>3, <1>4, <1>5 DEF OnNodes, OffNodes

-----------------------------------------------------------------------------
(* What the routines consist of.                                           *)

RampOn    == Set("ramp_active", TRUE)
StrobeLit == Set("strobe_on", TRUE)
Emergency == Set("emergency", TRUE)

(* What the routines of the nodes' entries and exits are made of.          *)
LEMMA RoutineOps ==
    /\ Ops(stop_ramping) = {Stop("ramp"), Op("save_memory")}
    /\ \A dir : Ops(start_ramping(dir)) =
          {Set("ramp_direction", dir), RampOn, Start("ramp")}
    /\ Ops(action_off) = {Stop("ramp"), Op("save_memory"), Led(0), Stop("thermal"),
                          Stop("strobe"), Suspend}
    /\ Ops(action_on) = {Resume, Start("thermal"), Stop("ramp"), Op("save_memory"),
                         Op("level_on"), LedBrightness}
    /\ Ops(action_moon) = {Resume, Stop("strobe"), Op("level_floor"), LedBrightness}
    /\ Ops(action_strobe) = {Stop("ramp"), Op("save_memory"), Set("active_param", "FREQUENCY"),
                             Start("strobe"), Led(MaxLevel), StrobeLit}
    /\ Ops(action_strobe_next) = {Op("next_strobe"), Stop("strobe"), Op("strobe_entry"), Resume,
                                  Start("strobe")}
    /\ Ops(action_aux_config) = {Led(MaxLevel), Sleep, Led(ui.brightness)}
    /\ Ops(action_toggle_ramp_style) = {Op("toggle_style"), Led(0), Sleep, Led(ui.brightness)}
    /\ Ops(action_turbo) = {Resume, Stop("ramp"), Op("save_memory"), Op("level_ceiling"),
                            LedBrightness}
    /\ Ops(action_lockout) = {Stop("ramp"), Op("save_memory"), Led(0)}
    /\ Ops(action_battcheck) = {Stop("ramp"), Op("save_memory"), Led(100), Sleep, Led(0)}
    /\ Ops(action_factory_reset) = {Stop("ramp"), Op("save_memory"), Op("reboot")}
    /\ Ops(action_config_floor) = {Start("buzz")}
<1> USE OpsShort, Short
<1>1. IsSeq(stop_ramping) /\ Ops(stop_ramping) = {Stop("ramp"), Op("save_memory")}
  BY DEF stop_ramping
<1>2. \A dir : Ops(start_ramping(dir)) =
          {Set("ramp_direction", dir), RampOn, Start("ramp")}
  <2> TAKE dir
  <2> DEFINE up == Set("ramp_direction", dir)
  <2>1. start_ramping(dir) = <<up, RampOn, Start("ramp")>>
    BY Zenon DEF start_ramping, RampOn
  <2> HIDE DEF up
  <2>2. Ops(start_ramping(dir)) = {up, RampOn, Start("ramp")}
    BY <2>1
  <2> QED BY <2>2, Zenon DEF up
<1>3. \A t : IsSeq(t) => Ops(stop_ramping \o t) = {Stop("ramp"), Op("save_memory")} \cup Ops(t)
                         /\ IsSeq(stop_ramping \o t)
  BY <1>1, OpsJoin, Joins
<1>4. Ops(action_off) = {Stop("ramp"), Op("save_memory"), Led(0), Stop("thermal"),
                         Stop("strobe"), Suspend}
  BY <1>3 DEF action_off
<1>5. Ops(action_on) = {Resume, Start("thermal"), Stop("ramp"), Op("save_memory"),
                        Op("level_on"), LedBrightness}
  <2>1. /\ Ops(<<Resume, Start("thermal")>> \o stop_ramping) =
             {Resume, Start("thermal"), Stop("ramp"), Op("save_memory")}
        /\ IsSeq(<<Resume, Start("thermal")>> \o stop_ramping)
    BY <1>1, OpsJoin, Joins
  <2> QED BY <2>1, OpsJoin DEF action_on
<1>6. Ops(action_moon) = {Resume, Stop("strobe"), Op("level_floor"), LedBrightness}
  BY DEF action_moon
<1>7. Ops(action_strobe) = {Stop("ramp"), Op("save_memory"), Set("active_param", "FREQUENCY"),
                            Start("strobe"), Led(MaxLevel), StrobeLit}
  <2> DEFINE t == <<Set("active_param", "FREQUENCY"), Start("strobe"), Led(MaxLevel), StrobeLit>>
  <2>1. action_strobe = stop_ramping \o t
    BY Zenon DEF action_strobe, StrobeLit
  <2>2. IsSeq(t) /\ Ops(t) = {Set("active_param", "FREQUENCY"), Start("strobe"), Led(MaxLevel), StrobeLit}
    OBVIOUS
  <2>3. Ops(action_strobe) = {Stop("ramp"), Op("save_memory"), Set("active_param", "FREQUENCY"),
                              Start("strobe"), Led(MaxLevel), StrobeLit}
    BY <1>3, <2>1, <2>2
  <2> QED BY <2>3
<1>8. Ops(action_strobe_next) = {Op("next_strobe"), Stop("strobe"), Op("strobe_entry"), Resume,
                                 Start("strobe")}
  BY DEF action_strobe_next, Ops
<1>9. Ops(action_aux_config) = {Led(MaxLevel), Sleep, Led(ui.brightness)}
  BY DEF action_aux_config
<1>10. Ops(action_toggle_ramp_style) = {Op("toggle_style"), Led(0), Sleep, Led(ui.brightness)}
  BY DEF action_toggle_ramp_style
<1>11. Ops(action_turbo) = {Resume, Stop("ramp"), Op("save_memory"), Op("level_ceiling"),
                            LedBrightness}
  <2>1. /\ Ops(<<Resume>> \o stop_ramping) = {Resume, Stop("ramp"), Op("save_memory")}
        /\ IsSeq(<<Resume>> \o stop_ramping)
    BY <1>1, OpsJoin, Joins
  <2> QED BY <2>1, OpsJoin DEF action_turbo
<1>12. Ops(action_lockout) = {Stop("ramp"), Op("save_memory"), Led(0)}
  BY <1>3 DEF action_lockout
<1>13. Ops(action_battcheck) = {Stop("ramp"), Op("save_memory"), Led(100), Sleep, Led(0)}
  <2>1. IsSeq(Blink) /\ Ops(Blink) = {Led(100), Sleep, Led(0)}
    BY DEF Blink
  <2>2. /\ Ops(stop_ramping \o Blink) = {Stop("ramp"), Op("save_memory"), Led(100), Sleep, Led(0)}
        /\ IsSeq(stop_ramping \o Blink)
    BY <1>3, <2>1
  <2>3. /\ Ops((stop_ramping \o Blink) \o <<Sleep>>) =
             {Stop("ramp"), Op("save_memory"), Led(100), Sleep, Led(0)}
        /\ IsSeq((stop_ramping \o Blink) \o <<Sleep>>)
    BY <2>2, OpsJoin, Joins
  <2> QED BY <2>1, <2>3, OpsJoin DEF action_battcheck
<1>14. Ops(action_factory_reset) = {Stop("ramp"), Op("save_memory"), Op("reboot")}
  BY <1>3 DEF action_factory_reset
<1>15. Ops(action_config_floor) = {Start("buzz")}
  BY DEF action_config_floor
<1> QED BY <1>1, <1>2, <1>4, <1>5, <1>6, <1>7, <1>8, <1>9, <1>10, <1>11, <1>12, <1>13, <1>14, <1>15

(* What the fields of a statement say.                                     *)
Starts(o, t) == o.op = "start" /\ o.timer = t
Stops(o, t)  == o.op = "stop" /\ o.timer = t
Writes(o, v) == o.op = "set" /\ o.var = v

(* The fields of the statements the model writes.                          *)
LEMMA Fields ==
    /\ \A t : Start(t).op = "start" /\ Start(t).timer = t
    /\ \A t : Stop(t).op = "stop" /\ Stop(t).timer = t
    /\ \A level : Led(level).op = "led" /\ Led(level).level = level
    /\ \A name : Op(name).op = name
    /\ \A node : Enter(node).op = "enter" /\ Enter(node).node = node
    /\ \A node : transition_to(node).op = "transition" /\ transition_to(node).node = node
    /\ \A stage, msg : lookup(stage, msg).op = stage /\ lookup(stage, msg).msg = msg
    /\ LedBrightness.op = "led_brightness" /\ Sleep.op = "sleep"
    /\ \A var, val : Set(var, val).op = "set" /\ Set(var, val).var = var /\ Set(var, val).val = val
BY DEF Start, Stop, Led, Op, Enter, transition_to, lookup, LedBrightness, Sleep, Set

(* The same of those that write a truth value.                             *)
LEMMA Flags ==
    /\ RampOn.op = "set" /\ RampOn.var = "ramp_active"
    /\ StrobeLit.op = "set" /\ StrobeLit.var = "strobe_on"
    /\ Emergency.op = "set" /\ Emergency.var = "emergency"
    /\ Resume.op = "set" /\ Resume.var = "suspended"
    /\ Suspend.op = "set" /\ Suspend.var = "suspended"
BY DEF RampOn, StrobeLit, Emergency, Resume, Suspend, Set

(* The values that the flags are set to.                                   *)
LEMMA FlagValues ==
    /\ RampOn.val \in BOOLEAN /\ StrobeLit.val \in BOOLEAN /\ Emergency.val \in BOOLEAN
    /\ Resume.val \in BOOLEAN /\ Suspend.val \in BOOLEAN
BY DEF RampOn, StrobeLit, Emergency, Resume, Suspend, Set

TurboNodes == {"simple_turbo", "adv_turbo"}
CheckNodes == {"simple_battcheck", "adv_battcheck", "adv_tempcheck"}
MenuNodes  == {"adv_config_floor", "adv_config_ceiling", "adv_cal_voltage",
               "adv_cal_thermal_current", "adv_cal_thermal_limit"}

(* What a node does on entry.                                              *)
LEMMA ActionOps ==
    ASSUME NEW node \in Nodes
    PROVE  LET b == Action(action_routine(node))
           IN  /\ node \in OffNodes     => b = action_off
               /\ node \in OnNodes      => b = action_on
               /\ node \in RampNodes    => b = <<>>
               /\ node \in LockoutNodes => b = action_lockout
               /\ node \in TurboNodes   => b = action_turbo
               /\ node \in CheckNodes   => b = action_battcheck
               /\ node = "adv_reset"    => b = action_factory_reset
               /\ node = "adv_strobe"   => b = action_strobe
               /\ node = "adv_aux_config" => b = action_aux_config
               /\ node \in MenuNodes    => b = action_config_floor
<1>1. /\ node \in OffNodes => action_routine(node) = "action_off"
      /\ node \in OnNodes => action_routine(node) = "action_on"
      /\ node \in RampNodes => action_routine(node) = "action_ramp"
      /\ node \in LockoutNodes => action_routine(node) = "action_lockout"
      /\ node \in TurboNodes => action_routine(node) = "action_turbo"
      /\ node \in CheckNodes => action_routine(node) \in {"action_battcheck", "action_tempcheck"}
      /\ node = "adv_reset" => action_routine(node) = "action_factory_reset"
      /\ node = "adv_strobe" => action_routine(node) = "action_strobe"
      /\ node = "adv_aux_config" => action_routine(node) = "action_aux_config"
      /\ node \in MenuNodes => action_routine(node) = "start_buzz"
  BY DEF action_routine, OffNodes, OnNodes, RampNodes, LockoutNodes, TurboNodes, CheckNodes, MenuNodes
<1> QED BY <1>1 DEF Action

(* Every node is of one of these kinds.                                    *)
LEMMA NodeKinds ==
    ASSUME NEW node \in Nodes
    PROVE  \/ node \in OffNodes \/ node \in OnNodes \/ node \in RampNodes
           \/ node \in LockoutNodes \/ node \in TurboNodes \/ node \in CheckNodes
           \/ node = "adv_reset" \/ node = "adv_strobe" \/ node = "adv_aux_config"
           \/ node \in MenuNodes
BY DEF Nodes, SimpleNodes, AdvancedNodes, OffNodes, OnNodes, RampNodes, LockoutNodes, TurboNodes,
       CheckNodes, MenuNodes

(* Which callback a message has, and where.                                *)
CallbackWhere(name, msg) ==
    \/ name = NULL /\ ~(msg.type = "HOLD_RELEASE" /\ current_node \in RampNodes)
    \/ name = "toggle_ramp_style" /\ msg.type = "TAP" /\ current_node = "adv_on" /\ msg.count = 3
    \/ name = "strobe_next" /\ msg.type = "TAP" /\ current_node = "adv_strobe"
    \/ /\ name = "hold_from_off" /\ msg.type = "HOLD_START"
       /\ current_node \in OffNodes /\ msg.count = 1
    \/ name = "10h_toggle" /\ msg.type = "HOLD_START" /\ current_node \in OffNodes
    \/ /\ name = "hold_ramp_up" /\ msg.type = "HOLD_START"
       /\ current_node \in OnNodes /\ msg.count = 1
    \/ /\ name = "hold_ramp_down" /\ msg.type = "HOLD_START"
       /\ current_node \in OnNodes /\ msg.count = 2
    \/ name = "lockout_momentary" /\ msg.type = "HOLD_START" /\ current_node \in LockoutNodes
    \/ name = "unlock_floor" /\ msg.type = "HOLD_START" /\ current_node = "simple_lockout"
    \/ name = "ramp_release" /\ msg.type = "HOLD_RELEASE" /\ current_node \in RampNodes
    \/ name = "lockout_release" /\ msg.type = "HOLD_RELEASE" /\ current_node \in LockoutNodes
    \/ name = "strobe_release" /\ msg.type = "HOLD_RELEASE" /\ current_node = "adv_strobe"

(* Which callback serves a message.                                        *)
LEMMA WhichCallback ==
    ASSUME NEW msg, msg.type \in MessageTypes
    PROVE  CallbackWhere(CallbackFor(msg), msg)
<1>1. CASE msg.type = "TAP"
  <2>1. CallbackFor(msg) = click_callback(current_node, msg.count)
    BY <1>1 DEF CallbackFor
  <2> QED BY <1>1, <2>1 DEF click_callback, CallbackWhere
<1>2. CASE msg.type = "HOLD_START"
  <2>1. CallbackFor(msg) = hold_callback(current_node, msg.count)
    BY <1>2 DEF CallbackFor
  <2>2. \/ hold_callback(current_node, msg.count) = NULL
        \/ /\ hold_callback(current_node, msg.count) = "hold_from_off"
           /\ current_node \in OffNodes /\ msg.count = 1
        \/ hold_callback(current_node, msg.count) = "10h_toggle" /\ current_node \in OffNodes
        \/ /\ hold_callback(current_node, msg.count) = "hold_ramp_up"
           /\ current_node \in OnNodes /\ msg.count = 1
        \/ /\ hold_callback(current_node, msg.count) = "hold_ramp_down"
           /\ current_node \in OnNodes /\ msg.count = 2
        \/ /\ hold_callback(current_node, msg.count) = "lockout_momentary"
           /\ current_node \in LockoutNodes
        \/ /\ hold_callback(current_node, msg.count) = "unlock_floor"
           /\ current_node = "simple_lockout"
    BY DEF hold_callback
  <2> QED BY <1>2, <2>1, <2>2 DEF CallbackWhere
<1>3. CASE msg.type = "HOLD_RELEASE"
  <2>1. CallbackFor(msg) = release_callback(current_node)
    BY <1>3 DEF CallbackFor
  <2> QED BY <1>3, <2>1 DEF release_callback, CallbackWhere, RampNodes, LockoutNodes
<1> QED BY <1>1, <1>2, <1>3 DEF MessageTypes

(* What the callbacks do before the engine goes on, and where to.          *)
LEMMA CallbackOps ==
    ASSUME NEW name, NEW count
    PROVE  LET cb == Callback(name, count)
           IN  /\ name = NULL => cb.ops = <<>> /\ cb.next = NULL
               /\ name = "toggle_ramp_style" =>
                     cb.ops = action_toggle_ramp_style /\ cb.next = NULL
               /\ name = "strobe_next" => cb.ops = action_strobe_next /\ cb.next = NULL
               /\ name = "hold_from_off" =>
                     cb.ops = action_moon \o start_ramping(1) /\ cb.next = NULL
               /\ name = "10h_toggle" =>
                     \E mode \in {"SIMPLE", "ADVANCED"} :
                         cb.ops = <<Set("mode", mode)>> /\ cb.next = OffNode(mode)
               /\ name = "hold_ramp_up" => cb.ops = start_ramping(1) /\ cb.next = NULL
               /\ name = "hold_ramp_down" => cb.ops = start_ramping(-1) /\ cb.next = NULL
               /\ name = "lockout_momentary" => cb.ops = action_moon /\ cb.next = NULL
               /\ name = "unlock_floor" =>
                     cb.ops = <<Op("override_floor")>> /\ cb.next = "simple_on"
               /\ name = "ramp_release" => cb.ops = stop_ramping /\ cb.next = OnNode(current_node)
               /\ name = "lockout_release" => cb.ops = action_off /\ cb.next = NULL
               /\ name = "strobe_release" => cb.ops = stop_ramping /\ cb.next = NULL
<1> DEFINE cb == Callback(name, count)
<1> USE DEF SimpleCallbacks, AdvancedCallbacks, MenuCallbacks, NULL
<1>1. ASSUME name \in SimpleCallbacks PROVE cb = SimpleCallback(name)
  BY <1>1 DEF Callback
<1>2. ASSUME name \in AdvancedCallbacks PROVE cb = AdvancedCallback(name)
  BY <1>2 DEF Callback
<1>3. name = NULL => cb.ops = <<>> /\ cb.next = NULL
  BY DEF Callback
<1> HIDE DEF cb
<1>4. /\ name = "toggle_ramp_style" => cb.ops = action_toggle_ramp_style /\ cb.next = NULL
      /\ name = "strobe_next" => cb.ops = action_strobe_next /\ cb.next = NULL
      /\ name = "strobe_release" => cb.ops = stop_ramping /\ cb.next = NULL
  BY <1>2 DEF AdvancedCallback
<1>5. /\ name = "hold_from_off" => cb.ops = action_moon \o start_ramping(1) /\ cb.next = NULL
      /\ name = "hold_ramp_up" => cb.ops = start_ramping(1) /\ cb.next = NULL
      /\ name = "hold_ramp_down" => cb.ops = start_ramping(-1) /\ cb.next = NULL
      /\ name = "lockout_momentary" => cb.ops = action_moon /\ cb.next = NULL
      /\ name = "unlock_floor" => cb.ops = <<Op("override_floor")>> /\ cb.next = "simple_on"
      /\ name = "ramp_release" => cb.ops = stop_ramping /\ cb.next = OnNode(current_node)
      /\ name = "lockout_release" => cb.ops = action_off /\ cb.next = NULL
  BY <1>1 DEF SimpleCallback
<1>6. name = "10h_toggle" =>
        \E mode \in {"SIMPLE", "ADVANCED"} :
            cb.ops = <<Set("mode", mode)>> /\ cb.next = OffNode(mode)
  BY <1>1 DEF SimpleCallback, ui_toggle_mode
<1> QED BY <1>3, <1>4, <1>5, <1>6 DEF cb

(* A menu's callback: its setting, and the menu's successor.               *)
LEMMA MenuOps ==
    ASSUME NEW count
    PROVE  LET name == any_click_callback(current_node)
               any  == Callback(name, count)
           IN  /\ current_node \notin MenuNodes => any.ops = <<>> /\ any.next = NULL
               /\ current_node \in MenuNodes =>
                     /\ any.next \in {"adv_config_ceiling", "adv_on", "adv_battcheck",
                                      "adv_cal_thermal_limit", "adv_tempcheck"}
                     /\ any.next \in {"adv_config_ceiling", "adv_on"} =>
                           current_node \in {"adv_config_floor", "adv_config_ceiling"}
                     /\ \/ any.ops = <<Stop("buzz")>> \o <<>>
                        \/ /\ current_node = "adv_config_floor"
                           /\ any.ops = <<Stop("buzz")>> \o <<Set("floor", count)>>
                        \/ /\ current_node = "adv_config_ceiling"
                           /\ any.ops = <<Stop("buzz")>> \o
                                <<Set("ceiling", IF MaxLevel + 1 - count < ui.floor
                                                 THEN ui.floor + 1 ELSE MaxLevel + 1 - count)>>
<1> DEFINE name == any_click_callback(current_node)
           any  == Callback(name, count)
<1> USE DEF SimpleCallbacks, AdvancedCallbacks, MenuCallbacks, NULL, MenuNodes
<1>1. ASSUME current_node \notin MenuNodes PROVE any.ops = <<>> /\ any.next = NULL
  <2>1. name = NULL
    BY <1>1 DEF any_click_callback
  <2> QED BY <2>1 DEF Callback
<1>2. ASSUME current_node \in MenuNodes PROVE name \in MenuCallbacks
  BY <1>2 DEF any_click_callback
<1>3. ASSUME name \in MenuCallbacks PROVE any = MenuCallback(name, count)
  BY <1>3 DEF Callback
<1>4. ASSUME current_node \in MenuNodes
      PROVE  name = CASE current_node = "adv_config_floor"        -> "config_floor_set"
                      [] current_node = "adv_config_ceiling"      -> "config_ceiling_set"
                      [] current_node = "adv_cal_voltage"         -> "cal_voltage_set"
                      [] current_node = "adv_cal_thermal_current" -> "cal_thermal_set"
                      [] current_node = "adv_cal_thermal_limit"   -> "cal_thermal_limit_set"
  BY <1>4 DEF any_click_callback
<1> HIDE DEF any, name
<1>5. ASSUME current_node \in MenuNodes
      PROVE  /\ any.next \in {"adv_config_ceiling", "adv_on", "adv_battcheck",
                              "adv_cal_thermal_limit", "adv_tempcheck"}
             /\ any.next \in {"adv_config_ceiling", "adv_on"} =>
                   current_node \in {"adv_config_floor", "adv_config_ceiling"}
  BY <1>2, <1>3, <1>4, <1>5 DEF MenuCallback
<1>6. ASSUME current_node \in MenuNodes
      PROVE  \/ any.ops = <<Stop("buzz")>> \o <<>>
             \/ /\ current_node = "adv_config_floor"
                /\ any.ops = <<Stop("buzz")>> \o <<Set("floor", count)>>
             \/ /\ current_node = "adv_config_ceiling"
                /\ any.ops = <<Stop("buzz")>> \o
                     <<Set("ceiling", IF MaxLevel + 1 - count < ui.floor
                                      THEN ui.floor + 1 ELSE MaxLevel + 1 - count)>>
  BY <1>2, <1>3, <1>4, <1>6 DEF MenuCallback
<1> QED BY <1>1, <1>5, <1>6 DEF any, name

-----------------------------------------------------------------------------
(* The same by what matters of a statement.                                *)

LevelOps == {"level_on", "level_floor", "level_ceiling"}

(* The brightness and the LED are never written by the same routine except *)
(* through update_led_hardware(current_brightness).                        *)
Unmixed(s) == \A o, p \in Ops(s) : o.op = "led" => p.op \notin LevelOps

(* The nodes whose action routine begins with stop_ramping.                *)
Stopping == Nodes \ (RampNodes \cup MenuNodes \cup {"adv_aux_config"})

HasStop(s, t)   == \E o \in Ops(s) : Stops(o, t)
HasOp(s, name)  == \E o \in Ops(s) : o.op = name

(* What the entry routine of each kind of node starts, stops, assigns and  *)
(* shows.                                                                  *)
LEMMA RoutineTable ==
    ASSUME NEW node \in Nodes
    PROVE  LET b == Action(action_routine(node))
           IN  /\ \A o \in Ops(b) :
                     /\ Starts(o, "thermal") => node \in OnNodes
                     /\ Starts(o, "strobe") => node = "adv_strobe"
                     /\ ~Starts(o, "ramp") /\ ~Writes(o, "ramp_active") /\ ~Stops(o, "buzz")
                     /\ o.op = "set" => o.var \in {"suspended", "active_param", "strobe_on"}
                     /\ o.op = "led" => node \notin OnNodes \cup RampNodes \cup MenuNodes
               /\ Unmixed(b)
               /\ node \in OffNodes => HasStop(b, "thermal") /\ HasStop(b, "strobe")
               /\ node \in Stopping => HasStop(b, "ramp") /\ HasOp(b, "save_memory")
               /\ node \in OnNodes => HasOp(b, "level_on") /\ HasOp(b, "led_brightness")
<1> DEFINE b == Action(action_routine(node))
<1> USE ActionOps, RoutineOps, OpsShort, Fields, Flags
    DEF Starts, Writes, Stops, Unmixed, HasStop, HasOp, LevelOps
<1>1. CASE node \in OffNodes
  BY <1>1 DEF OffNodes, OnNodes, RampNodes, MenuNodes, Stopping
<1>2. CASE node \in OnNodes
  BY <1>2 DEF OffNodes, OnNodes, RampNodes, MenuNodes, Stopping
<1>3. CASE node \in RampNodes
  BY <1>3 DEF OffNodes, OnNodes, RampNodes, Stopping
<1>4. CASE node \in LockoutNodes
  BY <1>4 DEF OffNodes, OnNodes, RampNodes, MenuNodes, LockoutNodes
<1>5. CASE node \in TurboNodes
  BY <1>5 DEF OffNodes, OnNodes, RampNodes, MenuNodes, TurboNodes
<1>6. CASE node \in CheckNodes
  BY <1>6 DEF OffNodes, OnNodes, RampNodes, MenuNodes, CheckNodes
<1>7. CASE node = "adv_reset"
  BY <1>7 DEF OffNodes, OnNodes, RampNodes, MenuNodes
<1>8. CASE node = "adv_strobe"
  BY <1>8 DEF OffNodes, OnNodes, RampNodes, MenuNodes
<1>9. CASE node = "adv_aux_config"
  BY <1>9 DEF OffNodes, OnNodes, RampNodes, MenuNodes, Stopping
<1>10. CASE node \in MenuNodes
  BY <1>10 DEF OffNodes, OnNodes, RampNodes, MenuNodes, Stopping
<1> QED BY NodeKinds, <1>1, <1>2, <1>3, <1>4, <1>5, <1>6, <1>7, <1>8, <1>9, <1>10

(* What a callback starts, stops, assigns and shows, and where it leads.   *)
LEMMA CallbackTable ==
    ASSUME NEW msg, msg.type \in MessageTypes, current_node \in Nodes
    PROVE  LET cb == Callback(CallbackFor(msg), msg.count)
           IN  /\ \A o \in Ops(cb.ops) :
                     /\ ~Starts(o, "thermal") /\ ~Stops(o, "buzz")
                     /\ Starts(o, "strobe") => current_node = "adv_strobe"
                     /\ Starts(o, "ramp") \/ Writes(o, "ramp_active") =>
                           /\ msg.type = "HOLD_START" /\ cb.next = NULL
                           /\ \/ msg.count = 1 /\ current_node \in OffNodes \cup OnNodes
                              \/ msg.count = 2 /\ current_node \in OnNodes
                     /\ o.op = "set" =>
                           o.var \in {"ramp_direction", "ramp_active", "suspended", "mode"}
                     /\ o.op = "led" =>
                           \/ /\ current_node = "adv_on" /\ msg.type = "TAP" /\ cb.next = NULL
                              /\ cb.ops = action_toggle_ramp_style
                           \/ current_node \in LockoutNodes /\ cb.next = NULL
               /\ Unmixed(cb.ops)
               /\ cb.next \in Nodes \cup {NULL}
               /\ cb.next \notin RampNodes \cup {"adv_strobe", "adv_config_floor", "adv_config_ceiling"}
               /\ current_node = "adv_strobe" => cb.next = NULL
               /\ current_node \in RampNodes /\ msg.type = "HOLD_RELEASE" =>
                     HasStop(cb.ops, "ramp") /\ HasOp(cb.ops, "save_memory")
<1> DEFINE cb == Callback(CallbackFor(msg), msg.count)
           Right ==
               /\ \A o \in Ops(cb.ops) :
                     /\ ~Starts(o, "thermal") /\ ~Stops(o, "buzz")
                     /\ Starts(o, "strobe") => current_node = "adv_strobe"
                     /\ Starts(o, "ramp") \/ Writes(o, "ramp_active") =>
                           /\ msg.type = "HOLD_START" /\ cb.next = NULL
                           /\ \/ msg.count = 1 /\ current_node \in OffNodes \cup OnNodes
                              \/ msg.count = 2 /\ current_node \in OnNodes
                     /\ o.op = "set" =>
                           o.var \in {"ramp_direction", "ramp_active", "suspended", "mode"}
                     /\ o.op = "led" =>
                           \/ /\ current_node = "adv_on" /\ msg.type = "TAP" /\ cb.next = NULL
                              /\ cb.ops = action_toggle_ramp_style
                           \/ current_node \in LockoutNodes /\ cb.next = NULL
               /\ Unmixed(cb.ops)
               /\ cb.next \in Nodes \cup {NULL}
               /\ cb.next \notin RampNodes \cup {"adv_strobe", "adv_config_floor", "adv_config_ceiling"}
               /\ current_node = "adv_strobe" => cb.next = NULL
               /\ current_node \in RampNodes /\ msg.type = "HOLD_RELEASE" =>
                     HasStop(cb.ops, "ramp") /\ HasOp(cb.ops, "save_memory")
<1> SUFFICES Right
  OBVIOUS
<1> DEFINE name == CallbackFor(msg)
<1>0. CallbackWhere(name, msg)
  BY WhichCallback
<1>00. /\ Ops(action_moon \o start_ramping(1)) = Ops(action_moon) \cup Ops(start_ramping(1))
  BY RampPlain, RoutinePlain, OpsJoin DEF Plain
<1> HIDE DEF name
<1> USE CallbackOps, RoutineOps, OpsShort, Fields, Flags, <1>00
    DEF Starts, Writes, Stops, Unmixed, HasStop, HasOp, LevelOps
<1> USE DEF NULL, RampNodes, OffNodes, OnNodes, LockoutNodes, Nodes, SimpleNodes, AdvancedNodes
<1>1. CASE name = NULL /\ ~(msg.type = "HOLD_RELEASE" /\ current_node \in RampNodes)
  BY <1>1 DEF name
<1>2. CASE name = "toggle_ramp_style" /\ msg.type = "TAP" /\ current_node = "adv_on"
  BY <1>2 DEF name
<1>3. CASE name = "strobe_next" /\ msg.type = "TAP" /\ current_node = "adv_strobe"
  BY <1>3 DEF name
<1>4. CASE /\ name = "hold_from_off" /\ msg.type = "HOLD_START"
           /\ current_node \in OffNodes /\ msg.count = 1
  <2>1. cb.next = NULL /\ cb.ops = action_moon \o start_ramping(1)
    BY <1>4 DEF name
  <2>2. Ops(cb.ops) = {Resume, Stop("strobe"), Op("level_floor"), LedBrightness,
                       Set("ramp_direction", 1), RampOn, Start("ramp")}
    BY <2>1
  <2> HIDE DEF cb
  <2> QED BY <1>4, <2>1, <2>2
<1>5. CASE name = "10h_toggle" /\ msg.type = "HOLD_START" /\ current_node \in OffNodes
  <2>1. PICK mode \in {"SIMPLE", "ADVANCED"} :
            cb.ops = <<Set("mode", mode)>> /\ cb.next = OffNode(mode)
    BY <1>5 DEF name
  <2>2. Ops(cb.ops) = {Set("mode", mode)} /\ cb.next \in OffNodes
    BY <2>1 DEF OffNode
  <2> HIDE DEF cb
  <2> QED BY <1>5, <2>2
<1>6. CASE /\ name = "hold_ramp_up" /\ msg.type = "HOLD_START"
           /\ current_node \in OnNodes /\ msg.count = 1
  BY <1>6 DEF name
<1>7. CASE /\ name = "hold_ramp_down" /\ msg.type = "HOLD_START"
           /\ current_node \in OnNodes /\ msg.count = 2
  BY <1>7 DEF name
<1>8. CASE name = "lockout_momentary" /\ msg.type = "HOLD_START" /\ current_node \in LockoutNodes
  <2>1. cb.next = NULL /\ cb.ops = action_moon
    BY <1>8 DEF name
  <2> HIDE DEF cb
  <2> QED BY <1>8, <2>1
<1>9. CASE name = "unlock_floor" /\ msg.type = "HOLD_START" /\ current_node = "simple_lockout"
  <2>1. cb.next = "simple_on" /\ cb.ops = <<Op("override_floor")>>
    BY <1>9 DEF name
  <2> HIDE DEF cb
  <2> QED BY <1>9, <2>1
<1>10. CASE name = "ramp_release" /\ msg.type = "HOLD_RELEASE" /\ current_node \in RampNodes
  BY <1>10 DEF name, OnNode
<1>11. CASE name = "lockout_release" /\ msg.type = "HOLD_RELEASE" /\ current_node \in LockoutNodes
  <2>1. cb.next = NULL /\ cb.ops = action_off
    BY <1>11 DEF name
  <2> HIDE DEF cb
  <2> QED BY <1>11, <2>1
<1>12. CASE name = "strobe_release" /\ msg.type = "HOLD_RELEASE" /\ current_node = "adv_strobe"
  BY <1>12 DEF name
<1> QED BY <1>0, <1>1, <1>2, <1>3, <1>4, <1>5, <1>6, <1>7, <1>8, <1>9, <1>10, <1>11, <1>12
     DEF CallbackWhere

(* The maps: a click never leads to a ramp, a hold leads where HoldTable   *)
(* says; without either, a menu takes any number of clicks.                *)
LEMMA MapTable ==
    ASSUME NEW msg, current_node \in Nodes
    PROVE  /\ MapFor(msg) \in Nodes \cup {NULL}
           /\ current_node = "adv_strobe" => MapFor(msg) \in {"adv_off", NULL}
           /\ MapFor(msg) # "adv_config_ceiling"
           /\ MapFor(msg) = "adv_config_floor" => msg.count = 7 /\ msg.type # "TAP"
           /\ MapFor(msg) \in RampNodes => current_node \notin RampNodes /\ msg.type # "TAP"
           /\ /\ msg.type = "HOLD_START"
              /\ \/ msg.count = 1 /\ current_node \in OnNodes \cup OffNodes
                 \/ msg.count = 2 /\ current_node \in OnNodes
              => MapFor(msg) \in RampNodes
<1>1. CASE msg.type = "TAP"
  <2>1. MapFor(msg) = At(click_map(current_node), msg.count)
    BY <1>1 DEF MapFor
  <2> QED BY <1>1, <2>1, ClickTable DEF NULL
<1>2. CASE msg.type # "TAP"
  <2>1. MapFor(msg) = At(hold_map(current_node), msg.count)
    BY <1>2 DEF MapFor
  <2>2. NULL \notin RampNodes
    BY DEF NULL, RampNodes
  <2> QED BY <1>2, <2>1, <2>2, HoldTable DEF NULL
<1> QED BY <1>1, <1>2

(* A loose rest neither enters nor goes home.                              *)
LooseOp(o) == IsPlain(o) \/ IsLast(o)

(* What a loose sequence can hold.                                         *)
LEMMA LooseOps ==
    ASSUME NEW s, Loose(s)
    PROVE  /\ \A o \in Ops(s) : LooseOp(o) /\ o.op \in PlainOps \cup {"map", "arm", "transition"}
           /\ ~Acting(s)
           /\ s # <<>> => s[1] \in Ops(s)
<1>1. \A o \in Ops(s) : LooseOp(o)
  BY DEF Loose, Ops, LooseOp
<1>2. s # <<>> => s[1] \in Ops(s)
  BY Tails DEF Loose, Ops
<1>3. Acting(s) => Op("action") \in Ops(s)
  BY OpsShort DEF Acting
<1>4. ~LooseOp(Op("action"))
  BY Fields DEF LooseOp, IsPlain, IsLast, PlainOps
<1> QED BY <1>1, <1>2, <1>3, <1>4 DEF LooseOp, IsPlain, IsLast

(* What a statement that is executed leaves.                               *)
LEMMA ShapeTail ==
    ASSUME NEW s, Shape(s), s # <<>>, Head(s).op \notin Calls
    PROVE  LET h == Head(s)
               t == Tail(s)
           IN  /\ Shape(t) /\ Ops(s) = {h} \cup Ops(t) /\ ~Acting(s)
               /\ h.op \in PlainOps \cup {"enter", "go_home", "arm"}
               /\ Acting(t) <=> h.op \in {"enter", "go_home"}
               /\ h.op \in {"enter", "go_home"} => Ops(t) \subseteq {Op("action"), Op("arm")}
               /\ h.op = "enter" => h.node \in Nodes
               /\ h.op = "arm" => t = <<>>
               /\ StartsTimer(h) => \E m : t = <<lookup("callback", m)>>
               /\ t # <<>> /\ t[1].op \in {"enter", "go_home"} => h = Stop("inactivity")
<1> DEFINE h == Head(s)
           t == Tail(s)
           Right == /\ Shape(t) /\ Ops(s) = {h} \cup Ops(t) /\ ~Acting(s)
                    /\ h.op \in PlainOps \cup {"enter", "go_home", "arm"}
                    /\ Acting(t) <=> h.op \in {"enter", "go_home"}
                    /\ h.op \in {"enter", "go_home"} => Ops(t) \subseteq {Op("action"), Op("arm")}
                    /\ h.op = "enter" => h.node \in Nodes
                    /\ h.op = "arm" => t = <<>>
                    /\ StartsTimer(h) => \E m : t = <<lookup("callback", m)>>
                    /\ t # <<>> /\ t[1].op \in {"enter", "go_home"} => h = Stop("inactivity")
<1> SUFFICES Right
  OBVIOUS
<1> USE Fields, Short, OpsShort
<1>1. CASE Loose(s)
  <2>1. /\ Loose(t)
        /\ IsPlain(h) \/ (IsLast(h) /\ s = <<h>>)
        /\ Ops(s) = {h} \cup Ops(t)
        /\ ~Acting(s)
    BY <1>1, LooseTail, LooseOps, OpsTail DEF Loose
  <2>0. ASSUME NEW a, s = <<a>> PROVE t = <<>>
    <3>1. Tail(s) = Tail(<<a>>)
      BY <2>0
    <3> QED BY <3>1
  <2>2. h.op = "arm" => t = <<>>
    <3> HIDE DEF h, t
    <3> QED BY <2>0, <2>1 DEF IsPlain, PlainOps
  <2>3. /\ h.op \in PlainOps \cup {"arm"}
        /\ ~StartsTimer(h)
    BY <2>1 DEF IsPlain, IsLast, Calls, StartsTimer
  <2>4. ~Acting(t) /\ (t # <<>> => t[1].op \notin {"enter", "go_home"})
    BY <2>1, LooseOps DEF PlainOps
  <2> HIDE DEF h, t
  <2> QED BY <2>1, <2>2, <2>3, <2>4 DEF Shape, PlainOps
<1>2. CASE Dispatching(s)
  <2>1. PICK m : s \in {<<lookup("reset", m), lookup("callback", m)>>,
                        <<Start("inactivity"), lookup("callback", m)>>,
                        <<lookup("callback", m)>>}
    BY <1>2 DEF Dispatching
  <2>2. s = <<Start("inactivity"), lookup("callback", m)>>
    BY <2>1 DEF Calls
  <2>3. h = Start("inactivity") /\ t = <<lookup("callback", m)>>
    BY <2>2
  <2>4. Shape(t) /\ Ops(s) = {h} \cup Ops(t) /\ ~Acting(s) /\ ~Acting(t)
    BY <2>2, <2>3 DEF Shape, Dispatching, Acting
  <2>5. t[1].op = "callback"
    <3> HIDE DEF t
    <3> QED BY <2>3, One
  <2> HIDE DEF h, t
  <2> QED BY <2>3, <2>4, <2>5 DEF PlainOps
<1>3. CASE Going(s)
  <2>1. PICK node \in Nodes : s \in {fsm_transition_to(node), Entering(node)}
    BY <1>3 DEF Going
  <2>2. CASE s = fsm_transition_to(node)
    <3>1. h = Stop("inactivity") /\ t = Entering(node)
      BY <2>2 DEF fsm_transition_to, Entering, Enter
    <3>2. Shape(t) /\ Ops(s) = {h} \cup Ops(t) /\ ~Acting(s) /\ ~Acting(t)
      BY <2>2, <3>1 DEF Shape, Going, Acting, fsm_transition_to, Entering, Enter
    <3> HIDE DEF h, t
    <3> QED BY <3>1, <3>2 DEF PlainOps, StartsTimer
  <2>3. CASE s = Entering(node)
    <3>1. h = Enter(node) /\ t = <<Op("action"), Op("arm")>>
      BY <2>3 DEF Entering
    <3>2. Shape(t) /\ Ops(s) = {h} \cup Ops(t) /\ ~Acting(s) /\ Acting(t)
          /\ Ops(t) = {Op("action"), Op("arm")} /\ t[1].op = "action"
      BY <2>3, <3>1 DEF Shape, Acting, Entering
    <3> HIDE DEF h, t
    <3> QED BY <3>1, <3>2 DEF PlainOps, StartsTimer
  <2> QED BY <2>1, <2>2, <2>3
<1>4. CASE Homing(s)
  <2>1. CASE s = fsm_emergency_off
    <3>0. s = <<Emergency, Stop("inactivity"), Op("go_home"), Op("action")>>
      BY <2>1, Zenon DEF fsm_emergency_off, Emergency
    <3>1. h = Emergency /\ t = <<Stop("inactivity"), Op("go_home"), Op("action")>>
      BY <3>0
    <3>2. Shape(t) /\ Ops(s) = {h} \cup Ops(t) /\ ~Acting(s) /\ ~Acting(t) /\ t[1].op = "stop"
      BY <3>0, <3>1 DEF Shape, Homing, Acting
    <3> HIDE DEF h, t
    <3> QED BY <3>1, <3>2, Flags DEF PlainOps, StartsTimer
  <2>2. CASE s = <<Stop("inactivity"), Op("go_home"), Op("action")>>
    <3>1. h = Stop("inactivity") /\ t = <<Op("go_home"), Op("action")>>
      BY <2>2
    <3>2. Shape(t) /\ Ops(s) = {h} \cup Ops(t) /\ ~Acting(s) /\ ~Acting(t) /\ t[1].op = "go_home"
      BY <2>2, <3>1 DEF Shape, Homing, Acting
    <3> HIDE DEF h, t
    <3> QED BY <3>1, <3>2 DEF PlainOps, StartsTimer
  <2>3. CASE s = <<Op("go_home"), Op("action")>>
    <3>1. h = Op("go_home") /\ t = <<Op("action")>>
      BY <2>3
    <3>2. Shape(t) /\ Ops(s) = {h} \cup Ops(t) /\ ~Acting(s) /\ Acting(t) /\ t[1].op = "action"
          /\ Ops(t) = {Op("action")}
      BY <2>3, <3>1 DEF Shape, Acting
    <3> HIDE DEF h, t
    <3> QED BY <3>1, <3>2 DEF PlainOps, StartsTimer
  <2> QED BY <1>4, <2>1, <2>2, <2>3 DEF Homing
<1>5. CASE Acting(s)
  <2>1. h = Op("action")
    BY <1>5 DEF Acting
  <2> QED BY <2>1 DEF Calls
<1> QED BY <1>1, <1>2, <1>3, <1>4, <1>5 DEF Shape

(* Bodies are loose.                                                       *)
LEMMA ThenLoose ==
    ASSUME NEW s, Plain(s), NEW next \in Nodes \cup {NULL} PROVE Loose(s \o Then(next))
<1>1. Loose(<<transition_to(next)>>) \/ next = NULL
  BY Fields, LooseOne DEF IsLast
<1>2. Loose(<<>>)
  BY Plain0, LoosePlain
<1> QED BY <1>1, <1>2, LooseJoin DEF Then

(* A callback is loose.                                                    *)
LEMMA CallbackLoose ==
    ASSUME current_node \in Nodes, NEW msg, msg.type \in MessageTypes
    PROVE  Loose(TryCallback(msg))
<1> DEFINE cb == Callback(CallbackFor(msg), msg.count)
<1>1. Plain(cb.ops)
  BY CallbacksNamed, CallbackPlain
<1>2. cb.next \in Nodes \cup {NULL}
  BY CallbackTable
<1> HIDE DEF cb
<1>3. Loose(cb.ops \o Then(cb.next))
  BY <1>1, <1>2, ThenLoose
<1>4. Loose(cb.ops \o <<>>)
  BY <1>1, Plain0, LoosePlain, LooseJoin
<1>5. Loose(cb.ops \o <<lookup("map", msg)>>)
  BY <1>1, Fields, LooseOne, LooseJoin DEF IsLast
<1> QED BY <1>3, <1>4, <1>5 DEF TryCallback, cb

(* A map is loose.                                                         *)
LEMMA MapLoose ==
    ASSUME current_node \in Nodes, NEW msg
    PROVE  Loose(TryMap(msg))
<1> DEFINE any == Callback(any_click_callback(current_node), msg.count)
<1>1. Plain(any.ops)
  BY CallbacksNamed, CallbackPlain
<1>2. any.next \in Nodes \cup {NULL}
  BY MenuOps DEF Nodes, AdvancedNodes
<1> HIDE DEF any
<1>3. Loose(any.ops \o Then(any.next))
  BY <1>1, <1>2, ThenLoose
<1>4. Loose(<<>>)
  BY Plain0, LoosePlain
<1>5. MapFor(msg) # NULL => Loose(<<transition_to(MapFor(msg))>>)
  BY MapTable, Fields, LooseOne DEF IsLast
<1> QED BY <1>3, <1>4, <1>5 DEF TryMap, Then, any

(* Two statements joined.                                                  *)
LEMMA JoinTwo == ASSUME NEW a, NEW b PROVE <<a>> \o <<b>> = <<a, b>>
<1> DEFINE S == {a, b}
<1>1. <<a>> \in Seq(S) /\ <<b>> \in Seq(S) /\ <<a, b>> \in Seq(S)
  OBVIOUS
<1> DEFINE u == <<a>> \o <<b>>
           v == <<a, b>>
<1>2. u \in Seq(S) /\ v \in Seq(S) /\ Len(u) = 2 /\ Len(v) = 2
      /\ u[1] = a /\ u[2] = b /\ v[1] = a /\ v[2] = b
  BY <1>1
<1> HIDE DEF S, u, v
<1>3. \A i \in 1..Len(u) : u[i] = v[i]
  BY <1>2
<1>4. u = v
  BY <1>2, <1>3, SeqEqual
<1> QED BY <1>4 DEF u, v

(* What a call leaves.                                                     *)
LEMMA ShapeCall ==
    ASSUME NEW s, Shape(s), s # <<>>, Head(s).op \in Calls,
           Head(s).op = "callback" => Head(s).msg.type \in MessageTypes,
           Head(s).op # "transition" => current_node \in Nodes
    PROVE  LET h == Head(s)
               t == Tail(s)
               b == Body(h)
               u == b \o t
           IN  /\ IsSeq(b) /\ IsSeq(t)
               /\ Shape(u) /\ Ops(s) = {h} \cup Ops(t) /\ Ops(u) = Ops(b) \cup Ops(t)
               /\ ~Acting(u)
               /\ u # <<>> => u[1].op \notin {"enter", "go_home"}
               /\ h.op = "action" => Acting(s) /\ Ops(t) \subseteq {Op("arm")}
               /\ h.op # "action" => ~Acting(s)
               /\ h.op \in {"callback", "map", "transition"} => t = <<>>
               /\ h.op = "transition" => h.node \in Nodes
               /\ h.op = "reset" => t = <<lookup("callback", h.msg)>>
<1> DEFINE h == Head(s)
           t == Tail(s)
           b == Body(h)
           u == b \o t
           Right == /\ IsSeq(b) /\ IsSeq(t)
                    /\ Shape(u) /\ Ops(s) = {h} \cup Ops(t) /\ Ops(u) = Ops(b) \cup Ops(t)
                    /\ ~Acting(u)
                    /\ u # <<>> => u[1].op \notin {"enter", "go_home"}
                    /\ h.op = "action" => Acting(s) /\ Ops(t) \subseteq {Op("arm")}
                    /\ h.op # "action" => ~Acting(s)
                    /\ h.op \in {"callback", "map", "transition"} => t = <<>>
                    /\ h.op = "transition" => h.node \in Nodes
                    /\ h.op = "reset" => t = <<lookup("callback", h.msg)>>
<1> SUFFICES Right
  OBVIOUS
<1> USE Fields, Short, OpsShort
(* A loose rest has one call, its last statement; a message's callback is  *)
(* its last statement, too.                                                *)
<1>1. ASSUME s = <<h>>, IsSeq(b), Loose(b) \/ \E node \in Nodes : b = fsm_transition_to(node),
             h.op \in {"callback", "map", "transition"}, h.op = "transition" => h.node \in Nodes
      PROVE  Right
  <2>1. t = <<>> /\ ~Acting(s)
    <3>1. ~Acting(<<h>>)
      BY <1>1 DEF Acting
    <3> HIDE DEF h
    <3>2. Tail(s) = Tail(<<h>>)
      BY <1>1
    <3> QED BY <1>1, <3>1, <3>2
  <2>0. Ops(s) = {h} /\ Ops(t) = {} /\ IsSeq(t)
    <3> HIDE DEF h, t
    <3> QED BY <1>1, <2>1
  <2> HIDE DEF t, b
  <2>2. u = b /\ Ops(u) = Ops(b) \cup Ops(t)
    BY <1>1, <2>0, <2>1, JoinShort
  <2>3. Shape(b) /\ ~Acting(b) /\ (b # <<>> => b[1].op \notin {"enter", "go_home"})
    <3>1. CASE Loose(b)
      BY <3>1, LooseOps DEF PlainOps, Shape
    <3>2. ASSUME NEW node \in Nodes, b = fsm_transition_to(node) PROVE
              Shape(b) /\ ~Acting(b) /\ b[1].op \notin {"enter", "go_home"}
      BY <3>2 DEF fsm_transition_to, Shape, Going, Acting
    <3> QED BY <1>1, <3>1, <3>2
  <2> HIDE DEF u, h
  <2> QED BY <1>1, <2>0, <2>1, <2>2, <2>3
<1>2. CASE Loose(s)
  <2>1. s = <<h>> /\ IsLast(h)
    BY <1>2, LooseTail DEF IsPlain, PlainOps, Calls
  <2>2. h.op \in {"map", "transition"} /\ (h.op = "transition" => h.node \in Nodes)
    BY <2>1 DEF IsLast, Calls
  <2>3. CASE h.op = "map"
    <3>1. b = TryMap(h.msg)
      BY <2>3 DEF Body
    <3>2. Loose(b)
      BY <2>3, <3>1, MapLoose
    <3> QED BY <1>1, <2>1, <2>3, <3>2 DEF Loose
  <2>4. CASE h.op = "transition"
    <3>1. b = fsm_transition_to(h.node)
      BY <2>4 DEF Body
    <3>2. IsSeq(b)
      BY <3>1 DEF fsm_transition_to
    <3> QED BY <1>1, <2>1, <2>2, <2>4, <3>1, <3>2
  <2> QED BY <2>2, <2>3, <2>4
<1>3. CASE Dispatching(s)
  <2>1. PICK m : s \in {<<lookup("reset", m), lookup("callback", m)>>,
                        <<Start("inactivity"), lookup("callback", m)>>,
                        <<lookup("callback", m)>>}
    BY <1>3 DEF Dispatching
  <2>2. CASE s = <<lookup("reset", m), lookup("callback", m)>>
    <3>1. h = lookup("reset", m) /\ t = <<lookup("callback", m)>>
      BY <2>2
    <3>2. b \in {<<>>, <<Start("inactivity")>>}
      BY <3>1 DEF Body, reset_inactivity_timer
    <3>3. u \in {<<lookup("callback", m)>>, <<Start("inactivity"), lookup("callback", m)>>}
      <4>1. CASE b = <<>>
        BY <3>1, <4>1, JoinShort
      <4>2. CASE b = <<Start("inactivity")>>
        <5>1. u = <<Start("inactivity")>> \o <<lookup("callback", m)>>
          BY <3>1, <4>2
        <5> HIDE DEF u
        <5> QED BY <5>1, JoinTwo
      <4> QED BY <3>2, <4>1, <4>2
    <3>4. /\ IsSeq(b) /\ IsSeq(t) /\ Ops(s) = {h} \cup Ops(t) /\ Ops(u) = Ops(b) \cup Ops(t)
          /\ ~Acting(s) /\ h.op = "reset" /\ h.msg = m
      BY <2>2, <3>1, <3>2, OpsJoin DEF Acting
    <3> HIDE DEF b, h, t, u
    <3>5. Shape(u) /\ ~Acting(u) /\ u[1].op \notin {"enter", "go_home"}
      BY <3>3 DEF Shape, Dispatching, Acting
    <3> QED BY <3>1, <3>3, <3>4, <3>5
  <2>3. CASE s = <<Start("inactivity"), lookup("callback", m)>>
    BY <2>3 DEF Calls
  <2>4. CASE s = <<lookup("callback", m)>>
    <3>1. h = lookup("callback", m) /\ b = TryCallback(m)
      BY <2>4 DEF Body
    <3>2. Loose(b)
      BY <3>1, CallbackLoose
    <3> QED BY <1>1, <2>4, <3>1, <3>2 DEF Loose
  <2> QED BY <2>1, <2>2, <2>3, <2>4
<1>4. CASE Going(s)
  BY <1>4 DEF Going, fsm_transition_to, Entering, Enter, Stop, Calls
<1>5. CASE Homing(s)
  <2>1. h.op \in {"set", "stop", "go_home"}
    <3>1. CASE s = fsm_emergency_off
      <4>1. s = <<Emergency, Stop("inactivity"), Op("go_home"), Op("action")>>
        BY <3>1, Zenon DEF fsm_emergency_off, Emergency
      <4>2. h = Emergency
        BY <4>1
      <4> QED BY <4>2, Flags
    <3>2. CASE s = <<Stop("inactivity"), Op("go_home"), Op("action")>>
      BY <3>2
    <3>3. CASE s = <<Op("go_home"), Op("action")>>
      BY <3>3
    <3> QED BY <1>5, <3>1, <3>2, <3>3 DEF Homing
  <2> QED BY <2>1 DEF Calls
<1>6. CASE Acting(s)
  <2>1. h = Op("action") /\ t \in {<<>>, <<Op("arm")>>}
    <3>1. CASE s = <<Op("action")>>
      BY <3>1
    <3>2. CASE s = <<Op("action"), Op("arm")>>
      BY <3>2
    <3> QED BY <1>6, <3>1, <3>2 DEF Acting
  <2>2. b = Action(action_routine(current_node))
    BY <2>1 DEF Body
  <2>3. Plain(b) /\ Loose(t)
    <3>1. Loose(<<>>) /\ Loose(<<Op("arm")>>)
      BY Plain0, LoosePlain, LooseOne DEF IsLast
    <3> HIDE DEF t, h, b
    <3> QED BY <2>1, <2>2, <3>1, ActionPlain
  <2>4. Loose(u)
    BY <2>3, LooseJoin
  <2>5. IsSeq(b) /\ IsSeq(t)
    BY <2>3 DEF Plain, Loose
  <2>6. Ops(s) = {h} \cup Ops(t) /\ Ops(t) \subseteq {Op("arm")} /\ Ops(u) = Ops(b) \cup Ops(t)
    <3>1. Ops(s) = {h} \cup Ops(t)
      BY OpsTail, <1>6 DEF Acting
    <3> HIDE DEF t, h, b
    <3> QED BY <2>1, <2>5, <3>1, OpsJoin
  <2> HIDE DEF h, b, t, u
  <2>7. ~Acting(u) /\ (u # <<>> => u[1].op \notin {"enter", "go_home"})
    BY <2>4, LooseOps DEF PlainOps
  <2> QED BY <1>6, <2>1, <2>4, <2>5, <2>6, <2>7 DEF Shape
<1> QED BY <1>2, <1>3, <1>4, <1>5, <1>6 DEF Shape

-----------------------------------------------------------------------------
(* Navigation: the shapes, and nodes there are.  Before the first node is  *)
(* entered nothing but its transition is pending.                          *)
Starting == Going(todo) \/ \E node \in Nodes : todo = <<transition_to(node)>>

NodeInv ==
    /\ current_node \in Nodes \cup {NULL} /\ previous_node \in Nodes \cup {NULL}
    /\ home_node \in OffNodes
    /\ current_node = NULL => Undisturbed /\ Starting

NavInv == IInv /\ ShapeInv /\ NodeInv

(* NULL is not a node.                                                     *)
LEMMA NullIsNoNode == NULL \notin Nodes /\ OffNodes \subseteq Nodes /\ OnNodes \subseteq Nodes
BY DEF NULL, Nodes, SimpleNodes, AdvancedNodes, OffNodes, OnNodes

(* From boot to its first node the worker has a transition to carry out.   *)
LEMMA StartingHead ==
    ASSUME Starting
    PROVE  /\ todo # <<>> /\ Head(todo).op \in {"transition", "stop", "enter"}
           /\ todo[1] = Head(todo)
<1>1. CASE Going(todo)
  BY <1>1 DEF Going, fsm_transition_to, Entering, Enter, Stop
<1>2. ASSUME NEW node \in Nodes, todo = <<transition_to(node)>>
      PROVE  todo # <<>> /\ Head(todo).op = "transition" /\ todo[1] = Head(todo)
  BY <1>2, Short, One, Fields
<1> QED BY <1>1, <1>2 DEF Starting

(* What a context calls is called in a node.                               *)
LEMMA CallReady ==
    ASSUME NavInv
    PROVE  /\ isr = <<>> /\ todo # <<>> =>
                /\ Head(todo) = todo[1]
                /\ Head(todo).op \notin {"transition", "stop", "enter"} => current_node \in Nodes
                /\ Head(todo).op = "callback" => Head(todo).msg.type \in MessageTypes
           /\ isr # <<>> =>
                /\ current_node \in Nodes /\ Head(isr).op \notin {"callback", "map", "reset", "go_home"}
                /\ ~Acting(todo)
                /\ todo # <<>> => todo[1].op \notin {"enter", "go_home"}
           /\ todo = <<>> => current_node \in Nodes
<1>1. ASSUME todo # <<>>
      PROVE  Head(todo) = todo[1] /\ (Head(todo).op = "callback" => Head(todo).msg.type \in MessageTypes)
  <2>1. Head(todo) = todo[1] /\ 1 \in 1..Len(todo)
    BY <1>1, WorkerTail DEF NavInv
  <2> QED BY <2>1 DEF NavInv, IInv, WorkerInv
<1>2. current_node = NULL => Starting /\ isr = <<>>
  BY DEF NavInv, NodeInv, Undisturbed
<1>3. ASSUME isr # <<>> PROVE Head(isr).op \notin {"callback", "map", "reset", "go_home"}
  <2>1. IsHandlers(Head(isr))
    BY <1>3, HandlerTail DEF NavInv
  <2> QED BY <2>1 DEF IsHandlers, PlainOps
<1>4. current_node \in Nodes \cup {NULL}
  BY DEF NavInv, NodeInv
<1>5. ASSUME isr # <<>>
      PROVE ~Acting(todo) /\ (todo # <<>> => todo[1].op \notin {"enter", "go_home"})
  BY <1>5 DEF NavInv, ShapeInv, Undisturbed
<1> QED BY <1>1, <1>2, <1>3, <1>4, <1>5, StartingHead

(* A message, or a shutdown, is taken.                                     *)
LEMMA NavDeliver ==
    ASSUME NavInv, IInv', NEW s, Deliver(s), Dispatching(s) \/ s = fsm_emergency_off, 
           UNCHANGED <<previous_node, home_node>>
    PROVE  NavInv'
<1>1. /\ todo = <<>> /\ isr = <<>> /\ todo' = s
      /\ UNCHANGED <<current_node, home_node, timer, isr, previous_node>>
  BY DEF Deliver, AtRest
<1>2. current_node \in Nodes
  BY <1>1, CallReady
<1>3. Shape(s)
  BY DEF Shape, Homing
<1>4. ~Acting(s) /\ s[1].op \notin {"enter", "go_home"}
  <2>1. CASE Dispatching(s)
    BY <2>1, Fields DEF Dispatching, Acting
  <2>2. CASE s = fsm_emergency_off
    <3>1. s = <<Emergency, Stop("inactivity"), Op("go_home"), Op("action")>>
      BY <2>2, Zenon DEF fsm_emergency_off, Emergency
    <3> QED BY <3>1, Four, Flags DEF Acting
  <2> QED BY <2>1, <2>2
<1>5. ShapeInv'
  BY <1>1, <1>3, <1>4 DEF ShapeInv, NavInv
<1>6. NodeInv'
  BY <1>1, <1>2, NullIsNoNode DEF NodeInv, NavInv
<1> QED BY <1>5, <1>6 DEF NavInv

(* NavInv when a message is taken.                                         *)
LEMMA NavInput ==
    ASSUME NavInv, IInv', Tap \/ HoldStart \/ HoldRelease \/ Shutdown
    PROVE  NavInv'
<1>1. ASSUME NEW msg, Deliver(dispatch_input(msg)) PROVE NavInv'
  BY <1>1, NavDeliver DEF Dispatching, dispatch_input, Deliver
<1>2. ASSUME Deliver(fsm_emergency_off) PROVE NavInv'
  BY <1>2, NavDeliver DEF Deliver
<1> QED BY <1>1, <1>2 DEF Tap, HoldStart, HoldRelease, Shutdown

(* A reset.                                                                *)
LEMMA NavReboot ==
    ASSUME NEW flash, Reboot(flash), flash.mode \in {"SIMPLE", "ADVANCED"}, IInv'
    PROVE  NavInv'
<1> DEFINE home == OffNode(flash.mode)
<1>1. /\ todo' = <<transition_to(home)>> /\ isr' = <<>>
      /\ timer' = [t \in Timers |-> "stopped"] /\ home_node' = home
      /\ current_node' = NULL /\ previous_node' = NULL
  BY DEF Reboot
<1>2. home \in OffNodes /\ home \in Nodes
  BY NullIsNoNode DEF OffNode, OffNodes
<1> HIDE DEF home
<1>3. Loose(<<>>) /\ Loose(<<transition_to(home)>>)
  BY <1>2, Plain0, LoosePlain, LooseOne, Fields DEF IsLast
<1>4. ~Acting(<<transition_to(home)>>) /\ <<transition_to(home)>>[1].op = "transition"
  BY Fields DEF Acting
<1>5. ShapeInv'
  BY <1>1, <1>3, <1>4 DEF ShapeInv, Shape, Loose
<1>6. NodeInv'
  BY <1>1, <1>2 DEF NodeInv, Undisturbed, Starting, Timers
<1> QED BY <1>5, <1>6 DEF NavInv

(* The worker.                                                             *)
LEMMA NavWorkerCalls == ASSUME NavInv, IInv', WorkerCalls PROVE NavInv'
<1> DEFINE s == todo
           h == Head(s)
           t == Tail(s)
           b == Body(h)
           u == b \o t
<1>1. /\ isr = <<>> /\ todo # <<>> /\ h.op \in Calls /\ todo' = u
      /\ UNCHANGED <<current_node, previous_node, home_node, timer, isr>>
  BY DEF WorkerCalls
<1>2. /\ h.op = "callback" => h.msg.type \in MessageTypes
      /\ h.op # "transition" => current_node \in Nodes
  BY <1>1, CallReady DEF Calls
<1>3. /\ Shape(u) /\ ~Acting(u) /\ (u # <<>> => u[1].op \notin {"enter", "go_home"})
      /\ h.op = "transition" => h.node \in Nodes /\ t = <<>>
      /\ IsSeq(b)
  BY <1>1, <1>2, ShapeCall DEF NavInv, ShapeInv
<1>4. ShapeInv'
  BY <1>1, <1>3 DEF ShapeInv, NavInv
<1>5. h.op = "transition" => Going(u)
  <2>1. h.op = "transition" => b = fsm_transition_to(h.node)
    BY DEF Body
  <2>2. h.op = "transition" => u = b
    BY <1>3, JoinShort
  <2> QED BY <1>3, <2>1, <2>2 DEF Going
<1> HIDE DEF u, b, h
<1>6. NodeInv'
  BY <1>1, <1>2, <1>5, NullIsNoNode DEF NodeInv, NavInv, Undisturbed, Starting
<1> QED BY <1>4, <1>6 DEF NavInv

(* The nodes a statement leaves.                                           *)
LEMMA NodesAfter ==
    ASSUME NEW o, Execute(o)
    PROVE  /\ home_node' = home_node
           /\ o.op = "enter" => current_node' = o.node /\ previous_node' = current_node
           /\ o.op = "go_home" => current_node' = home_node /\ previous_node' = previous_node
           /\ o.op \notin {"enter", "go_home"} => UNCHANGED <<current_node, previous_node>>
BY DEF Execute, NodeAfter

(* NavInv when the worker executes a statement.                            *)
LEMMA NavWorkerExecutes == ASSUME NavInv, IInv', WorkerExecutes PROVE NavInv'
<1> DEFINE h == Head(todo)
           t == Tail(todo)
<1>1. /\ isr = <<>> /\ todo # <<>> /\ h.op \notin Calls /\ todo' = t /\ Execute(h) /\ isr' = isr
  BY DEF WorkerExecutes
<1>2. /\ Shape(t) /\ ~Acting(todo)
      /\ Acting(t) <=> h.op \in {"enter", "go_home"}
      /\ h.op = "enter" => h.node \in Nodes
      /\ t # <<>> /\ t[1].op \in {"enter", "go_home"} => h = Stop("inactivity")
  BY <1>1, ShapeTail DEF NavInv, ShapeInv
<1>3. h = todo[1]
  BY <1>1, CallReady
<1> HIDE DEF t
<1>4. h = Stop("inactivity") => timer'["inactivity"] = "stopped"
  BY <1>1, <1>3, Executes DEF NavInv, IInv, WorkerInv
<1>5. h.op \in {"enter", "go_home"} => timer'["inactivity"] = "stopped"
  <2> SUFFICES ASSUME h.op \in {"enter", "go_home"} PROVE timer'["inactivity"] = "stopped"
    OBVIOUS
  <2>1. timer' = timer
    BY <1>1 DEF Execute, TimerAfter
  <2> QED BY <1>1, <1>3, <2>1 DEF NavInv, ShapeInv, Undisturbed
<1>6. ShapeInv'
  BY <1>1, <1>2, <1>4, <1>5 DEF ShapeInv, NavInv, Undisturbed
<1>7. NodeInv'
  <2>1. CASE h.op = "enter"
    BY <1>1, <1>2, <2>1, NodesAfter, NullIsNoNode DEF NodeInv, NavInv
  <2>2. CASE h.op = "go_home"
    BY <1>1, <1>2, <2>2, NodesAfter, NullIsNoNode DEF NodeInv, NavInv
  <2>3. CASE h.op \notin {"enter", "go_home"}
    <3>1. ASSUME current_node = NULL PROVE Undisturbed' /\ Starting'
      <4>1. Starting
        BY <3>1 DEF NavInv, NodeInv
      <4>2. PICK node \in Nodes : todo = fsm_transition_to(node)
        <5>1. ASSUME NEW node \in Nodes PROVE todo # Entering(node) /\ todo # <<transition_to(node)>>
          BY <1>1, <2>3 DEF Entering, Enter, transition_to, Calls
        <5> QED BY <4>1, <5>1 DEF Starting, Going
      <4>3. h = Stop("inactivity") /\ t = Entering(node)
        BY <4>2 DEF fsm_transition_to, Entering, Enter, t
      <4> QED BY <1>1, <1>4, <4>3 DEF Undisturbed, Starting, Going
    <3> QED BY <1>1, <2>3, <3>1, NodesAfter DEF NodeInv, NavInv
  <2> QED BY <2>1, <2>2, <2>3
<1> QED BY <1>6, <1>7 DEF NavInv

(* The handler.                                                            *)
LEMMA NavPasses == ASSUME NavInv, IInv', InactivityPasses PROVE NavInv'
<1>1. /\ timer["inactivity"] = "running" /\ timer' = [timer EXCEPT !["inactivity"] = "due"]
      /\ UNCHANGED <<current_node, previous_node, home_node, todo, isr>>
  BY DEF InactivityPasses
<1>2. ~Undisturbed
  BY <1>1 DEF Undisturbed
<1> QED BY <1>1, <1>2, MayRunKept DEF NavInv, ShapeInv, NodeInv

(* NavInv when the inactivity handler starts.                              *)
LEMMA NavHandler == ASSUME NavInv, IInv', inactivity_timer_handler PROVE NavInv'
<1> DEFINE node == IF timeout_node(current_node) # NULL THEN timeout_node(current_node)
                                                        ELSE home_node
<1>1. /\ isr = <<>> /\ timer["inactivity"] = "due" /\ isr' = Then(node)
      /\ UNCHANGED <<current_node, previous_node, home_node, todo>>
  BY DEF inactivity_timer_handler
<1>2. node \in Nodes
  BY NullIsNoNode DEF timeout_node, NavInv, NodeInv, Nodes, AdvancedNodes, SimpleNodes
<1>3. Loose(isr') /\ isr' # <<>>
  BY <1>1, <1>2, LooseOne, Fields, NullIsNoNode DEF Then, IsLast
<1> HIDE DEF node
<1>4. ~Undisturbed
  BY <1>1 DEF Undisturbed
<1>5. current_node \in MayRun
  BY <1>1 DEF NavInv, IInv, TimerInv
<1> QED BY <1>1, <1>3, <1>4, <1>5, MayRunKept DEF NavInv, ShapeInv, NodeInv, Shape, Loose

(* NavInv when the handler calls.                                          *)
LEMMA NavIsrCalls == ASSUME NavInv, IInv', IsrCalls PROVE NavInv'
<1> DEFINE h == Head(isr)
           u == Body(h) \o Tail(isr)
<1>1. /\ isr # <<>> /\ h.op \in Calls /\ isr' = u
      /\ UNCHANGED <<current_node, previous_node, home_node, timer, todo>>
  BY DEF IsrCalls
<1>2. current_node \in Nodes /\ ~Acting(todo) /\ (todo # <<>> => todo[1].op \notin {"enter", "go_home"})
      /\ h.op # "callback"
  BY <1>1, CallReady
<1>3. Shape(u)
  BY <1>1, <1>2, ShapeCall DEF NavInv, ShapeInv
<1> HIDE DEF u
<1>4. ShapeInv'
  BY <1>1, <1>2, <1>3, MayRunKept DEF NavInv, ShapeInv
<1>5. NodeInv'
  BY <1>1, <1>2, NullIsNoNode DEF NavInv, NodeInv
<1> QED BY <1>4, <1>5 DEF NavInv

(* NavInv when the handler executes a statement.                           *)
LEMMA NavIsrExecutes == ASSUME NavInv, IInv', IsrExecutes PROVE NavInv'
<1> DEFINE h == Head(isr)
           t == Tail(isr)
<1>1. /\ isr # <<>> /\ h.op \notin Calls /\ isr' = t /\ Execute(h) /\ UNCHANGED todo
  BY DEF IsrExecutes
<1>2. current_node \in Nodes /\ ~Acting(todo) /\ (todo # <<>> => todo[1].op \notin {"enter", "go_home"})
      /\ h.op # "go_home"
  BY <1>1, CallReady
<1>3. Shape(t) /\ (h.op = "enter" => h.node \in Nodes)
  BY <1>1, ShapeTail DEF NavInv, ShapeInv
<1>4. h.op = "enter" => h.node \in MayRun
  <2>1. IsHandlers(h)
    BY <1>1, HandlerTail DEF NavInv
  <2> QED BY <2>1 DEF IsHandlers
<1>5. /\ home_node' = home_node
      /\ current_node' \in Nodes /\ previous_node' \in Nodes \cup {NULL}
      /\ current_node' \in MayRun
  BY <1>1, <1>2, <1>3, <1>4, NodesAfter DEF NavInv, NodeInv, ShapeInv
<1> HIDE DEF t
<1>6. ShapeInv'
  BY <1>1, <1>2, <1>3, <1>5, MayRunKept DEF NavInv, ShapeInv
<1>7. NodeInv'
  BY <1>5, NullIsNoNode DEF NavInv, NodeInv
<1> QED BY <1>6, <1>7 DEF NavInv

(* The invariant of the navigation.                                        *)
LEMMA NavInit == ASSUME Init, IInv PROVE NavInv
<1>1. PICK mode \in StartModes :
        /\ home_node = OffNode(mode) /\ current_node = NULL /\ previous_node = NULL
        /\ timer = [t \in Timers |-> "stopped"] /\ isr = <<>>
        /\ todo = <<transition_to(home_node)>>
  BY DEF Init
<1>2. home_node \in OffNodes /\ home_node \in Nodes
  BY <1>1, NullIsNoNode DEF OffNode, OffNodes
<1>3. Loose(<<>>) /\ Loose(<<transition_to(home_node)>>)
  BY <1>2, Plain0, LoosePlain, LooseOne, Fields DEF IsLast
<1>4. ~Acting(<<transition_to(home_node)>>) /\ <<transition_to(home_node)>>[1].op = "transition"
  BY Fields DEF Acting
<1>5. ShapeInv
  BY <1>1, <1>3, <1>4 DEF ShapeInv, Shape
<1>6. NodeInv
  BY <1>1, <1>2 DEF NodeInv, Undisturbed, Starting, Timers
<1> QED BY <1>5, <1>6 DEF NavInv

-----------------------------------------------------------------------------
(* The static variables, field by field.                                   *)
UiFields == {"mode", "memorized", "floor", "ceiling", "style", "brightness", "override",
             "ramp_direction", "ramp_active", "active_param", "strobe_type", "strobe_on",
             "suspended", "led", "emergency"}

(* The fields single assignments write.                                    *)
SetFields == {"mode", "floor", "ceiling", "ramp_direction", "ramp_active", "active_param",
              "strobe_on", "suspended", "emergency"}

(* What one statement changes of the static variables, and what it leaves. *)
LEMMA UiExec ==
    ASSUME NEW o, Execute(o), DOMAIN ui = UiFields, o.op = "set" => o.var \in SetFields
    PROVE  /\ DOMAIN ui' = UiFields
           /\ \A f \in SetFields : Writes(o, f) => ui'[f] = o.val
           /\ ~Writes(o, "mode") => ui'.mode = ui.mode
           /\ ~Writes(o, "floor") => ui'.floor = ui.floor
           /\ ~Writes(o, "ceiling") => ui'.ceiling = ui.ceiling
           /\ ~Writes(o, "active_param") => ui'.active_param = ui.active_param
           /\ o.op # "save_memory" => ui'.memorized = ui.memorized
           /\ o.op = "save_memory" =>
                 /\ ui'.ramp_direction = 0 /\ ui'.ramp_active = FALSE
                 /\ ui'.memorized = ui.memorized \/ (ui.ramp_active /\ ui'.memorized = ui.brightness)
           /\ ~Writes(o, "ramp_direction") /\ o.op # "save_memory" =>
                 ui'.ramp_direction = ui.ramp_direction
           /\ ~Writes(o, "ramp_active") /\ o.op # "save_memory" =>
                 ui'.ramp_active = ui.ramp_active
           /\ o.op = "next_strobe" => ui'.strobe_type = (ui.strobe_type % Len(StrobeTypes)) + 1
           /\ o.op # "next_strobe" => ui'.strobe_type = ui.strobe_type
           /\ ~Writes(o, "strobe_on") /\ o.op # "strobe_entry" => ui'.strobe_on = ui.strobe_on
           /\ o.op = "strobe_entry" => ui'.strobe_on \in BOOLEAN
           /\ o.op \notin LevelOps => ui'.brightness = ui.brightness
           /\ o.op = "level_on" => ui'.brightness \in OnLevels /\ ui'.override = 0
           /\ o.op = "level_floor" => ui'.brightness = ui.floor
           /\ o.op = "level_ceiling" => ui'.brightness = ui.ceiling
           /\ o.op = "override_floor" => ui'.override = ui.floor
           /\ o.op \notin {"override_floor", "level_on"} => ui'.override = ui.override
           /\ o.op = "led" => ui'.led = o.level
           /\ o.op = "led_brightness" => ui'.led = ui.brightness
           /\ o.op \notin {"led", "led_brightness"} => ui'.led = ui.led
<1>0. ui' \in UiAfter(o)
  BY DEF Execute
<1> USE DEF UiFields, LevelOps, Writes
<1>1. CASE o.op = "led"
  <2>1. ui' = [ui EXCEPT !.led = o.level]
    BY <1>0, <1>1 DEF UiAfter
  <2> QED BY <1>1, <2>1
<1>2. CASE o.op = "led_brightness"
  <2>1. ui' = [ui EXCEPT !.led = ui.brightness]
    BY <1>0, <1>2 DEF UiAfter
  <2> QED BY <1>2, <2>1
<1>3. CASE o.op = "set"
  <2>1. ui' = [ui EXCEPT ![o.var] = o.val]
    BY <1>0, <1>3 DEF UiAfter
  <2> QED BY <1>3, <2>1 DEF SetFields
<1>4. CASE o.op = "save_memory"
  <2>1. ui' = SaveMemory
    BY <1>0, <1>4 DEF UiAfter
  <2> QED BY <1>4, <2>1 DEF SaveMemory
<1>5. CASE o.op = "level_on"
  <2>1. PICK l \in OnLevels : ui' = [ui EXCEPT !.brightness = l, !.override = 0]
    BY <1>0, <1>5 DEF UiAfter
  <2> QED BY <1>5, <2>1
<1>6. CASE o.op = "level_floor"
  <2>1. ui' = [ui EXCEPT !.brightness = ui.floor]
    BY <1>0, <1>6 DEF UiAfter
  <2> QED BY <1>6, <2>1
<1>7. CASE o.op = "level_ceiling"
  <2>1. ui' = [ui EXCEPT !.brightness = ui.ceiling]
    BY <1>0, <1>7 DEF UiAfter
  <2> QED BY <1>7, <2>1
<1>8. CASE o.op = "override_floor"
  <2>1. ui' = [ui EXCEPT !.override = ui.floor]
    BY <1>0, <1>8 DEF UiAfter
  <2> QED BY <1>8, <2>1
<1>9. CASE o.op = "toggle_style"
  <2>1. PICK style : ui' = [ui EXCEPT !.style = style]
    BY <1>0, <1>9 DEF UiAfter
  <2> QED BY <1>9, <2>1
<1>10. CASE o.op = "next_strobe"
  <2>1. ui' = [ui EXCEPT !.strobe_type = (ui.strobe_type % Len(StrobeTypes)) + 1]
    BY <1>0, <1>10 DEF UiAfter
  <2> HIDE DEF StrobeTypes
  <2> QED BY <1>10, <2>1
<1>11. CASE o.op = "strobe_entry"
  <2>1. PICK on \in BOOLEAN : ui' = [ui EXCEPT !.strobe_on = on]
    BY <1>0, <1>11 DEF UiAfter
  <2> QED BY <1>11, <2>1
<1>12. CASE o.op \notin {"led", "led_brightness", "set", "save_memory", "level_on", "level_floor",
                         "level_ceiling", "override_floor", "toggle_style", "next_strobe",
                         "strobe_entry"}
  <2>1. ui' = ui
    BY <1>0, <1>12 DEF UiAfter
  <2> QED BY <1>12, <2>1
<1> QED BY <1>1, <1>2, <1>3, <1>4, <1>5, <1>6, <1>7, <1>8, <1>9, <1>10, <1>11, <1>12

(* What the other four handlers write.                                     *)
Ticks == thermal_timer_handler \/ ramp_timer_handler \/ strobe_timer_handler \/ buzz_timer_handler

RampTicks ==
    /\ timer["ramp"] = "running" /\ ui'.strobe_on = ui.strobe_on
    /\ LET next == RampTick(ui.brightness, ui.ramp_direction, ui.style, ui.floor, ui.ceiling, Steps)
       IN  \/ /\ ui.active_param = "BRIGHTNESS"
              /\ ui'.brightness = next.level /\ ui'.led = next.level
              /\ ui'.ramp_direction = next.direction
           \/ /\ ui'.brightness = ui.brightness /\ ui'.led = ui.led
              /\ ui'.ramp_direction \in {ui.ramp_direction, - ui.ramp_direction}

OtherTicks ==
    /\ ui'.brightness = ui.brightness /\ ui'.ramp_direction = ui.ramp_direction
    /\ \/ ui'.strobe_on = ui.strobe_on /\ ui'.led = ui.brightness
       \/ timer["buzz"] = "running" /\ ui'.strobe_on = ui.strobe_on /\ ui'.led \in {1, 4}
       \/ timer["strobe"] = "running" /\ ui'.strobe_on = ui.strobe_on /\ ui'.led \in {40, MaxLevel}
       \/ timer["strobe"] = "running" /\ ui'.strobe_on = (~ui.strobe_on) /\ ui'.led \in {0, MaxLevel}

(* What the other timers' handlers change of them, and what they leave.    *)
LEMMA UiTicks ==
    ASSUME DOMAIN ui = UiFields, ui.strobe_type \in 1..4, Ticks
    PROVE  /\ DOMAIN ui' = UiFields
           /\ ui'.mode = ui.mode /\ ui'.memorized = ui.memorized /\ ui'.floor = ui.floor
           /\ ui'.ceiling = ui.ceiling /\ ui'.override = ui.override
           /\ ui'.ramp_active = ui.ramp_active /\ ui'.active_param = ui.active_param
           /\ ui'.strobe_type = ui.strobe_type
           /\ RampTicks \/ OtherTicks
           /\ UNCHANGED <<current_node, previous_node, home_node, timer, todo, isr, holding>>
<1> USE DEF UiFields
<1>1. UNCHANGED <<current_node, previous_node, home_node, timer, todo, isr, holding>>
  BY DEF Ticks, thermal_timer_handler, ramp_timer_handler, strobe_timer_handler,
         buzz_timer_handler, Expires
<1>2. CASE thermal_timer_handler
  <2>1. ui' = [ui EXCEPT !.led = ui.brightness]
    BY <1>2 DEF thermal_timer_handler
  <2> QED BY <1>1, <2>1 DEF OtherTicks
<1>3. CASE ramp_timer_handler
  <2> DEFINE next == RampTick(ui.brightness, ui.ramp_direction, ui.style, ui.floor, ui.ceiling, Steps)
  <2>1. /\ ui.active_param = "BRIGHTNESS" =>
              ui' = [ui EXCEPT !.brightness = next.level, !.led = next.level,
                               !.ramp_direction = next.direction]
        /\ ui.active_param # "BRIGHTNESS" =>
              \E d \in {ui.ramp_direction, - ui.ramp_direction} :
                  ui' = [ui EXCEPT !.ramp_direction = d]
        /\ timer["ramp"] = "running"
    BY <1>3 DEF ramp_timer_handler, Expires
  <2> HIDE DEF next
  <2>2. CASE ui.active_param = "BRIGHTNESS"
    <3>1. RampTicks
      BY <2>1, <2>2 DEF RampTicks, next
    <3> QED BY <1>1, <2>1, <2>2, <3>1
  <2>3. CASE ui.active_param # "BRIGHTNESS"
    <3>1. PICK d \in {ui.ramp_direction, - ui.ramp_direction} : ui' = [ui EXCEPT !.ramp_direction = d]
      BY <2>1, <2>3
    <3>2. RampTicks
      BY <2>1, <3>1 DEF RampTicks
    <3> QED BY <1>1, <3>1, <3>2
  <2> QED BY <2>2, <2>3
<1>4. CASE strobe_timer_handler
  <2>1. /\ \/ ui' = [ui EXCEPT !.strobe_on = ~@, !.led = IF ui.strobe_on THEN 0 ELSE MaxLevel]
           \/ \E l \in {40, MaxLevel} : ui' = [ui EXCEPT !.led = l]
        /\ timer["strobe"] = "running"
    <3>1. StrobeTypes[ui.strobe_type] \in {"PARTY", "TACTICAL", "CANDLE", "BIKE"}
      BY DEF StrobeTypes
    <3> QED BY <1>4, <3>1 DEF strobe_timer_handler, Expires
  <2>2. CASE ui' = [ui EXCEPT !.strobe_on = ~@, !.led = IF ui.strobe_on THEN 0 ELSE MaxLevel]
    BY <1>1, <2>1, <2>2 DEF OtherTicks
  <2>3. CASE \E l \in {40, MaxLevel} : ui' = [ui EXCEPT !.led = l]
    BY <1>1, <2>1, <2>3 DEF OtherTicks
  <2> QED BY <2>1, <2>2, <2>3
<1>5. CASE buzz_timer_handler
  <2>1. timer["buzz"] = "running" /\ \E l \in {1, 4} : ui' = [ui EXCEPT !.led = l]
    BY <1>5 DEF buzz_timer_handler, Expires
  <2> QED BY <1>1, <2>1 DEF OtherTicks
<1> QED BY <1>2, <1>3, <1>4, <1>5 DEF Ticks

(* A reset loads the settings and forgets the rest.                        *)
LEMMA UiBoot ==
    ASSUME NEW flash, DOMAIN flash = {"mode", "memorized", "floor", "ceiling", "style"}
    PROVE  LET u == BootUi(flash)
           IN  /\ DOMAIN u = UiFields
               /\ u.mode = flash.mode /\ u.memorized = flash.memorized
               /\ u.floor = flash.floor /\ u.ceiling = flash.ceiling
               /\ u.brightness = 0 /\ u.override = 0 /\ u.ramp_direction = 0
               /\ u.ramp_active = FALSE /\ u.active_param = "BRIGHTNESS"
               /\ u.strobe_type = 1 /\ u.strobe_on = FALSE /\ u.led = 0
BY DEF BootUi, UiFields

(* What flash holds after a save, and by default.                          *)
LEMMA Flashes ==
    /\ DOMAIN Saved = {"mode", "memorized", "floor", "ceiling", "style"}
    /\ Saved.mode = ui.mode /\ Saved.memorized = ui.memorized
    /\ Saved.floor = ui.floor /\ Saved.ceiling = ui.ceiling
    /\ \A mode : /\ DOMAIN Defaults(mode) = {"mode", "memorized", "floor", "ceiling", "style"}
                 /\ Defaults(mode).mode = mode /\ Defaults(mode).memorized = DefaultMemory
                 /\ Defaults(mode).floor = DefaultFloor /\ Defaults(mode).ceiling = DefaultCeiling
BY DEF Saved, Defaults

-----------------------------------------------------------------------------
(* The statements of a body.                                               *)
CallbackOf(msg) == Callback(CallbackFor(msg), msg.count)
AnyClick(msg)   == Callback(any_click_callback(current_node), msg.count)

OpsThen(node) == IF node = NULL THEN {} ELSE {transition_to(node)}

(* The statements a call is replaced by.                                   *)
LEMMA CallsOps ==
    ASSUME NEW h
    PROVE  /\ h.op = "transition" =>
                 Ops(Body(h)) = {Stop("inactivity"), Enter(h.node), Op("action"), Op("arm")}
           /\ h.op = "reset" => Ops(Body(h)) \subseteq {Start("inactivity")}
           /\ h.op = "callback" /\ h.msg.type \in MessageTypes =>
                 Ops(Body(h)) = Ops(CallbackOf(h.msg).ops) \cup
                     (IF CallbackOf(h.msg).next # NULL THEN OpsThen(CallbackOf(h.msg).next)
                      ELSE IF h.msg.type = "HOLD_RELEASE" THEN {} ELSE {lookup("map", h.msg)})
           /\ h.op = "map" =>
                 Ops(Body(h)) =
                     IF MapFor(h.msg) # NULL THEN OpsThen(MapFor(h.msg))
                     ELSE IF h.msg.type = "TAP"
                          THEN Ops(AnyClick(h.msg).ops) \cup OpsThen(AnyClick(h.msg).next)
                          ELSE {}
           /\ h.op = "action" => Body(h) = Action(action_routine(current_node))
<1> USE Short, OpsShort
<1>1. h.op = "transition" =>
        Ops(Body(h)) = {Stop("inactivity"), Enter(h.node), Op("action"), Op("arm")}
  BY DEF Body, fsm_transition_to, Enter
<1>2. h.op = "reset" => Ops(Body(h)) \subseteq {Start("inactivity")}
  BY DEF Body, reset_inactivity_timer
<1>3. h.op = "action" => Body(h) = Action(action_routine(current_node))
  BY DEF Body
<1>4. \A node : IsSeq(Then(node)) /\ Ops(Then(node)) = OpsThen(node)
  BY DEF Then, OpsThen
<1>5. ASSUME h.op = "callback", h.msg.type \in MessageTypes
      PROVE  Ops(Body(h)) = Ops(CallbackOf(h.msg).ops) \cup
                     (IF CallbackOf(h.msg).next # NULL THEN OpsThen(CallbackOf(h.msg).next)
                      ELSE IF h.msg.type = "HOLD_RELEASE" THEN {} ELSE {lookup("map", h.msg)})
  <2> DEFINE cb == CallbackOf(h.msg)
             rest == IF cb.next # NULL THEN Then(cb.next)
                     ELSE IF h.msg.type = "HOLD_RELEASE" THEN <<>> ELSE <<lookup("map", h.msg)>>
  <2>1. Body(h) = cb.ops \o rest
    BY <1>5 DEF Body, TryCallback, CallbackOf
  <2>2. IsSeq(cb.ops)
    BY <1>5, CallbacksNamed, CallbackPlain DEF Plain, CallbackOf
  <2>3. IsSeq(rest) /\ Ops(rest) = IF cb.next # NULL THEN OpsThen(cb.next)
                     ELSE IF h.msg.type = "HOLD_RELEASE" THEN {} ELSE {lookup("map", h.msg)}
    BY <1>4
  <2> HIDE DEF rest, cb
  <2>4. Ops(Body(h)) = Ops(cb.ops) \cup Ops(rest)
    BY <2>1, <2>2, <2>3, OpsJoin
  <2> QED BY <2>3, <2>4 DEF cb
<1>6. ASSUME h.op = "map"
      PROVE  Ops(Body(h)) =
                     IF MapFor(h.msg) # NULL THEN OpsThen(MapFor(h.msg))
                     ELSE IF h.msg.type = "TAP"
                          THEN Ops(AnyClick(h.msg).ops) \cup OpsThen(AnyClick(h.msg).next)
                          ELSE {}
  <2> DEFINE any == AnyClick(h.msg)
  <2>1. Body(h) = IF MapFor(h.msg) # NULL THEN Then(MapFor(h.msg))
                  ELSE IF h.msg.type = "TAP" THEN any.ops \o Then(any.next) ELSE <<>>
    BY <1>6 DEF Body, TryMap, AnyClick
  <2>2. IsSeq(any.ops)
    BY CallbacksNamed, CallbackPlain DEF Plain, AnyClick
  <2> HIDE DEF any
  <2>3. Ops(any.ops \o Then(any.next)) = Ops(any.ops) \cup OpsThen(any.next)
    BY <1>4, <2>2, OpsJoin
  <2> QED BY <1>4, <2>1, <2>3 DEF any
<1> QED BY <1>1, <1>2, <1>3, <1>5, <1>6

-----------------------------------------------------------------------------
(* The flags keep their types.                                             *)
Modes == {"SIMPLE", "ADVANCED"}

SetWell(o) ==
    o.op = "set" =>
        /\ o.var \in SetFields
        /\ o.var = "mode" => o.val \in Modes
        /\ o.var = "ramp_direction" => o.val \in {-1, 1}
        /\ o.var \in {"ramp_active", "strobe_on"} => o.val \in BOOLEAN

FlagInv ==
    /\ DOMAIN ui = UiFields
    /\ ui.mode \in Modes
    /\ ui.ramp_direction \in {-1, 0, 1} /\ ui.ramp_active \in BOOLEAN
    /\ ui.strobe_type \in 1..4 /\ ui.strobe_on \in BOOLEAN
    /\ \A o \in Ops(todo) \cup Ops(isr) : SetWell(o)

(* The assignments the model writes are well typed.                        *)
LEMMA SetsWell ==
    /\ SetWell(RampOn) /\ SetWell(StrobeLit) /\ SetWell(Emergency) /\ SetWell(Resume)
    /\ SetWell(Suspend) /\ SetWell(Set("active_param", "FREQUENCY"))
    /\ \A mode \in Modes : SetWell(Set("mode", mode))
    /\ \A dir \in {-1, 1} : SetWell(Set("ramp_direction", dir))
    /\ \A n : SetWell(Set("floor", n)) /\ SetWell(Set("ceiling", n))
    /\ \A o : o.op # "set" => SetWell(o)
<1>1. /\ SetWell(RampOn) /\ SetWell(StrobeLit) /\ SetWell(Emergency) /\ SetWell(Resume)
      /\ SetWell(Suspend)
  BY Flags, FlagValues DEF SetWell, SetFields
<1>2. SetWell(Set("active_param", "FREQUENCY"))
  BY Fields DEF SetWell, SetFields
<1>3. \A mode \in Modes : SetWell(Set("mode", mode))
  BY Fields DEF SetWell, SetFields
<1>4. \A dir \in {-1, 1} : SetWell(Set("ramp_direction", dir))
  BY Fields DEF SetWell, SetFields
<1>5. \A n : SetWell(Set("floor", n)) /\ SetWell(Set("ceiling", n))
  BY Fields DEF SetWell, SetFields
<1>6. \A o : o.op # "set" => SetWell(o)
  BY DEF SetWell
<1> QED BY <1>1, <1>2, <1>3, <1>4, <1>5, <1>6

(* Those of the routines are.                                              *)
LEMMA RoutineSets ==
    /\ \A node \in Nodes : \A o \in Ops(Action(action_routine(node))) : SetWell(o)
    /\ \A dir \in {-1, 1} : \A o \in Ops(start_ramping(dir)) : SetWell(o)
    /\ \A o \in Ops(stop_ramping) \cup Ops(action_off) \cup Ops(action_moon)
              \cup Ops(action_strobe_next) \cup Ops(action_toggle_ramp_style) : SetWell(o)
<1> USE RoutineOps, SetsWell, Fields, Flags
<1>1. /\ \A dir \in {-1, 1} : \A o \in Ops(start_ramping(dir)) : SetWell(o)
      /\ \A o \in Ops(stop_ramping) : SetWell(o)
      /\ \A o \in Ops(action_off) : SetWell(o)
      /\ \A o \in Ops(action_moon) : SetWell(o)
      /\ \A o \in Ops(action_strobe_next) : SetWell(o)
      /\ \A o \in Ops(action_toggle_ramp_style) : SetWell(o)
  OBVIOUS
<1>2. /\ \A o \in Ops(action_on) : SetWell(o)
      /\ \A o \in Ops(action_strobe) : SetWell(o)
      /\ \A o \in Ops(action_aux_config) : SetWell(o)
      /\ \A o \in Ops(action_turbo) : SetWell(o)
      /\ \A o \in Ops(action_lockout) : SetWell(o)
      /\ \A o \in Ops(action_battcheck) : SetWell(o)
      /\ \A o \in Ops(action_factory_reset) : SetWell(o)
      /\ \A o \in Ops(action_config_floor) : SetWell(o)
  OBVIOUS
<1>3. \A o \in Ops(<<>>) : SetWell(o)
  BY OpsShort
<1>4. ASSUME NEW node \in Nodes PROVE \A o \in Ops(Action(action_routine(node))) : SetWell(o)
  <2> DEFINE b == Action(action_routine(node))
  <2>1. b \in {action_off, action_on, <<>>, action_lockout, action_turbo, action_battcheck,
               action_factory_reset, action_strobe, action_aux_config, action_config_floor}
    BY ActionOps, NodeKinds
  <2> HIDE DEF b
  <2>2. \A o \in Ops(b) : SetWell(o)
    BY <1>1, <1>2, <1>3, <2>1
  <2> QED BY <2>2 DEF b
<1> QED BY <1>1, <1>4

(* Those a call is replaced by are.                                        *)
LEMMA CallSets ==
    ASSUME NEW h, h.op \in Calls, h.op # "transition" => current_node \in Nodes,
           h.op = "callback" => h.msg.type \in MessageTypes
    PROVE  \A o \in Ops(Body(h)) : SetWell(o)
<1>0. \A node : \A o \in OpsThen(node) : SetWell(o)
  BY SetsWell, Fields DEF OpsThen
<1>1. CASE h.op = "transition"
  BY <1>1, CallsOps, SetsWell, Fields
<1>2. CASE h.op = "reset"
  BY <1>2, CallsOps, SetsWell, Fields
<1>3. CASE h.op = "callback"
  <2> DEFINE name == CallbackFor(h.msg)
             cb == Callback(name, h.msg.count)
  <2>1. \/ cb.ops \in {<<>>, action_toggle_ramp_style, action_strobe_next, action_moon,
                       start_ramping(1), start_ramping(-1), stop_ramping, action_off}
        \/ cb.ops = action_moon \o start_ramping(1)
        \/ \E mode \in Modes : cb.ops = <<Set("mode", mode)>>
        \/ cb.ops = <<Op("override_floor")>>
    <3>1. CallbackWhere(name, h.msg)
      BY <1>3, WhichCallback
    <3> HIDE DEF name
    <3> QED BY <3>1, CallbackOps DEF CallbackWhere, Modes
  <2> HIDE DEF cb
  <2>2. \A o \in Ops(cb.ops) : SetWell(o)
    <3>1. Ops(action_moon \o start_ramping(1)) = Ops(action_moon) \cup Ops(start_ramping(1))
      BY RampPlain, RoutinePlain, OpsJoin DEF Plain
    <3>2. \A mode \in Modes : \A o \in Ops(<<Set("mode", mode)>>) : SetWell(o)
      BY OpsShort, SetsWell
    <3>3. \A o \in Ops(<<Op("override_floor")>>) \cup Ops(<<>>) : SetWell(o)
      BY OpsShort, SetsWell, Fields
    <3> QED BY <2>1, <3>1, <3>2, <3>3, RoutineSets
  <2> QED BY <1>0, <1>3, <2>2, CallsOps, SetsWell, Fields DEF CallbackOf, cb
<1>4. CASE h.op = "map"
  <2> DEFINE any == AnyClick(h.msg)
  <2>1. \/ any.ops = <<>> \/ any.ops = <<Stop("buzz")>> \o <<>>
        \/ any.ops = <<Stop("buzz")>> \o <<Set("floor", h.msg.count)>>
        \/ \E n : any.ops = <<Stop("buzz")>> \o <<Set("ceiling", n)>>
    BY MenuOps DEF AnyClick
  <2> HIDE DEF any
  <2>2. \A o \in Ops(any.ops) : SetWell(o)
    <3>1. ASSUME NEW a, NEW c PROVE Ops(<<a>> \o <<c>>) = {a, c}
      BY OpsJoin, Short, OpsShort
    <3>2. \A a : Ops(<<a>> \o <<>>) = {a}
      BY JoinShort, Short, OpsShort
    <3>3. SetWell(Stop("buzz"))
      BY SetsWell, Fields
    <3>4. CASE any.ops = <<>> \/ any.ops = <<Stop("buzz")>> \o <<>>
      <4>1. Ops(any.ops) \in {{}, {Stop("buzz")}}
        <5>1. Ops(<<Stop("buzz")>> \o <<>>) = {Stop("buzz")}
          BY <3>2
        <5> QED BY <5>1, <3>4, OpsShort
      <4> QED BY <3>3, <4>1
    <3>5. CASE any.ops = <<Stop("buzz")>> \o <<Set("floor", h.msg.count)>>
      BY <3>1, <3>3, <3>5, SetsWell
    <3>6. ASSUME NEW n, any.ops = <<Stop("buzz")>> \o <<Set("ceiling", n)>>
          PROVE  \A o \in Ops(any.ops) : SetWell(o)
      BY <3>1, <3>3, <3>6, SetsWell
    <3> QED BY <2>1, <3>4, <3>5, <3>6
  <2> QED BY <1>0, <1>4, <2>2, CallsOps DEF any
<1>5. CASE h.op = "action"
  BY <1>5, CallsOps, RoutineSets
<1> QED BY <1>1, <1>2, <1>3, <1>4, <1>5 DEF Calls

-----------------------------------------------------------------------------
(* What is pending after a step, of either context.                        *)

(* What is pending after a call of the worker.                             *)
LEMMA WorkerCallsOps ==
    ASSUME NavInv, WorkerCalls
    PROVE  LET h == Head(todo)
               t == Tail(todo)
           IN  /\ isr = <<>> /\ isr' = <<>> /\ h \in Ops(todo) /\ h.op \in Calls
               /\ UNCHANGED <<current_node, previous_node, home_node, timer, ui, holding>>
               /\ Ops(todo) = {h} \cup Ops(t) /\ Ops(todo') = Ops(Body(h)) \cup Ops(t)
               /\ ~Acting(todo')
               /\ h.op = "action" => Acting(todo) /\ Ops(t) \subseteq {Op("arm")}
               /\ h.op # "action" => ~Acting(todo)
               /\ h.op \in {"callback", "map", "transition"} => t = <<>> /\ Ops(t) = {}
               /\ h.op = "reset" => t = <<lookup("callback", h.msg)>> /\ Ops(t) = {lookup("callback", h.msg)}
               /\ h.op # "transition" => current_node \in Nodes
               /\ h.op = "transition" => h.node \in Nodes
               /\ h.op = "callback" => h.msg.type \in MessageTypes
<1> DEFINE h == Head(todo)
           t == Tail(todo)
<1>1. /\ isr = <<>> /\ todo # <<>> /\ h.op \in Calls /\ todo' = Body(h) \o t
      /\ UNCHANGED <<current_node, previous_node, home_node, timer, ui, isr, holding>>
  BY DEF WorkerCalls
<1>2. /\ h.op = "callback" => h.msg.type \in MessageTypes
      /\ h.op # "transition" => current_node \in Nodes
  BY <1>1, CallReady DEF Calls
<1>3. /\ Ops(todo) = {h} \cup Ops(t) /\ Ops(Body(h) \o t) = Ops(Body(h)) \cup Ops(t)
      /\ ~Acting(Body(h) \o t)
      /\ h.op = "action" => Acting(todo) /\ Ops(t) \subseteq {Op("arm")}
      /\ h.op # "action" => ~Acting(todo)
      /\ h.op \in {"callback", "map", "transition"} => t = <<>>
      /\ h.op = "transition" => h.node \in Nodes
      /\ h.op = "reset" => t = <<lookup("callback", h.msg)>>
  BY <1>1, <1>2, ShapeCall DEF NavInv, ShapeInv
<1> HIDE DEF h, t
<1> QED BY <1>1, <1>2, <1>3, OpsShort DEF h, t

(* What is pending after a call of the handler.                            *)
LEMMA IsrCallsOps ==
    ASSUME NavInv, IsrCalls
    PROVE  LET h == Head(isr)
               t == Tail(isr)
           IN  /\ isr # <<>> /\ h \in Ops(isr) /\ h.op \in {"transition", "action"}
               /\ UNCHANGED <<current_node, previous_node, home_node, timer, ui, todo, holding>>
               /\ Ops(isr) = {h} \cup Ops(t) /\ Ops(isr') = Ops(Body(h)) \cup Ops(t)
               /\ ~Acting(isr') /\ ~Acting(todo)
               /\ h.op = "action" => Acting(isr) /\ Ops(t) \subseteq {Op("arm")}
               /\ h.op = "transition" => ~Acting(isr) /\ t = <<>> /\ Ops(t) = {}
               /\ current_node \in Nodes
               /\ h.op = "transition" => h.node \in Nodes
<1> DEFINE h == Head(isr)
           t == Tail(isr)
<1>1. /\ isr # <<>> /\ h.op \in Calls /\ isr' = Body(h) \o t
      /\ UNCHANGED <<current_node, previous_node, home_node, timer, ui, todo, holding>>
  BY DEF IsrCalls
<1>2. /\ h.op \in {"transition", "action"} /\ ~Acting(todo)
      /\ current_node \in Nodes
  BY <1>1, CallReady DEF Calls
<1>3. /\ Ops(isr) = {h} \cup Ops(t) /\ Ops(Body(h) \o t) = Ops(Body(h)) \cup Ops(t)
      /\ ~Acting(Body(h) \o t)
      /\ h.op = "action" => Acting(isr) /\ Ops(t) \subseteq {Op("arm")}
      /\ h.op # "action" => ~Acting(isr)
      /\ h.op \in {"callback", "map", "transition"} => t = <<>>
      /\ h.op = "transition" => h.node \in Nodes
  BY <1>1, <1>2, ShapeCall DEF NavInv, ShapeInv
<1> HIDE DEF h, t
<1> QED BY <1>1, <1>2, <1>3, OpsShort DEF h, t

(* What is pending after a statement of the worker.                        *)
LEMMA WorkerExecutesOps ==
    ASSUME NavInv, WorkerExecutes
    PROVE  LET h == Head(todo)
               t == Tail(todo)
           IN  /\ isr = <<>> /\ isr' = <<>> /\ todo' = t /\ h \in Ops(todo) /\ Execute(h)
               /\ UNCHANGED <<home_node, holding>>
               /\ Ops(todo) = {h} \cup Ops(todo') /\ Shape(todo') /\ ~Acting(todo)
               /\ h.op \in PlainOps \cup {"enter", "go_home", "arm"}
               /\ Acting(todo') <=> h.op \in {"enter", "go_home"}
               /\ h.op \in {"enter", "go_home"} => /\ Ops(todo') \subseteq {Op("action"), Op("arm")}
                                                   /\ Undisturbed /\ timer' = timer
               /\ h.op = "enter" => h.node \in Nodes /\ current_node' = h.node
               /\ h.op = "go_home" => current_node' = home_node
               /\ h.op \notin {"enter", "go_home"} => UNCHANGED current_node
               /\ h.op = "arm" => todo' = <<>>
               /\ StartsTimer(h) => /\ current_node \in MayRun
                                    /\ \E m : todo' = <<lookup("callback", m)>>
<1> DEFINE h == Head(todo)
           t == Tail(todo)
<1>1. /\ isr = <<>> /\ todo # <<>> /\ h.op \notin Calls /\ todo' = t /\ Execute(h) /\ isr' = isr
      /\ UNCHANGED <<home_node, holding>>
  BY DEF WorkerExecutes, Execute
<1>2. /\ Shape(t) /\ Ops(todo) = {h} \cup Ops(t) /\ ~Acting(todo)
      /\ h.op \in PlainOps \cup {"enter", "go_home", "arm"}
      /\ Acting(t) <=> h.op \in {"enter", "go_home"}
      /\ h.op \in {"enter", "go_home"} => Ops(t) \subseteq {Op("action"), Op("arm")}
      /\ h.op = "enter" => h.node \in Nodes
      /\ h.op = "arm" => t = <<>>
      /\ StartsTimer(h) => \E m : t = <<lookup("callback", m)>>
  BY <1>1, ShapeTail DEF NavInv, ShapeInv
<1>3. h = todo[1]
  BY <1>1, CallReady
<1>4. h.op \in {"enter", "go_home"} => Undisturbed /\ timer' = timer
  BY <1>1, <1>3 DEF NavInv, ShapeInv, Execute, TimerAfter
<1>5. StartsTimer(h) => current_node \in MayRun
  BY <1>1, <1>3 DEF NavInv, IInv, WorkerInv
<1> HIDE DEF h, t
<1> QED BY <1>1, <1>2, <1>4, <1>5, NodesAfter DEF h, t

(* What is pending after a statement of the handler.                       *)
LEMMA IsrExecutesOps ==
    ASSUME NavInv, IsrExecutes
    PROVE  LET h == Head(isr)
               t == Tail(isr)
           IN  /\ isr # <<>> /\ isr' = t /\ h \in Ops(isr) /\ Execute(h)
               /\ UNCHANGED <<home_node, holding, todo>>
               /\ Ops(isr) = {h} \cup Ops(isr') /\ Shape(isr') /\ ~Acting(isr) /\ ~Acting(todo)
               /\ h.op \in PlainOps \cup {"enter", "arm"} /\ ~StartsTimer(h)
               /\ Acting(isr') <=> h.op = "enter"
               /\ h.op = "enter" => /\ Ops(isr') \subseteq {Op("action"), Op("arm")}
                                    /\ h.node \in Nodes /\ h.node \in MayRun
                                    /\ current_node' = h.node /\ timer' = timer
               /\ h.op # "enter" => UNCHANGED current_node
               /\ h.op = "arm" => isr' = <<>>
               /\ current_node \in Nodes
<1> DEFINE h == Head(isr)
           t == Tail(isr)
<1>1. /\ isr # <<>> /\ h.op \notin Calls /\ isr' = t /\ Execute(h)
      /\ UNCHANGED <<home_node, holding, todo>>
  BY DEF IsrExecutes, Execute
<1>2. /\ Shape(t) /\ Ops(isr) = {h} \cup Ops(t) /\ ~Acting(isr)
      /\ h.op \in PlainOps \cup {"enter", "go_home", "arm"}
      /\ Acting(t) <=> h.op \in {"enter", "go_home"}
      /\ h.op \in {"enter", "go_home"} => Ops(t) \subseteq {Op("action"), Op("arm")}
      /\ h.op = "enter" => h.node \in Nodes
      /\ h.op = "arm" => t = <<>>
  BY <1>1, ShapeTail DEF NavInv, ShapeInv
<1>3. current_node \in Nodes /\ ~Acting(todo) /\ h.op # "go_home"
  BY <1>1, CallReady
<1>4. ~StartsTimer(h) /\ (h.op = "enter" => h.node \in MayRun)
  <2>1. IsHandlers(h)
    BY <1>1, HandlerTail DEF NavInv
  <2> QED BY <2>1 DEF IsHandlers
<1>5. h.op = "enter" => timer' = timer
  BY <1>1 DEF Execute, TimerAfter
<1> HIDE DEF h, t
<1> QED BY <1>1, <1>2, <1>3, <1>4, <1>5, NodesAfter DEF h, t

(* The timers the statements themselves start and stop.                    *)
LEMMA TimerExec ==
    ASSUME NavInv, NEW o, Execute(o), NEW k \in Timers, k # "inactivity"
    PROVE  /\ Starts(o, k) => timer'[k] = "running"
           /\ Stops(o, k) => timer'[k] = "stopped"
           /\ ~Starts(o, k) /\ ~Stops(o, k) => timer'[k] = timer[k]
<1>1. timer' = TimerAfter(o) /\ timer \in [Timers -> {"stopped", "running", "due"}]
  BY DEF Execute, NavInv, IInv, TimerInv
<1> QED BY <1>1 DEF TimerAfter, Starts, Stops

(* Where the handler goes.                                                 *)
LEMMA HandlerOps ==
    ASSUME NavInv, inactivity_timer_handler
    PROVE  \E node \in Nodes :
              /\ node = IF timeout_node(current_node) # NULL THEN timeout_node(current_node)
                                                             ELSE home_node
              /\ isr = <<>> /\ timer["inactivity"] = "due"
              /\ isr' = <<transition_to(node)>> /\ Ops(isr') = {transition_to(node)}
              /\ ~Acting(isr') /\ ~Acting(todo)
              /\ timer' = [timer EXCEPT !["inactivity"] = "stopped"]
              /\ current_node \in Nodes /\ current_node \in MayRun
              /\ UNCHANGED <<current_node, previous_node, home_node, ui, todo, holding>>
<1> DEFINE node == IF timeout_node(current_node) # NULL THEN timeout_node(current_node)
                                                        ELSE home_node
<1>1. /\ isr = <<>> /\ timer["inactivity"] = "due" /\ isr' = Then(node)
      /\ timer' = [timer EXCEPT !["inactivity"] = "stopped"]
      /\ UNCHANGED <<current_node, previous_node, home_node, ui, todo, holding>>
  BY DEF inactivity_timer_handler
<1>2. node \in Nodes
  BY NullIsNoNode DEF timeout_node, NavInv, NodeInv, Nodes, AdvancedNodes, SimpleNodes
<1> HIDE DEF node
<1>3. isr' = <<transition_to(node)>>
  BY <1>1, <1>2, NullIsNoNode DEF Then
<1>4. ~Acting(<<transition_to(node)>>)
  BY Fields DEF Acting
<1>5. ~Acting(todo) /\ current_node \in Nodes /\ current_node \in MayRun
  BY <1>1 DEF NavInv, ShapeInv, NodeInv, Undisturbed, IInv, TimerInv
<1> QED BY <1>1, <1>2, <1>3, <1>4, <1>5, OpsShort DEF node

-----------------------------------------------------------------------------
(* The navigation and the flags together: a reset needs the mode.          *)
CoreInv == NavInv /\ FlagInv

(* A ramp tick gives a direction.                                          *)
LEMMA TickDirection ==
    ASSUME NEW level, NEW direction \in {-1, 0, 1}, NEW style, NEW floor, NEW ceiling, NEW steps
    PROVE  RampTick(level, direction, style, floor, ceiling, steps).direction \in {-1, 0, 1}
BY DEF RampTick, SteppedTick, SmoothTick

(* The flags after a statement.                                            *)
LEMMA FlagExec ==
    ASSUME FlagInv, NEW o, SetWell(o), Execute(o)
    PROVE  /\ DOMAIN ui' = UiFields
           /\ ui'.mode \in Modes
           /\ ui'.ramp_direction \in {-1, 0, 1} /\ ui'.ramp_active \in BOOLEAN
           /\ ui'.strobe_type \in 1..4 /\ ui'.strobe_on \in BOOLEAN
<1> USE DEF FlagInv, SetWell, Writes, SetFields
<1>1. DOMAIN ui' = UiFields /\ ui'.mode \in Modes
  BY UiExec
<1>2. ui'.ramp_direction \in {-1, 0, 1}
  BY UiExec
<1>3. ui'.ramp_active \in BOOLEAN
  BY UiExec
<1>4. ui'.strobe_on \in BOOLEAN
  BY UiExec
<1>5. ui'.strobe_type \in 1..4
  <2>1. Len(StrobeTypes) = 4
    BY DEF StrobeTypes
  <2>2. \/ ui'.strobe_type = ui.strobe_type
        \/ ui'.strobe_type = (ui.strobe_type % Len(StrobeTypes)) + 1
    BY UiExec
  <2>3. ui.strobe_type \in 1..4 => (ui.strobe_type % 4) + 1 \in 1..4
    OBVIOUS
  <2> HIDE DEF SetWell
  <2> QED BY <2>1, <2>2, <2>3
<1> QED BY <1>1, <1>2, <1>3, <1>4, <1>5

(* A message or a shutdown is taken at rest.                               *)
Taken(s) ==
    /\ todo = <<>> /\ isr = <<>> /\ todo' = s /\ isr' = <<>>
    /\ UNCHANGED <<current_node, previous_node, home_node, timer, ui>>

TakenMessage(msg) ==
    /\ msg.type \in MessageTypes
    /\ msg.type = "TAP" => msg.count \in Taps /\ ~holding /\ ~holding'
    /\ msg.type = "HOLD_START" => msg.count \in Holds /\ ~holding /\ holding'
    /\ msg.type = "HOLD_RELEASE" => holding /\ ~holding'

(* A message is taken at rest and moves nothing else.                      *)
LEMMA Inputs ==
    ASSUME Tap \/ HoldStart \/ HoldRelease \/ Shutdown, NavInv
    PROVE  \/ \E msg : /\ Taken(<<lookup("reset", msg), lookup("callback", msg)>>)
                       /\ TakenMessage(msg)
                       /\ Ops(todo') = {lookup("reset", msg), lookup("callback", msg)}
                       /\ ~Acting(todo') /\ current_node \in Nodes
           \/ /\ Taken(fsm_emergency_off) /\ holding' = holding
              /\ Ops(todo') = {Emergency, Stop("inactivity"), Op("go_home"), Op("action")}
              /\ ~Acting(todo') /\ current_node \in Nodes
<1>1. ASSUME NEW msg, Deliver(dispatch_input(msg))
      PROVE  /\ Taken(<<lookup("reset", msg), lookup("callback", msg)>>)
             /\ Ops(todo') = {lookup("reset", msg), lookup("callback", msg)}
             /\ ~Acting(todo') /\ current_node \in Nodes
  <2> DEFINE s == <<lookup("reset", msg), lookup("callback", msg)>>
  <2>1. Taken(s)
    BY <1>1 DEF Taken, Deliver, AtRest, dispatch_input
  <2>2. Ops(s) = {lookup("reset", msg), lookup("callback", msg)}
    BY OpsShort
  <2>3. ~Acting(s)
    BY Fields DEF Acting
  <2> HIDE DEF s
  <2>4. todo' = s /\ current_node \in Nodes
    BY <2>1, CallReady DEF Taken
  <2> QED BY <2>1, <2>2, <2>3, <2>4 DEF s
<1>2. CASE Tap
  <2>1. PICK n \in Taps : /\ ~holding /\ Deliver(dispatch_input([type |-> "TAP", count |-> n]))
                          /\ UNCHANGED holding
    BY <1>2 DEF Tap
  <2> DEFINE msg == [type |-> "TAP", count |-> n]
  <2>2. TakenMessage(msg)
    BY <2>1 DEF TakenMessage, MessageTypes
  <2> QED BY <1>1, <2>1, <2>2
<1>3. CASE HoldStart
  <2>1. PICK n \in Holds : /\ ~holding /\ holding' = TRUE
                           /\ Deliver(dispatch_input([type |-> "HOLD_START", count |-> n]))
    BY <1>3 DEF HoldStart
  <2> DEFINE msg == [type |-> "HOLD_START", count |-> n]
  <2>2. TakenMessage(msg)
    BY <2>1 DEF TakenMessage, MessageTypes
  <2> QED BY <1>1, <2>1, <2>2
<1>4. CASE HoldRelease
  <2>1. /\ holding /\ holding' = FALSE
        /\ Deliver(dispatch_input([type |-> "HOLD_RELEASE", count |-> 0]))
    BY <1>4 DEF HoldRelease
  <2> DEFINE msg == [type |-> "HOLD_RELEASE", count |-> 0]
  <2>2. TakenMessage(msg)
    BY <2>1 DEF TakenMessage, MessageTypes
  <2> QED BY <1>1, <2>1, <2>2
<1>5. CASE Shutdown
  <2> DEFINE s == fsm_emergency_off
  <2>1. Taken(s) /\ holding' = holding
    BY <1>5 DEF Shutdown, Taken, Deliver, AtRest
  <2>2. s = <<Emergency, Stop("inactivity"), Op("go_home"), Op("action")>>
    BY Zenon DEF fsm_emergency_off, Emergency
  <2>3. Ops(s) = {Emergency, Stop("inactivity"), Op("go_home"), Op("action")}
    BY <2>2, OpsShort
  <2>4. ~Acting(s)
    BY <2>2, Four, Flags, Fields DEF Acting
  <2> HIDE DEF s
  <2>5. todo' = s /\ current_node \in Nodes
    BY <2>1, CallReady DEF Taken
  <2> QED BY <2>1, <2>3, <2>4, <2>5 DEF s
<1> QED BY <1>2, <1>3, <1>4, <1>5

(* A reset, in either context.                                             *)
LEMMA Reboots ==
    ASSUME FlagInv, WorkerReboots \/ WorkerCrashes \/ IsrCrashes
    PROVE  \E flash :
              /\ Reboot(flash)
              /\ DOMAIN flash = {"mode", "memorized", "floor", "ceiling", "style"}
              /\ flash.mode \in Modes
              /\ \/ /\ flash.memorized = DefaultMemory
                    /\ flash.floor = DefaultFloor /\ flash.ceiling = DefaultCeiling
                 \/ /\ flash.memorized = ui.memorized
                    /\ flash.floor = ui.floor /\ flash.ceiling = ui.ceiling
<1>1. CASE WorkerReboots
  <2>1. PICK mode \in StartModes : Reboot(Defaults(mode))
    BY <1>1 DEF WorkerReboots
  <2> QED BY <2>1, Flashes, InputAssumption DEF Modes
<1>2. CASE WorkerCrashes \/ IsrCrashes
  <2>1. Reboot(Saved)
    BY <1>2 DEF WorkerCrashes, IsrCrashes
  <2> QED BY <2>1, Flashes DEF FlagInv
<1> QED BY <1>1, <1>2

(* What a reset leaves.                                                    *)
LEMMA Rebooted ==
    ASSUME NEW flash, Reboot(flash), flash.mode \in Modes
    PROVE  \E home \in OffNodes :
              /\ home_node' = home /\ current_node' = NULL /\ previous_node' = NULL
              /\ todo' = <<transition_to(home)>> /\ Ops(todo') = {transition_to(home)}
              /\ isr' = <<>> /\ Ops(isr') = {} /\ holding' = FALSE
              /\ timer' = [t \in Timers |-> "stopped"]
              /\ ui' = BootUi(flash)
<1> DEFINE home == OffNode(flash.mode)
<1>1. home \in OffNodes
  BY DEF OffNode, OffNodes, Modes
<1> QED BY <1>1, OpsShort DEF Reboot

(* The flags at boot.                                                      *)
LEMMA FlagBoot ==
    ASSUME NEW flash, DOMAIN flash = {"mode", "memorized", "floor", "ceiling", "style"},
           flash.mode \in Modes
    PROVE  LET u == BootUi(flash)
           IN  /\ DOMAIN u = UiFields /\ u.mode \in Modes
               /\ u.ramp_direction \in {-1, 0, 1} /\ u.ramp_active \in BOOLEAN
               /\ u.strobe_type \in 1..4 /\ u.strobe_on \in BOOLEAN
<1> DEFINE u == BootUi(flash)
<1>1. DOMAIN u = UiFields /\ u.mode = flash.mode /\ u.ramp_direction = 0 /\ u.strobe_type = 1
  BY DEF BootUi, UiFields
<1>2. u.ramp_active \in BOOLEAN
  BY DEF BootUi
<1>3. u.strobe_on \in BOOLEAN
  BY DEF BootUi
<1> QED BY <1>1, <1>2, <1>3

(* CoreInv after a reset.                                                  *)
LEMMA CoreReboot ==
    ASSUME CoreInv, IInv', WorkerReboots \/ WorkerCrashes \/ IsrCrashes
    PROVE  CoreInv'
<1>1. PICK flash :
              /\ Reboot(flash)
              /\ DOMAIN flash = {"mode", "memorized", "floor", "ceiling", "style"}
              /\ flash.mode \in Modes
  BY Reboots DEF CoreInv
<1>2. NavInv'
  BY <1>1, NavReboot DEF Modes
<1>3. PICK home \in OffNodes :
        Ops(todo') = {transition_to(home)} /\ Ops(isr') = {} /\ ui' = BootUi(flash)
  BY <1>1, Rebooted
<1>4. \A o \in Ops(todo') \cup Ops(isr') : SetWell(o)
  BY <1>3, SetsWell, Fields
<1>5. FlagInv'
  BY <1>1, <1>3, <1>4, FlagBoot DEF FlagInv
<1> QED BY <1>2, <1>5 DEF CoreInv

(* CoreInv is inductive.                                                   *)
LEMMA CoreStep == ASSUME CoreInv, IInv', [Next]_vars PROVE CoreInv'
<1>1. CASE Tap \/ HoldStart \/ HoldRelease \/ Shutdown
  <2>1. NavInv'
    BY <1>1, NavInput DEF CoreInv
  <2>2. \A o \in Ops(todo') : SetWell(o)
    <3>1. ASSUME NEW msg, Ops(todo') = {lookup("reset", msg), lookup("callback", msg)}
          PROVE  \A o \in Ops(todo') : SetWell(o)
      BY <3>1, SetsWell, Fields
    <3>2. ASSUME Ops(todo') = {Emergency, Stop("inactivity"), Op("go_home"), Op("action")}
          PROVE  \A o \in Ops(todo') : SetWell(o)
      BY <3>2, SetsWell, Fields
    <3> QED BY <1>1, <3>1, <3>2, Inputs DEF CoreInv
  <2>3. ui' = ui /\ isr' = <<>>
    BY <1>1, Inputs DEF Taken, CoreInv
  <2> QED BY <2>1, <2>2, <2>3, OpsShort DEF FlagInv, CoreInv
<1>2. CASE WorkerCalls
  <2>1. NavInv'
    BY <1>2, NavWorkerCalls DEF CoreInv
  <2> DEFINE h == Head(todo)
             t == Tail(todo)
  <2>2. /\ ui' = ui /\ isr' = isr /\ h.op \in Calls
        /\ Ops(todo) = {h} \cup Ops(t) /\ Ops(todo') = Ops(Body(h)) \cup Ops(t)
        /\ h.op # "transition" => current_node \in Nodes
        /\ h.op = "callback" => h.msg.type \in MessageTypes
    BY <1>2, WorkerCallsOps DEF CoreInv
  <2> HIDE DEF h, t
  <2>3. \A o \in Ops(Body(h)) : SetWell(o)
    BY <2>2, CallSets
  <2> QED BY <2>1, <2>2, <2>3 DEF FlagInv, CoreInv
<1>3. CASE WorkerExecutes
  <2>1. NavInv'
    BY <1>3, NavWorkerExecutes DEF CoreInv
  <2> DEFINE h == Head(todo)
  <2>2. isr' = isr /\ h \in Ops(todo) /\ Execute(h) /\ Ops(todo) = {h} \cup Ops(todo')
    BY <1>3, WorkerExecutesOps DEF CoreInv
  <2> HIDE DEF h
  <2>3. SetWell(h)
    BY <2>2 DEF CoreInv, FlagInv
  <2>4. \A o \in Ops(todo') \cup Ops(isr') : SetWell(o)
    BY <2>2 DEF CoreInv, FlagInv
  <2> QED BY <2>1, <2>2, <2>3, <2>4, FlagExec DEF FlagInv, CoreInv
<1>4. CASE WorkerReboots \/ WorkerCrashes \/ IsrCrashes
  BY <1>4, CoreReboot
<1>5. CASE InactivityPasses
  BY <1>5, NavPasses DEF CoreInv, FlagInv, InactivityPasses
<1>6. CASE inactivity_timer_handler
  <2>1. NavInv'
    BY <1>6, NavHandler DEF CoreInv
  <2>2. ui' = ui /\ todo' = todo /\ \A o \in Ops(isr') : SetWell(o)
    BY <1>6, HandlerOps, SetsWell, Fields DEF CoreInv
  <2> QED BY <2>1, <2>2 DEF FlagInv, CoreInv
<1>7. CASE IsrCalls
  <2>1. NavInv'
    BY <1>7, NavIsrCalls DEF CoreInv
  <2> DEFINE h == Head(isr)
             t == Tail(isr)
  <2>2. /\ ui' = ui /\ todo' = todo /\ h.op \in {"transition", "action"} /\ current_node \in Nodes
        /\ Ops(isr) = {h} \cup Ops(t) /\ Ops(isr') = Ops(Body(h)) \cup Ops(t)
    BY <1>7, IsrCallsOps DEF CoreInv
  <2> HIDE DEF h, t
  <2>3. \A o \in Ops(Body(h)) : SetWell(o)
    BY <2>2, CallSets DEF Calls
  <2> QED BY <2>1, <2>2, <2>3 DEF FlagInv, CoreInv
<1>8. CASE IsrExecutes
  <2>1. NavInv'
    BY <1>8, NavIsrExecutes DEF CoreInv
  <2> DEFINE h == Head(isr)
  <2>2. todo' = todo /\ h \in Ops(isr) /\ Execute(h) /\ Ops(isr) = {h} \cup Ops(isr')
    BY <1>8, IsrExecutesOps DEF CoreInv
  <2> HIDE DEF h
  <2>3. SetWell(h)
    BY <2>2 DEF CoreInv, FlagInv
  <2>4. \A o \in Ops(todo') \cup Ops(isr') : SetWell(o)
    BY <2>2 DEF CoreInv, FlagInv
  <2> QED BY <2>1, <2>2, <2>3, <2>4, FlagExec DEF FlagInv, CoreInv
<1>9. CASE Ticks
  <2>1. /\ UNCHANGED <<current_node, previous_node, home_node, timer, todo, isr, holding>>
        /\ DOMAIN ui' = UiFields /\ ui'.mode = ui.mode
        /\ ui'.strobe_type = ui.strobe_type
    BY <1>9, UiTicks DEF CoreInv, FlagInv
  <2>0. ui'.ramp_active = ui.ramp_active /\ (RampTicks \/ OtherTicks)
    BY <1>9, UiTicks DEF CoreInv, FlagInv
  <2>2. NavInv'
    BY <2>1, MayRunKept DEF CoreInv, NavInv, ShapeInv, NodeInv, Undisturbed, Starting
  <2>3. ui'.ramp_direction \in {-1, 0, 1} /\ ui'.strobe_on \in BOOLEAN
    <3>1. ui.ramp_direction \in {-1, 0, 1} /\ ui.strobe_on \in BOOLEAN
      BY DEF CoreInv, FlagInv
    <3>2. CASE RampTicks
      BY <3>1, <3>2, TickDirection DEF RampTicks
    <3>3. CASE OtherTicks
      <4>1. ui'.ramp_direction = ui.ramp_direction
            /\ (ui'.strobe_on = ui.strobe_on \/ ui'.strobe_on = (~ui.strobe_on))
        BY <3>3 DEF OtherTicks
      <4> QED BY <3>1, <4>1
    <3> QED BY <2>0, <3>2, <3>3
  <2>4. ui'.ramp_active \in BOOLEAN
    BY <2>0 DEF CoreInv, FlagInv
  <2>5. FlagInv'
    <3>1. ui'.mode \in Modes /\ ui'.strobe_type \in 1..4 /\ DOMAIN ui' = UiFields
      BY <2>1 DEF CoreInv, FlagInv
    <3>2. \A o \in Ops(todo') \cup Ops(isr') : SetWell(o)
      BY <2>1 DEF CoreInv, FlagInv
    <3> QED BY <2>3, <2>4, <3>1, <3>2, Zenon DEF FlagInv
  <2> QED BY <2>2, <2>5 DEF CoreInv
<1>10. CASE UNCHANGED vars
  BY <1>10, MayRunKept DEF vars, CoreInv, NavInv, FlagInv, ShapeInv, NodeInv, Undisturbed, Starting
<1> QED BY <1>1, <1>2, <1>3, <1>4, <1>5, <1>6, <1>7, <1>8, <1>9, <1>10 DEF Next, Ticks

(* Statements, nodes and flags are well formed, whatever meets.            *)
LEMMA CoreInvariance == Spec => []CoreInv
<1>1. Init /\ IInv => CoreInv
  <2> SUFFICES ASSUME Init, IInv PROVE CoreInv
    OBVIOUS
  <2>1. PICK mode \in StartModes :
          /\ ui = BootUi(Defaults(mode)) /\ isr = <<>> /\ todo = <<transition_to(home_node)>>
    BY DEF Init
  <2>2. mode \in Modes
    BY InputAssumption DEF Modes
  <2>3. \A o \in Ops(todo) \cup Ops(isr) : SetWell(o)
    BY <2>1, OpsShort, SetsWell, Fields
  <2>4. FlagInv
    BY <2>1, <2>2, <2>3, FlagBoot, Flashes DEF FlagInv
  <2> QED BY <2>4, NavInit DEF CoreInv
<1>2. CoreInv /\ IInv' /\ [Next]_vars => CoreInv'
  BY CoreStep
<1> QED BY <1>1, <1>2, Invariance, PTL DEF Spec

-----------------------------------------------------------------------------
(* OFF is quiet.                                                           *)

(* The nodes a context is on its way to.                                   *)
Leads(o)   == o.op \in {"transition", "enter"}
Targets(s) == {o.node : o \in {p \in Ops(s) : Leads(p)}}

(* What is pending will stop a timer, an action routine by what it is.     *)
Ending(s, k)   == HasStop(s, k) \/ Acting(s)
HasStart(s, k) == \E o \in Ops(s) : Starts(o, k)

(* From OFF and ON the handler goes OFF, if anywhere.                      *)
HomeInv ==
    current_node \in OffNodes \cup OnNodes => Targets(isr) \subseteq OffNodes \cup {current_node}

(* The regulation is started in ON only, by a transition the handler       *)
(* cannot disturb, and is being stopped whenever the light is in OFF.      *)
ThermalInv ==
    /\ HasStart(todo, "thermal") => current_node \in OnNodes /\ Undisturbed
    /\ HasStart(isr, "thermal") => current_node \in OnNodes
    /\ current_node \in OffNodes /\ timer["thermal"] # "stopped" =>
          Ending(todo, "thermal") \/ Ending(isr, "thermal")

(* The strobe is started in its node, which only leads OFF.                *)
StrobeInv ==
    /\ HasStart(todo, "strobe") \/ HasStart(isr, "strobe") => current_node = "adv_strobe"
    /\ current_node = "adv_strobe" => Targets(todo) \subseteq OffNodes
    /\ timer["strobe"] # "stopped" =>
          \/ current_node = "adv_strobe"
          \/ current_node \in OffNodes /\ (Ending(todo, "strobe") \/ Ending(isr, "strobe"))

QuietInv == HomeInv /\ ThermalInv /\ StrobeInv

(* Nothing, and nothing but certain statements, is pending.                *)
LEMMA NothingPending ==
    ASSUME NEW s, Ops(s) = {}, ~Acting(s)
    PROVE  /\ Targets(s) = {}
           /\ \A k : ~HasStart(s, k) /\ ~HasStop(s, k) /\ ~Ending(s, k)
BY DEF Targets, HasStart, HasStop, Ending

(* Nothing pending enters no node.                                         *)
LEMMA NotActing == ~Acting(<<>>) /\ Ops(<<>>) = {}
BY OpsShort DEF Acting

(* Statements that neither navigate nor start or stop one of these timers. *)
Bland(o) ==
    /\ ~Leads(o)
    /\ \A k \in {"thermal", "strobe", "ramp", "buzz"} : ~Starts(o, k) /\ ~Stops(o, k)

(* The bland statements there are.                                         *)
LEMMA Blands ==
    /\ \A stage \in {"reset", "callback", "map"} : \A msg : Bland(lookup(stage, msg))
    /\ \A name \in {"action", "arm", "go_home"} : Bland(Op(name))
    /\ Bland(Emergency) /\ Bland(Stop("inactivity")) /\ Bland(Start("inactivity"))
BY Fields, Flags DEF Bland, Leads, Starts, Stops

(* Bland statements lead nowhere, start nothing and stop nothing.          *)
LEMMA BlandPending ==
    ASSUME NEW s, \A o \in Ops(s) : Bland(o)
    PROVE  /\ Targets(s) = {}
           /\ \A k \in {"thermal", "strobe", "ramp", "buzz"} : ~HasStart(s, k) /\ ~HasStop(s, k)
BY DEF Targets, Leads, Bland, HasStart, HasStop

(* One more statement.                                                     *)
LEMMA Unrolled ==
    ASSUME NEW s, NEW h, NEW t, Ops(s) = {h} \cup Ops(t)
    PROVE  /\ \A k : HasStart(t, k) => HasStart(s, k)
           /\ \A k : HasStop(s, k) => HasStop(t, k) \/ Stops(h, k)
           /\ Targets(t) \subseteq Targets(s)
           /\ ~Leads(h) => Targets(s) = Targets(t)
           /\ Leads(h) => h.node \in Targets(s)
           /\ \A k : Starts(h, k) => HasStart(s, k)
BY DEF Targets, Leads, HasStart, HasStop

(* An executed statement stops a timer or leaves that to the rest.         *)
LEMMA EndingKept ==
    ASSUME NavInv, NEW s, NEW h, NEW t, Ops(s) = {h} \cup Ops(t), ~Acting(s), Execute(h),
           NEW k \in Timers, k # "inactivity", Ending(s, k)
    PROVE  Ending(t, k) \/ timer'[k] = "stopped"
BY Unrolled, TimerExec DEF Ending

(* What a call adds to what is pending.                                    *)
LEMMA PlainTargets == ASSUME NEW s, Plain(s) PROVE Targets(s) = {}
<1>1. \A o \in Ops(s) : o.op \in PlainOps
  BY DEF Ops, Plain, IsPlain
<1> QED BY <1>1 DEF Targets, Leads, PlainOps

(* What two joined sequences aim at and start.                             *)
LEMMA Joined ==
    ASSUME NEW u, NEW b, NEW t, Ops(u) = Ops(b) \cup Ops(t)
    PROVE  /\ Targets(u) = Targets(b) \cup Targets(t)
           /\ \A k : HasStart(u, k) <=> HasStart(b, k) \/ HasStart(t, k)
           /\ \A k : HasStop(u, k) <=> HasStop(b, k) \/ HasStop(t, k)
BY DEF Targets, HasStart, HasStop

(* What a callback aims at and starts.                                     *)
LEMMA CallbackAdds ==
    ASSUME NEW h, h.op = "callback", h.msg.type \in MessageTypes, current_node \in Nodes
    PROVE  /\ Targets(Body(h)) \subseteq {CallbackOf(h.msg).next} \ {NULL}
           /\ ~HasStart(Body(h), "thermal")
           /\ HasStart(Body(h), "strobe") => current_node = "adv_strobe"
<1> DEFINE cb == CallbackOf(h.msg)
           R == IF cb.next # NULL THEN OpsThen(cb.next)
                ELSE IF h.msg.type = "HOLD_RELEASE" THEN {} ELSE {lookup("map", h.msg)}
<1>1. Ops(Body(h)) = Ops(cb.ops) \cup R
  BY CallsOps
<1>2. /\ \A o \in Ops(cb.ops) : /\ ~Starts(o, "thermal")
                                /\ Starts(o, "strobe") => current_node = "adv_strobe"
      /\ cb.next \in Nodes \cup {NULL}
  BY CallbackTable DEF CallbackOf
<1>3. Plain(cb.ops)
  BY CallbackPlain, CallbacksNamed DEF CallbackOf
<1>4. \A o \in Ops(cb.ops) : o.op \in PlainOps
  BY <1>3 DEF Ops, Plain, IsPlain
<1>5. R \subseteq {lookup("map", h.msg)} \cup {transition_to(n) : n \in {cb.next} \ {NULL}}
  BY DEF OpsThen
<1>6. \A n : /\ transition_to(n).op = "transition" /\ Enter(n).op = "enter"
             /\ transition_to(n).node = n /\ Enter(n).node = n
  BY Fields
<1>7. lookup("map", h.msg).op = "map"
  BY Fields
<1> HIDE DEF cb, R
<1>8. Targets(Body(h)) \subseteq {cb.next} \ {NULL}
  BY <1>1, <1>4, <1>5, <1>6, <1>7 DEF Targets, Leads, PlainOps
<1>9. /\ ~HasStart(Body(h), "thermal")
      /\ HasStart(Body(h), "strobe") => current_node = "adv_strobe"
  BY <1>1, <1>2, <1>5, <1>6, <1>7 DEF HasStart, Starts
<1> QED BY <1>8, <1>9 DEF cb

(* What a map aims at and starts.                                          *)
LEMMA MapAdds ==
    ASSUME NEW h, h.op = "map", current_node \in Nodes
    PROVE  /\ Targets(Body(h)) \subseteq {MapFor(h.msg), AnyClick(h.msg).next} \ {NULL}
           /\ \A k : ~HasStart(Body(h), k)
<1> DEFINE any == AnyClick(h.msg)
           m == MapFor(h.msg)
<1>1. Ops(Body(h)) \subseteq Ops(any.ops) \cup {transition_to(n) : n \in {m, any.next} \ {NULL}}
  BY CallsOps DEF OpsThen
<1>2. Plain(any.ops)
  BY CallbackPlain, CallbacksNamed DEF AnyClick
<1>3. \A o \in Ops(any.ops) : o.op \in PlainOps
  BY <1>2 DEF Ops, Plain, IsPlain
<1>4. \A o \in Ops(any.ops) : o.op # "start"
  <2>1. CASE current_node \notin MenuNodes
    BY <2>1, MenuOps, OpsShort DEF AnyClick
  <2>2. CASE current_node \in MenuNodes
    <3>1. \/ any.ops = <<Stop("buzz")>> \o <<>>
          \/ \E n : any.ops \in {<<Stop("buzz")>> \o <<Set("floor", n)>>,
                                  <<Stop("buzz")>> \o <<Set("ceiling", n)>>}
      BY <2>2, MenuOps DEF AnyClick
    <3>2. \A n : /\ Ops(<<Stop("buzz")>> \o <<Set("floor", n)>>) = {Stop("buzz"), Set("floor", n)}
                 /\ Ops(<<Stop("buzz")>> \o <<Set("ceiling", n)>>) = {Stop("buzz"), Set("ceiling", n)}
      <4> TAKE n
      <4>1. \A a, b : <<a>> \o <<b>> = <<a, b>>
        BY JoinTwo
      <4>2. /\ <<Stop("buzz")>> \o <<Set("floor", n)>> = <<Stop("buzz"), Set("floor", n)>>
            /\ <<Stop("buzz")>> \o <<Set("ceiling", n)>> = <<Stop("buzz"), Set("ceiling", n)>>
        BY <4>1, Zenon
      <4> QED BY <4>2, OpsShort, Zenon
    <3>3. Ops(<<Stop("buzz")>> \o <<>>) = {Stop("buzz")}
      BY JoinShort, OpsShort, Short
    <3>4. Stop("buzz").op # "start" /\ \A v, n : Set(v, n).op # "start"
      BY Fields
    <3> HIDE DEF any
    <3>5. CASE any.ops # <<Stop("buzz")>> \o <<>>
      <4>0. PICK n : any.ops \in {<<Stop("buzz")>> \o <<Set("floor", n)>>,
                                  <<Stop("buzz")>> \o <<Set("ceiling", n)>>}
        BY <3>1, <3>5
      <4>1. Ops(any.ops) \subseteq {Stop("buzz"), Set("floor", n), Set("ceiling", n)}
        BY <3>2, <4>0
      <4> QED BY <4>1, <3>4
    <3> QED BY <3>1, <3>3, <3>4, <3>5
  <2> QED BY <2>1, <2>2
<1>6. \A n : /\ transition_to(n).op = "transition" /\ Enter(n).op = "enter"
             /\ transition_to(n).node = n /\ Enter(n).node = n
  BY Fields
<1> HIDE DEF any, m
<1>7. Targets(Body(h)) \subseteq {m, any.next} \ {NULL}
  BY <1>1, <1>3, <1>6 DEF Targets, Leads, PlainOps
<1>8. \A k : ~HasStart(Body(h), k)
  BY <1>1, <1>4, <1>6 DEF HasStart, Starts
<1> QED BY <1>7, <1>8 DEF any, m

(* A call by its kind.                                                     *)
LEMMA CallAdds ==
    ASSUME NEW h, h.op \in Calls, h.op # "transition" => current_node \in Nodes,
           h.op = "callback" => h.msg.type \in MessageTypes, h.op = "transition" => h.node \in Nodes
    PROVE  /\ HasStart(Body(h), "thermal") => h.op = "action" /\ current_node \in OnNodes
           /\ HasStart(Body(h), "strobe") => current_node = "adv_strobe"
           /\ h.op \in {"action", "reset"} => Targets(Body(h)) = {}
           /\ h.op = "action" /\ current_node \in OffNodes =>
                 HasStop(Body(h), "thermal") /\ HasStop(Body(h), "strobe")
           /\ h.op = "transition" => Targets(Body(h)) \subseteq {h.node}
           /\ current_node = "adv_strobe" /\ h.op # "transition" =>
                 Targets(Body(h)) \subseteq OffNodes
<1>1. CASE h.op = "transition"
  <2>1. Ops(Body(h)) = {Stop("inactivity"), Op("action"), Op("arm")} \cup {Enter(h.node)}
    BY <1>1, CallsOps
  <2>2. \A o \in {Stop("inactivity"), Op("action"), Op("arm")} :
           o.op \notin {"transition", "enter", "start"}
    BY Fields
  <2>3. Targets(Body(h)) \subseteq {h.node}
    BY <2>1, <2>2, Fields DEF Targets, Leads
  <2>4. \A k : ~HasStart(Body(h), k)
    BY <2>1, <2>2, Fields DEF HasStart, Starts
  <2> QED BY <1>1, <2>3, <2>4
<1>2. CASE h.op = "reset"
  <2>1. \A o \in Ops(Body(h)) : Bland(o)
    BY <1>2, CallsOps, Blands
  <2> QED BY <1>2, <2>1, BlandPending
<1>3. CASE h.op = "callback"
  <2>1. current_node = "adv_strobe" => CallbackOf(h.msg).next = NULL
    BY <1>3, CallbackTable DEF CallbackOf
  <2> QED BY <1>3, <2>1, CallbackAdds
<1>4. CASE h.op = "map"
  <2>1. current_node = "adv_strobe" => MapFor(h.msg) \in {"adv_off", NULL}
    BY <1>4, MapTable
  <2>2. current_node = "adv_strobe" => AnyClick(h.msg).next = NULL
    BY MenuOps DEF MenuNodes, AnyClick
  <2> QED BY <1>4, <2>1, <2>2, MapAdds DEF OffNodes
<1>5. CASE h.op = "action"
  <2>1. Body(h) = Action(action_routine(current_node)) /\ current_node \in Nodes
    BY <1>5, CallsOps
  <2>2. Targets(Body(h)) = {}
    BY <2>1, ActionPlain, PlainTargets
  <2> QED BY <1>5, <2>1, <2>2, RoutineTable DEF HasStart
<1> QED BY <1>1, <1>2, <1>3, <1>4, <1>5 DEF Calls

QuietCore == CoreInv /\ QuietInv

(* Nothing pending leads nowhere, starts nothing and stops nothing.        *)
LEMMA AtEnd == /\ Targets(<<>>) = {}
               /\ \A k : ~HasStart(<<>>, k) /\ ~HasStop(<<>>, k) /\ ~Ending(<<>>, k)
BY NotActing, NothingPending

(* Nothing is pending but what does not concern these timers.              *)
LEMMA QuietTaken ==
    ASSUME QuietCore, Tap \/ HoldStart \/ HoldRelease \/ Shutdown PROVE QuietInv'
<1>1. /\ todo = <<>> /\ isr = <<>> /\ isr' = <<>> /\ UNCHANGED <<current_node, timer>>
      /\ \A o \in Ops(todo') : Bland(o)
  <2>1. NavInv
    BY DEF QuietCore, CoreInv
  <2>2. CASE \E msg : /\ Taken(<<lookup("reset", msg), lookup("callback", msg)>>)
                      /\ Ops(todo') = {lookup("reset", msg), lookup("callback", msg)}
    <3>1. PICK msg : /\ Taken(<<lookup("reset", msg), lookup("callback", msg)>>)
                     /\ Ops(todo') = {lookup("reset", msg), lookup("callback", msg)}
      BY <2>2
    <3>2. Bland(lookup("reset", msg)) /\ Bland(lookup("callback", msg))
      BY Blands
    <3> QED BY <3>1, <3>2 DEF Taken
  <2>3. CASE /\ Taken(fsm_emergency_off)
             /\ Ops(todo') = {Emergency, Stop("inactivity"), Op("go_home"), Op("action")}
    BY <2>3, Blands DEF Taken
  <2> QED BY <2>1, <2>2, <2>3, Inputs
<1>2. /\ Targets(todo') = {}
      /\ \A k \in {"thermal", "strobe", "ramp", "buzz"} : ~HasStart(todo', k)
  BY <1>1, BlandPending
<1>3. /\ ~Ending(todo, "thermal") /\ ~Ending(isr, "thermal")
      /\ ~Ending(todo, "strobe") /\ ~Ending(isr, "strobe")
  BY <1>1, AtEnd
<1>4. HomeInv'
  BY <1>1, AtEnd DEF HomeInv
<1>5. ThermalInv'
  BY <1>1, <1>2, <1>3, AtEnd DEF ThermalInv, QuietCore, QuietInv
<1>6. StrobeInv'
  BY <1>1, <1>2, <1>3, AtEnd DEF StrobeInv, QuietCore, QuietInv
<1> QED BY <1>4, <1>5, <1>6 DEF QuietInv

(* QuietInv after a reset.                                                 *)
LEMMA QuietReboot ==
    ASSUME QuietCore, WorkerReboots \/ WorkerCrashes \/ IsrCrashes PROVE QuietInv'
<1>1. PICK flash : Reboot(flash) /\ flash.mode \in Modes
  BY Reboots DEF QuietCore, CoreInv
<1>2. PICK home \in OffNodes :
        /\ current_node' = NULL /\ Ops(todo') = {transition_to(home)} /\ isr' = <<>>
        /\ timer' = [t \in Timers |-> "stopped"]
  BY <1>1, Rebooted
<1>3. timer'["thermal"] = "stopped" /\ timer'["strobe"] = "stopped"
  BY <1>2 DEF Timers
<1>4. \A k : ~HasStart(todo', k)
  BY <1>2, Fields DEF HasStart, Starts
<1>5. current_node' \notin OffNodes \cup OnNodes \cup {"adv_strobe"}
  BY <1>2 DEF NULL, OffNodes, OnNodes
<1> QED BY <1>2, <1>3, <1>4, <1>5, AtEnd DEF QuietInv, HomeInv, ThermalInv, StrobeInv

(* QuietInv when the worker calls.                                         *)
LEMMA QuietWorkerCalls == ASSUME QuietCore, WorkerCalls PROVE QuietInv'
<1> DEFINE h == Head(todo)
           t == Tail(todo)
           b == Body(h)
<1>1. /\ isr = <<>> /\ isr' = <<>> /\ h \in Ops(todo) /\ h.op \in Calls
      /\ UNCHANGED <<current_node, timer>>
      /\ Ops(todo) = {h} \cup Ops(t) /\ Ops(todo') = Ops(b) \cup Ops(t)
      /\ h.op = "action" => Acting(todo) /\ Ops(t) \subseteq {Op("arm")}
      /\ h.op # "action" => ~Acting(todo)
      /\ h.op # "transition" => current_node \in Nodes
      /\ h.op = "transition" => h.node \in Nodes
      /\ h.op = "callback" => h.msg.type \in MessageTypes
  BY WorkerCallsOps DEF QuietCore, CoreInv
<1>3. Acting(todo) => Undisturbed
  BY DEF QuietCore, CoreInv, NavInv, ShapeInv
<1> HIDE DEF h, t, b
<1>4. /\ HasStart(b, "thermal") => h.op = "action" /\ current_node \in OnNodes
      /\ HasStart(b, "strobe") => current_node = "adv_strobe"
      /\ h.op \in {"action", "reset"} => Targets(b) = {}
      /\ h.op = "action" /\ current_node \in OffNodes =>
            HasStop(b, "thermal") /\ HasStop(b, "strobe")
      /\ h.op = "transition" => Targets(b) \subseteq {h.node}
      /\ current_node = "adv_strobe" /\ h.op # "transition" => Targets(b) \subseteq OffNodes
  BY <1>1, CallAdds DEF b
<1>5. /\ Targets(todo') = Targets(b) \cup Targets(t)
      /\ \A k : HasStart(todo', k) <=> HasStart(b, k) \/ HasStart(t, k)
      /\ \A k : HasStop(todo', k) <=> HasStop(b, k) \/ HasStop(t, k)
  BY <1>1, Joined
<1>6. /\ \A k : HasStart(t, k) => HasStart(todo, k)
      /\ \A k : HasStop(todo, k) => HasStop(t, k) \/ Stops(h, k)
      /\ Targets(t) \subseteq Targets(todo)
      /\ h.op = "transition" => h.node \in Targets(todo)
  BY <1>1, Unrolled DEF Leads
<1>7. \A k : ~Stops(h, k)
  BY <1>1 DEF Stops, Calls
<1>8. h.op = "action" => \A k : ~HasStart(t, k)
  BY <1>1, Fields DEF HasStart, Starts
<1>9. /\ current_node \in OffNodes /\ Ending(todo, "thermal") => Ending(todo', "thermal")
      /\ current_node \in OffNodes /\ Ending(todo, "strobe") => Ending(todo', "strobe")
  BY <1>1, <1>4, <1>5, <1>6, <1>7 DEF Ending
<1>10. HomeInv'
  BY <1>1, AtEnd DEF HomeInv
<1>11. ThermalInv'
  <2>1. HasStart(todo', "thermal") => current_node \in OnNodes /\ Undisturbed
    BY <1>1, <1>3, <1>4, <1>5, <1>6 DEF QuietCore, QuietInv, ThermalInv
  <2> QED BY <1>1, <1>9, <2>1, AtEnd DEF QuietCore, QuietInv, ThermalInv, Undisturbed
<1>12. StrobeInv'
  BY <1>1, <1>4, <1>5, <1>6, <1>9, AtEnd DEF QuietCore, QuietInv, StrobeInv
<1> QED BY <1>10, <1>11, <1>12 DEF QuietInv

(* One timer, when a statement that does not navigate is executed.         *)
LEMMA TimerLeft ==
    ASSUME NavInv, NEW s, NEW h, NEW t, Ops(s) = {h} \cup Ops(t), ~Acting(s), Execute(h),
           NEW k \in Timers \ {"inactivity"}, timer'[k] # "stopped"
    PROVE  \/ HasStart(s, k)
           \/ timer[k] # "stopped" /\ (Ending(s, k) => Ending(t, k))
<1>1. CASE Starts(h, k)
  BY <1>1, Unrolled
<1>2. CASE Stops(h, k)
  BY <1>2, TimerExec
<1>3. CASE ~Starts(h, k) /\ ~Stops(h, k)
  BY <1>3, TimerExec, Unrolled DEF Ending
<1> QED BY <1>1, <1>2, <1>3

(* QuietInv when the worker executes a statement.                          *)
LEMMA QuietWorkerExecutes == ASSUME QuietCore, WorkerExecutes PROVE QuietInv'
<1> DEFINE h == Head(todo)
<1>1. /\ isr = <<>> /\ isr' = <<>> /\ Execute(h)
      /\ Ops(todo) = {h} \cup Ops(todo') /\ ~Acting(todo)
      /\ Acting(todo') <=> h.op \in {"enter", "go_home"}
      /\ h.op \in {"enter", "go_home"} =>
            /\ Ops(todo') \subseteq {Op("action"), Op("arm")}
            /\ Undisturbed /\ timer' = timer
      /\ h.op = "enter" => current_node' = h.node
      /\ h.op = "go_home" => current_node' = home_node
      /\ h.op \notin {"enter", "go_home"} => UNCHANGED current_node
      /\ h.op = "arm" => todo' = <<>>
      /\ StartsTimer(h) => \E m : todo' = <<lookup("callback", m)>>
  BY WorkerExecutesOps DEF QuietCore, CoreInv
<1>2. NavInv /\ home_node \in OffNodes
  BY DEF QuietCore, CoreInv, NavInv, NodeInv
<1> HIDE DEF h
<1>3. HomeInv'
  BY <1>1, AtEnd DEF HomeInv
<1>4. CASE h.op \in {"enter", "go_home"}
  <2>1. \A o \in Ops(todo') : Bland(o)
    BY <1>1, <1>4, Blands
  <2>2. /\ Targets(todo') = {} /\ ~HasStart(todo', "thermal") /\ ~HasStart(todo', "strobe")
        /\ Ending(todo', "thermal") /\ Ending(todo', "strobe")
    BY <1>1, <1>4, <2>1, BlandPending DEF Ending
  <2>3. ThermalInv'
    BY <1>1, <2>2, AtEnd DEF ThermalInv
  <2>4. ~HasStop(todo, "strobe")
    <3>1. ~HasStop(todo', "strobe")
      BY <2>1, BlandPending
    <3> QED BY <1>1, <1>4, <3>1, Unrolled DEF Stops
  <2>5. ~Ending(todo, "strobe") /\ ~Ending(isr, "strobe")
    BY <1>1, <2>4, AtEnd DEF Ending
  <2>6. timer["strobe"] # "stopped" => current_node' \in OffNodes
    <3>1. CASE h.op = "go_home"
      BY <1>1, <1>2, <3>1
    <3>2. CASE h.op = "enter"
      <4>1. h.node \in Targets(todo)
        BY <1>1, <3>2, Unrolled DEF Leads
      <4> QED BY <1>1, <3>2, <4>1, <2>5 DEF QuietCore, QuietInv, StrobeInv
    <3> QED BY <1>4, <3>1, <3>2
  <2>7. StrobeInv'
    BY <1>1, <1>4, <2>2, <2>6, AtEnd DEF StrobeInv
  <2> QED BY <1>3, <2>3, <2>7 DEF QuietInv
<1>5. CASE h.op \notin {"enter", "go_home"}
  <2>1. UNCHANGED current_node /\ ~Acting(todo')
    BY <1>1, <1>5
  <2>2. /\ \A k : HasStart(todo', k) => HasStart(todo, k)
        /\ Targets(todo') \subseteq Targets(todo)
    BY <1>1, Unrolled
  <2>3. HasStart(todo', "thermal") => Undisturbed'
    <3>1. CASE StartsTimer(h)
      <4>1. PICK m : todo' = <<lookup("callback", m)>>
        BY <1>1, <3>1
      <4>2. ~HasStart(todo', "thermal")
        BY <4>1, OpsShort, Fields DEF HasStart, Starts
      <4> QED BY <4>2
    <3>2. CASE h.op = "arm"
      BY <1>1, <3>2, AtEnd
    <3>3. CASE ~StartsTimer(h) /\ h.op # "arm"
      <4>1. timer["inactivity"] = "stopped" => timer'["inactivity"] = "stopped"
        BY <1>1, <1>2, <3>3 DEF Execute, TimerAfter, StartsTimer, NavInv, IInv, TimerInv
      <4> QED BY <1>1, <2>2, <4>1 DEF QuietCore, QuietInv, ThermalInv, Undisturbed
    <3> QED BY <3>1, <3>2, <3>3
  <2>4. ThermalInv'
    <3>1. timer'["thermal"] # "stopped" =>
            \/ HasStart(todo, "thermal")
            \/ timer["thermal"] # "stopped" /\ (Ending(todo, "thermal") => Ending(todo', "thermal"))
      BY <1>1, <1>2, TimerLeft DEF Timers
    <3>2. OffNodes \cap OnNodes = {}
      BY DEF OffNodes, OnNodes
    <3> QED BY <1>1, <2>1, <2>2, <2>3, <3>1, <3>2, AtEnd DEF QuietCore, QuietInv, ThermalInv
  <2>5. StrobeInv'
    <3>1. timer'["strobe"] # "stopped" =>
            \/ HasStart(todo, "strobe")
            \/ timer["strobe"] # "stopped" /\ (Ending(todo, "strobe") => Ending(todo', "strobe"))
      BY <1>1, <1>2, TimerLeft DEF Timers
    <3> QED BY <1>1, <2>1, <2>2, <3>1, AtEnd DEF QuietCore, QuietInv, StrobeInv
  <2> QED BY <1>3, <2>4, <2>5 DEF QuietInv
<1> QED BY <1>4, <1>5

(* QuietInv when the inactivity handler starts.                            *)
LEMMA QuietHandler == ASSUME QuietCore, inactivity_timer_handler PROVE QuietInv'
<1>1. PICK node \in Nodes :
              /\ node = IF timeout_node(current_node) # NULL THEN timeout_node(current_node)
                                                             ELSE home_node
              /\ isr = <<>> /\ timer["inactivity"] = "due"
              /\ Ops(isr') = {transition_to(node)}
              /\ timer' = [timer EXCEPT !["inactivity"] = "stopped"]
              /\ UNCHANGED <<current_node, todo>>
  BY HandlerOps DEF QuietCore, CoreInv
<1>2. \A k : ~HasStart(isr', k)
  BY <1>1, Fields DEF HasStart, Starts
<1>3. Targets(isr') = {node}
  BY <1>1, Fields DEF Targets, Leads
<1>4. UNCHANGED <<timer["thermal"], timer["strobe"]>>
  BY <1>1 DEF QuietCore, CoreInv, NavInv, IInv, TimerInv, Timers
<1>5. HomeInv'
  <2>1. current_node \in OffNodes \cup OnNodes => timeout_node(current_node) = NULL
    BY DEF OffNodes, OnNodes, timeout_node
  <2> QED BY <1>1, <1>3, <2>1 DEF HomeInv, QuietCore, CoreInv, NavInv, NodeInv
<1>6. ThermalInv'
  BY <1>1, <1>2, <1>4, AtEnd DEF QuietCore, QuietInv, ThermalInv, Undisturbed
<1>7. StrobeInv'
  BY <1>1, <1>2, <1>4, AtEnd DEF QuietCore, QuietInv, StrobeInv
<1> QED BY <1>5, <1>6, <1>7 DEF QuietInv

(* QuietInv when the handler calls.                                        *)
LEMMA QuietIsrCalls == ASSUME QuietCore, IsrCalls PROVE QuietInv'
<1> DEFINE h == Head(isr)
           t == Tail(isr)
           b == Body(h)
<1>1. /\ isr # <<>> /\ h.op \in {"transition", "action"}
      /\ UNCHANGED <<current_node, timer, todo>>
      /\ Ops(isr) = {h} \cup Ops(t) /\ Ops(isr') = Ops(b) \cup Ops(t)
      /\ h.op = "transition" => ~Acting(isr)
      /\ h.op = "action" => Ops(t) \subseteq {Op("arm")}
      /\ current_node \in Nodes
      /\ h.op = "transition" => h.node \in Nodes
  BY IsrCallsOps DEF QuietCore, CoreInv
<1> HIDE DEF h, t, b
<1>2. /\ HasStart(b, "thermal") => h.op = "action" /\ current_node \in OnNodes
      /\ HasStart(b, "strobe") => current_node = "adv_strobe"
      /\ h.op = "action" => Targets(b) = {}
      /\ h.op = "action" /\ current_node \in OffNodes =>
            HasStop(b, "thermal") /\ HasStop(b, "strobe")
      /\ h.op = "transition" => Targets(b) \subseteq {h.node}
  BY <1>1, CallAdds DEF b, Calls
<1>3. /\ Targets(isr') = Targets(b) \cup Targets(t)
      /\ \A k : HasStart(isr', k) <=> HasStart(b, k) \/ HasStart(t, k)
      /\ \A k : HasStop(isr', k) <=> HasStop(b, k) \/ HasStop(t, k)
  BY <1>1, Joined
<1>4. /\ \A k : HasStart(t, k) => HasStart(isr, k)
      /\ \A k : HasStop(isr, k) => HasStop(t, k) \/ Stops(h, k)
      /\ Targets(t) \subseteq Targets(isr)
      /\ h.op = "transition" => h.node \in Targets(isr)
  BY <1>1, Unrolled DEF Leads
<1>5. \A k : ~Stops(h, k)
  BY <1>1 DEF Stops
<1>6. /\ current_node \in OffNodes /\ Ending(isr, "thermal") => Ending(isr', "thermal")
      /\ current_node \in OffNodes /\ Ending(isr, "strobe") => Ending(isr', "strobe")
  BY <1>1, <1>2, <1>3, <1>4, <1>5 DEF Ending
<1>7. HomeInv'
  BY <1>1, <1>2, <1>3, <1>4 DEF HomeInv, QuietCore, QuietInv
<1>8. ThermalInv'
  BY <1>1, <1>2, <1>3, <1>4, <1>6 DEF QuietCore, QuietInv, ThermalInv, Undisturbed
<1>9. StrobeInv'
  BY <1>1, <1>2, <1>3, <1>4, <1>6 DEF QuietCore, QuietInv, StrobeInv
<1> QED BY <1>7, <1>8, <1>9 DEF QuietInv

(* QuietInv when the handler executes a statement.                         *)
LEMMA QuietIsrExecutes == ASSUME QuietCore, IsrExecutes PROVE QuietInv'
<1> DEFINE h == Head(isr)
<1>1. /\ isr # <<>> /\ Execute(h) /\ UNCHANGED todo
      /\ Ops(isr) = {h} \cup Ops(isr') /\ ~Acting(isr) /\ ~Acting(todo)
      /\ h.op \in PlainOps \cup {"enter", "arm"}
      /\ Acting(isr') <=> h.op = "enter"
      /\ h.op = "enter" => /\ Ops(isr') \subseteq {Op("action"), Op("arm")}
                           /\ h.node \in MayRun /\ current_node' = h.node /\ timer' = timer
      /\ h.op # "enter" => UNCHANGED current_node
  BY IsrExecutesOps DEF QuietCore, CoreInv
<1>2. NavInv /\ current_node \in MayRun /\ ~HasStart(todo, "thermal") /\ "adv_strobe" \notin MayRun
  <2>1. home_node \in OffNodes
    BY DEF QuietCore, CoreInv, NavInv, NodeInv
  <2>2. "adv_strobe" \notin MayRun
    BY <2>1 DEF MayRun, TimedNodes, timeout_node, OffNodes, NULL
  <2> QED BY <1>1, <2>2 DEF QuietCore, CoreInv, NavInv, ShapeInv, QuietInv, ThermalInv, Undisturbed
<1> HIDE DEF h
<1>3. CASE h.op = "enter"
  <2>1. \A o \in Ops(isr') : Bland(o)
    BY <1>1, <1>3, Blands
  <2>2. /\ Targets(isr') = {} /\ ~HasStart(isr', "thermal") /\ ~HasStart(isr', "strobe")
        /\ Ending(isr', "thermal") /\ Ending(isr', "strobe")
    BY <1>1, <1>3, <2>1, BlandPending DEF Ending
  <2>3. ThermalInv'
    BY <1>1, <1>2, <2>2 DEF ThermalInv
  <2>4. current_node # "adv_strobe" /\ current_node' # "adv_strobe"
    BY <1>1, <1>2, <1>3
  <2>5. h.node \in Targets(isr)
    BY <1>1, <1>3, Unrolled DEF Leads
  <2>6. timer["strobe"] # "stopped" => current_node' \in OffNodes
    BY <1>1, <1>3, <2>4, <2>5 DEF QuietCore, QuietInv, StrobeInv, HomeInv
  <2>7. StrobeInv'
    BY <1>1, <1>3, <2>2, <2>4, <2>6 DEF StrobeInv, QuietCore, QuietInv
  <2>8. HomeInv'
    BY <2>2 DEF HomeInv
  <2> QED BY <2>8, <2>3, <2>7 DEF QuietInv
<1>4. CASE h.op # "enter"
  <2>1. UNCHANGED current_node
    BY <1>1, <1>4
  <2>2. /\ \A k : HasStart(isr', k) => HasStart(isr, k)
        /\ Targets(isr') \subseteq Targets(isr)
    BY <1>1, Unrolled
  <2>3. HomeInv'
    BY <2>1, <2>2 DEF HomeInv, QuietCore, QuietInv
  <2>4. ThermalInv'
    <3>1. timer'["thermal"] # "stopped" =>
            \/ HasStart(isr, "thermal")
            \/ timer["thermal"] # "stopped" /\ (Ending(isr, "thermal") => Ending(isr', "thermal"))
      BY <1>1, <1>2, TimerLeft DEF Timers
    <3>2. OffNodes \cap OnNodes = {}
      BY DEF OffNodes, OnNodes
    <3> QED BY <1>1, <1>2, <2>1, <2>2, <3>1, <3>2 DEF QuietCore, QuietInv, ThermalInv
  <2>5. StrobeInv'
    <3>1. timer'["strobe"] # "stopped" =>
            \/ HasStart(isr, "strobe")
            \/ timer["strobe"] # "stopped" /\ (Ending(isr, "strobe") => Ending(isr', "strobe"))
      BY <1>1, <1>2, TimerLeft DEF Timers
    <3> QED BY <1>1, <2>1, <2>2, <3>1 DEF QuietCore, QuietInv, StrobeInv
  <2> QED BY <2>3, <2>4, <2>5 DEF QuietInv
<1> QED BY <1>3, <1>4

(* QuietInv is inductive.                                                  *)
LEMMA QuietStep == ASSUME QuietCore, [Next]_vars PROVE QuietInv'
<1>1. CASE InactivityPasses
  <2>1. /\ isr = <<>> /\ UNCHANGED <<current_node, todo, isr>> /\ timer["inactivity"] = "running"
        /\ UNCHANGED <<timer["thermal"], timer["strobe"]>>
    BY <1>1 DEF InactivityPasses, QuietCore, CoreInv, NavInv, IInv, TimerInv, Timers
  <2> QED BY <2>1 DEF QuietCore, QuietInv, HomeInv, ThermalInv, StrobeInv, Undisturbed
<1>2. CASE Ticks \/ UNCHANGED vars
  <2>1. UNCHANGED <<current_node, timer, todo, isr>>
    BY <1>2, UiTicks DEF vars, QuietCore, CoreInv, FlagInv
  <2> QED BY <2>1 DEF QuietCore, QuietInv, HomeInv, ThermalInv, StrobeInv, Undisturbed
<1> QED
  BY <1>1, <1>2, QuietTaken, QuietReboot, QuietWorkerCalls, QuietWorkerExecutes, QuietHandler,
     QuietIsrCalls, QuietIsrExecutes DEF Next, Ticks

(* The regulation and the strobe do not outlive the way into OFF.          *)
LEMMA QuietInvariance == Spec => []QuietCore
<1>1. Init /\ CoreInv => QuietInv
  <2> SUFFICES ASSUME Init, CoreInv PROVE QuietInv
    OBVIOUS
  <2>1. current_node = NULL /\ todo = <<transition_to(home_node)>> /\ isr = <<>>
        /\ timer["thermal"] = "stopped" /\ timer["strobe"] = "stopped"
    BY DEF Init, Timers
  <2>2. \A k : ~HasStart(todo, k)
    BY <2>1, OpsShort, Fields DEF HasStart, Starts
  <2> QED BY <2>1, <2>2, AtEnd DEF QuietInv, HomeInv, ThermalInv, StrobeInv, OffNodes, OnNodes, NULL
<1>2. CoreInv /\ QuietInv /\ [Next]_vars => QuietInv'
  BY QuietStep DEF QuietCore
<1>3. CoreInv /\ QuietInv <=> QuietCore
  BY DEF QuietCore
<1> QED BY <1>1, <1>2, <1>3, CoreInvariance, PTL DEF Spec

-----------------------------------------------------------------------------
(* A ramp is always on its way to an end.                                  *)

LookupOps == {"reset", "callback", "map"}
Config    == {"adv_config_floor", "adv_config_ceiling"}

(* Statements that begin a ramp.                                           *)
BeginsRamp(o) == Starts(o, "ramp") \/ Writes(o, "ramp_active")
HasRamp(s)    == \E o \in Ops(s) : BeginsRamp(o)

(* Statements that look nothing up and start no inactivity timer.          *)
LEMMA PlainAdds ==
    ASSUME NEW s, Plain(s)
    PROVE  ~HasStart(s, "inactivity") /\ \A o \in Ops(s) : o.op \notin LookupOps
<1>1. \A o \in Ops(s) : o.op \in PlainOps /\ ~StartsTimer(o)
  BY DEF Ops, Plain, IsPlain
<1>2. \A o \in Ops(s) : o.op \notin LookupOps
  BY <1>1 DEF PlainOps, LookupOps
<1>3. ~HasStart(s, "inactivity")
  BY <1>1 DEF HasStart, Starts, StartsTimer
<1> QED BY <1>2, <1>3

(* What a callback begins: a lookup in the map, a ramp, the end of a ramp. *)
LEMMA CallbackBegins ==
    ASSUME NEW h, h.op = "callback", h.msg.type \in MessageTypes, current_node \in Nodes
    PROVE  /\ \A o \in Ops(Body(h)) : o.op \in LookupOps =>
                 o = lookup("map", h.msg) /\ h.msg.type # "HOLD_RELEASE"
           /\ ~HasStart(Body(h), "inactivity")
           /\ HasRamp(Body(h)) =>
                 /\ h.msg.type = "HOLD_START" /\ lookup("map", h.msg) \in Ops(Body(h))
                 /\ \/ h.msg.count = 1 /\ current_node \in OffNodes \cup OnNodes
                    \/ h.msg.count = 2 /\ current_node \in OnNodes
           /\ Targets(Body(h)) \cap (RampNodes \cup Config) = {}
           /\ current_node \in RampNodes /\ h.msg.type = "HOLD_RELEASE" =>
                 HasStop(Body(h), "ramp") /\ HasOp(Body(h), "save_memory")
<1> DEFINE cb == CallbackOf(h.msg)
           R == IF cb.next # NULL THEN OpsThen(cb.next)
                ELSE IF h.msg.type = "HOLD_RELEASE" THEN {} ELSE {lookup("map", h.msg)}
<1>1. Ops(Body(h)) = Ops(cb.ops) \cup R
  BY CallsOps
<1>2. /\ \A o \in Ops(cb.ops) : BeginsRamp(o) =>
            /\ h.msg.type = "HOLD_START" /\ cb.next = NULL
            /\ \/ h.msg.count = 1 /\ current_node \in OffNodes \cup OnNodes
               \/ h.msg.count = 2 /\ current_node \in OnNodes
      /\ cb.next \notin RampNodes \cup Config
      /\ current_node \in RampNodes /\ h.msg.type = "HOLD_RELEASE" =>
                 HasStop(cb.ops, "ramp") /\ HasOp(cb.ops, "save_memory")
  BY CallbackTable DEF CallbackOf, BeginsRamp, Config
<1>3. Plain(cb.ops)
  BY CallbackPlain, CallbacksNamed DEF CallbackOf
<1>4. \A o \in R : \/ o = lookup("map", h.msg) /\ h.msg.type # "HOLD_RELEASE" /\ o.op = "map"
                   \/ o = transition_to(cb.next) /\ cb.next # NULL /\ o.op = "transition"
  BY Fields DEF OpsThen
<1>5. cb.next = NULL /\ h.msg.type = "HOLD_START" => lookup("map", h.msg) \in R
  OBVIOUS
<1>6. Targets(Body(h)) \subseteq {cb.next}
  BY CallbackAdds
<1> HIDE DEF cb, R
<1>7. \A o \in Ops(Body(h)) : o.op \in LookupOps =>
                 o = lookup("map", h.msg) /\ h.msg.type # "HOLD_RELEASE"
  BY <1>1, <1>3, <1>4, PlainAdds DEF LookupOps
<1>8. ~HasStart(Body(h), "inactivity")
  BY <1>1, <1>3, <1>4, PlainAdds DEF HasStart, Starts
<1>9. HasRamp(Body(h)) =>
                 /\ h.msg.type = "HOLD_START" /\ lookup("map", h.msg) \in Ops(Body(h))
                 /\ \/ h.msg.count = 1 /\ current_node \in OffNodes \cup OnNodes
                    \/ h.msg.count = 2 /\ current_node \in OnNodes
  <2>1. \A o \in R : ~BeginsRamp(o)
    BY <1>4 DEF BeginsRamp, Starts, Writes
  <2> QED BY <1>1, <1>2, <1>5, <2>1 DEF HasRamp
<1>10. current_node \in RampNodes /\ h.msg.type = "HOLD_RELEASE" =>
                 HasStop(Body(h), "ramp") /\ HasOp(Body(h), "save_memory")
  BY <1>1, <1>2 DEF HasStop, HasOp
<1> QED BY <1>2, <1>6, <1>7, <1>8, <1>9, <1>10

(* What a map begins: never a ramp's timer, and its node only from         *)
(* outside.                                                                *)
LEMMA MapBegins ==
    ASSUME NEW h, h.op = "map", current_node \in Nodes
    PROVE  /\ \A o \in Ops(Body(h)) : o.op \notin LookupOps
           /\ ~HasStart(Body(h), "inactivity") /\ ~HasRamp(Body(h))
           /\ \A node \in Targets(Body(h)) :
                 /\ node \in RampNodes => current_node \notin RampNodes
                 /\ node = "adv_config_floor" => h.msg.count = 7 /\ h.msg.type # "TAP"
                 /\ node = "adv_config_ceiling" => current_node \in Config
           /\ MapFor(h.msg) # NULL => MapFor(h.msg) \in Targets(Body(h))
<1> DEFINE any == AnyClick(h.msg)
           m == MapFor(h.msg)
<1>1. /\ Ops(Body(h)) \subseteq Ops(any.ops) \cup {transition_to(m), transition_to(any.next)}
      /\ m # NULL => transition_to(m) \in Ops(Body(h))
  BY CallsOps DEF OpsThen
<1>2. Plain(any.ops)
  BY CallbackPlain, CallbacksNamed DEF AnyClick
<1>3. \A o \in Ops(any.ops) : ~Writes(o, "ramp_active")
  <2>1. CASE current_node \notin MenuNodes
    BY <2>1, MenuOps, OpsShort DEF AnyClick
  <2>2. CASE current_node \in MenuNodes
    <3>1. \/ any.ops = <<Stop("buzz")>> \o <<>>
          \/ \E n : any.ops \in {<<Stop("buzz")>> \o <<Set("floor", n)>>,
                                  <<Stop("buzz")>> \o <<Set("ceiling", n)>>}
      BY <2>2, MenuOps DEF AnyClick
    <3>3. Ops(<<Stop("buzz")>> \o <<>>) = {Stop("buzz")}
      BY JoinShort, OpsShort, Short
    <3>4. ~Writes(Stop("buzz"), "ramp_active")
          /\ \A n : ~Writes(Set("floor", n), "ramp_active") /\ ~Writes(Set("ceiling", n), "ramp_active")
      BY Fields DEF Writes
    <3> HIDE DEF any
    <3>5. CASE any.ops # <<Stop("buzz")>> \o <<>>
      <4>0. PICK n : any.ops \in {<<Stop("buzz")>> \o <<Set("floor", n)>>,
                                  <<Stop("buzz")>> \o <<Set("ceiling", n)>>}
        BY <3>1, <3>5
      <4>1. \A a, b : <<a>> \o <<b>> = <<a, b>>
        BY JoinTwo
      <4>2. /\ <<Stop("buzz")>> \o <<Set("floor", n)>> = <<Stop("buzz"), Set("floor", n)>>
            /\ <<Stop("buzz")>> \o <<Set("ceiling", n)>> = <<Stop("buzz"), Set("ceiling", n)>>
        BY <4>1, Zenon
      <4>3. /\ Ops(<<Stop("buzz")>> \o <<Set("floor", n)>>) = {Stop("buzz"), Set("floor", n)}
            /\ Ops(<<Stop("buzz")>> \o <<Set("ceiling", n)>>) = {Stop("buzz"), Set("ceiling", n)}
        BY <4>2, OpsShort, Zenon
      <4>4. Ops(any.ops) \subseteq {Stop("buzz"), Set("floor", n), Set("ceiling", n)}
        <5>1. CASE any.ops = <<Stop("buzz")>> \o <<Set("floor", n)>>
          <6>1. \A a, b, c : {a, b} \subseteq {a, b, c}
            OBVIOUS
          <6>2. Ops(any.ops) = {Stop("buzz"), Set("floor", n)}
            BY <4>3, <5>1, Zenon
          <6> QED BY <6>1, <6>2, Zenon
        <5>2. CASE any.ops = <<Stop("buzz")>> \o <<Set("ceiling", n)>>
          BY <4>3, <5>2, Zenon
        <5> QED BY <4>0, <5>1, <5>2
      <4> QED BY <4>4, <3>4
    <3> QED BY <3>1, <3>3, <3>4, <3>5
  <2> QED BY <2>1, <2>2
<1>4. Targets(Body(h)) \subseteq {m, any.next} \ {NULL} /\ \A k : ~HasStart(Body(h), k)
  BY MapAdds
<1>5. /\ m = "adv_config_floor" => h.msg.count = 7 /\ h.msg.type # "TAP"
      /\ m # "adv_config_ceiling"
      /\ m \in RampNodes => current_node \notin RampNodes
  BY MapTable
<1>6. /\ any.next \in {NULL, "adv_config_ceiling", "adv_on", "adv_battcheck",
                       "adv_cal_thermal_limit", "adv_tempcheck"}
      /\ any.next = "adv_config_ceiling" => current_node \in Config
  BY MenuOps DEF AnyClick, Config, NULL
<1>7. \A n : transition_to(n).op = "transition" /\ transition_to(n).node = n
  BY Fields
<1> HIDE DEF any, m
<1>8. \A o \in Ops(Body(h)) : o.op \notin LookupOps
  BY <1>1, <1>2, <1>7, PlainAdds DEF LookupOps
<1>9. ~HasRamp(Body(h))
  BY <1>1, <1>3, <1>4, <1>7 DEF HasRamp, BeginsRamp, Writes, HasStart
<1>10. \A node \in Targets(Body(h)) :
                 /\ node \in RampNodes => current_node \notin RampNodes
                 /\ node = "adv_config_floor" => h.msg.count = 7 /\ h.msg.type # "TAP"
                 /\ node = "adv_config_ceiling" => current_node \in Config
  BY <1>4, <1>5, <1>6 DEF RampNodes
<1>11. m # NULL => m \in Targets(Body(h))
  BY <1>1, <1>7 DEF Targets, Leads
<1> QED BY <1>4, <1>8, <1>9, <1>10, <1>11 DEF m

(* Any call.                                                               *)
LEMMA CallBegins ==
    ASSUME NEW h, h.op \in Calls, h.op # "transition" => current_node \in Nodes,
           h.op = "callback" => h.msg.type \in MessageTypes
    PROVE  /\ \A o \in Ops(Body(h)) : o.op \in LookupOps =>
                 h.op = "callback" /\ o = lookup("map", h.msg) /\ h.msg.type # "HOLD_RELEASE"
           /\ HasStart(Body(h), "inactivity") => current_node \in TimedNodes
           /\ HasRamp(Body(h)) => h.op = "callback"
           /\ h.op = "action" /\ current_node \in Stopping =>
                 HasStop(Body(h), "ramp") /\ HasOp(Body(h), "save_memory")
           /\ h.op = "action" /\ current_node \in RampNodes => Ops(Body(h)) = {}
           /\ h.op = "transition" => Targets(Body(h)) = {h.node}
<1>1. CASE h.op = "transition"
  <2>1. Ops(Body(h)) = {Stop("inactivity"), Enter(h.node), Op("action"), Op("arm")}
    BY <1>1, CallsOps
  <2>2. \A o \in Ops(Body(h)) : o.op \notin LookupOps \cup {"start", "set"}
    BY <2>1, Fields DEF LookupOps
  <2>3. Targets(Body(h)) = {h.node}
    BY <2>1, Fields DEF Targets, Leads
  <2> QED BY <1>1, <2>2, <2>3 DEF HasStart, Starts, HasRamp, BeginsRamp, Writes
<1>2. CASE h.op = "reset"
  <2>1. Body(h) = reset_inactivity_timer
    BY <1>2 DEF Body
  <2>2. Ops(Body(h)) = IF current_node \in TimedNodes THEN {Start("inactivity")} ELSE {}
    BY <2>1, OpsShort DEF reset_inactivity_timer
  <2>3. /\ \A o \in Ops(Body(h)) : o.op \notin LookupOps \cup {"set"} /\ ~Starts(o, "ramp")
        /\ HasStart(Body(h), "inactivity") => current_node \in TimedNodes
    BY <2>2, Fields DEF LookupOps, Starts, HasStart
  <2> QED BY <1>2, <2>3 DEF HasRamp, BeginsRamp, Writes
<1>3. CASE h.op = "callback"
  BY <1>3, CallbackBegins
<1>4. CASE h.op = "map"
  BY <1>4, MapBegins
<1>5. CASE h.op = "action"
  <2>1. Body(h) = Action(action_routine(current_node)) /\ current_node \in Nodes
    BY <1>5, CallsOps
  <2>2. ~HasStart(Body(h), "inactivity") /\ \A o \in Ops(Body(h)) : o.op \notin LookupOps
    BY <2>1, ActionPlain, PlainAdds
  <2>3. current_node \in RampNodes => Ops(Body(h)) = {}
    BY <2>1, ActionOps, OpsShort
  <2> QED BY <1>5, <2>1, <2>2, <2>3, RoutineTable DEF HasRamp, BeginsRamp
<1> QED BY <1>1, <1>2, <1>3, <1>4, <1>5 DEF Calls

(* A message that is being looked up is one the user makes, and the button *)
(* is as it says.                                                          *)
MsgWell(o) ==
    o.op \in LookupOps =>
        /\ o.msg.type \in MessageTypes
        /\ o.msg.type = "TAP" => o.msg.count \in Taps /\ ~holding
        /\ o.msg.type = "HOLD_START" => o.msg.count \in Holds /\ holding
        /\ o.msg.type = "HOLD_RELEASE" => ~holding /\ o.op # "map"

MsgInv == \A o \in Ops(todo) : MsgWell(o)

(* Without 7H there is no configuration menu, and hence no handler in ON.  *)
CfgInv ==
    7 \notin Holds =>
        /\ current_node \notin Config
        /\ (Targets(todo) \cup Targets(isr)) \cap Config = {}
        /\ "adv_on" \notin Targets(isr)
        /\ isr # <<>> \/ timer["inactivity"] # "stopped" \/ HasStart(todo, "inactivity") =>
              current_node # "adv_on"

MenuCore == QuietCore /\ MsgInv /\ CfgInv

(* MsgInv and CfgInv when a message is taken.                              *)
LEMMA MsgTaken ==
    ASSUME MenuCore, Tap \/ HoldStart \/ HoldRelease \/ Shutdown PROVE MsgInv' /\ CfgInv'
<1>1. NavInv
  BY DEF MenuCore, QuietCore, CoreInv
<1>2. CASE \E msg : /\ Taken(<<lookup("reset", msg), lookup("callback", msg)>>)
                    /\ TakenMessage(msg)
                    /\ Ops(todo') = {lookup("reset", msg), lookup("callback", msg)}
  <2>1. PICK msg : /\ Taken(<<lookup("reset", msg), lookup("callback", msg)>>)
                   /\ TakenMessage(msg)
                   /\ Ops(todo') = {lookup("reset", msg), lookup("callback", msg)}
    BY <1>2
  <2>2. \A o \in Ops(todo') : o.msg = msg /\ o.op \in {"reset", "callback"}
    BY <2>1, Fields
  <2>3. MsgInv'
    BY <2>1, <2>2 DEF MsgInv, MsgWell, TakenMessage
  <2>4. /\ todo = <<>> /\ isr' = isr /\ UNCHANGED <<current_node, timer>>
        /\ Targets(todo') = {} /\ ~HasStart(todo', "inactivity")
    BY <2>1, <2>2 DEF Taken, Targets, Leads, HasStart, Starts
  <2>5. CfgInv'
    BY <2>4, AtEnd DEF MenuCore, CfgInv
  <2> QED BY <2>3, <2>5
<1>3. CASE /\ Taken(fsm_emergency_off)
           /\ Ops(todo') = {Emergency, Stop("inactivity"), Op("go_home"), Op("action")}
  <2>1. \A o \in Ops(todo') : o.op \in {"set", "stop", "go_home", "action"}
    BY <1>3, Fields, Flags
  <2>2. /\ todo = <<>> /\ isr' = isr /\ UNCHANGED <<current_node, timer>>
        /\ Targets(todo') = {} /\ ~HasStart(todo', "inactivity") /\ MsgInv'
    BY <1>3, <2>1 DEF Taken, Targets, Leads, HasStart, Starts, MsgInv, MsgWell, LookupOps
  <2>3. CfgInv'
    BY <2>2, AtEnd DEF MenuCore, CfgInv
  <2> QED BY <2>2, <2>3
<1> QED BY <1>1, <1>2, <1>3, Inputs

(* MsgInv and CfgInv after a reset.                                        *)
LEMMA MsgReboot ==
    ASSUME MenuCore, WorkerReboots \/ WorkerCrashes \/ IsrCrashes PROVE MsgInv' /\ CfgInv'
<1>1. PICK flash : Reboot(flash) /\ flash.mode \in Modes
  BY Reboots DEF MenuCore, QuietCore, CoreInv
<1>2. PICK home \in OffNodes :
        /\ current_node' = NULL /\ Ops(todo') = {transition_to(home)} /\ isr' = <<>>
        /\ timer' = [t \in Timers |-> "stopped"]
  BY <1>1, Rebooted
<1>3. /\ timer'["inactivity"] = "stopped" /\ current_node' \notin Config \cup {"adv_on"}
      /\ home \notin Config
  BY <1>2 DEF Timers, Config, NULL, OffNodes
<1>4. \A o \in Ops(todo') : o.op = "transition" /\ o.node = home
  BY <1>2, Fields
<1>5. MsgInv'
  BY <1>4 DEF MsgInv, MsgWell, LookupOps
<1>6. Targets(todo') \subseteq {home} /\ ~HasStart(todo', "inactivity")
  BY <1>4 DEF Targets, HasStart, Starts
<1> QED BY <1>2, <1>3, <1>5, <1>6, AtEnd DEF CfgInv

(* MsgInv and CfgInv when the worker calls.                                *)
LEMMA MsgWorkerCalls == ASSUME MenuCore, WorkerCalls PROVE MsgInv' /\ CfgInv'
<1> DEFINE h == Head(todo)
           t == Tail(todo)
           b == Body(h)
<1>1. /\ isr = <<>> /\ isr' = <<>> /\ h \in Ops(todo) /\ h.op \in Calls
      /\ UNCHANGED <<current_node, timer, holding>>
      /\ Ops(todo) = {h} \cup Ops(t) /\ Ops(todo') = Ops(b) \cup Ops(t)
      /\ h.op # "transition" => current_node \in Nodes
      /\ h.op = "transition" => h.node \in Nodes
      /\ h.op = "callback" => h.msg.type \in MessageTypes
  BY WorkerCallsOps DEF MenuCore, QuietCore, CoreInv
<1> HIDE DEF h, t, b
<1>2. /\ \A o \in Ops(b) : o.op \in LookupOps =>
                 h.op = "callback" /\ o = lookup("map", h.msg) /\ h.msg.type # "HOLD_RELEASE"
      /\ HasStart(b, "inactivity") => current_node \in TimedNodes
      /\ h.op = "transition" => Targets(b) = {h.node}
      /\ h.op \in {"action", "reset"} => Targets(b) = {}
  BY <1>1, CallBegins, CallAdds DEF b
<1>3. lookup("map", h.msg).msg = h.msg /\ lookup("map", h.msg).op = "map"
  BY Fields
<1>4. MsgInv'
  BY <1>1, <1>2, <1>3 DEF MenuCore, MsgInv, MsgWell, LookupOps
<1>5. CfgInv'
  <2> SUFFICES ASSUME 7 \notin Holds
               PROVE  /\ current_node \notin Config
                      /\ Targets(todo') \cap Config = {}
                      /\ timer["inactivity"] # "stopped" \/ HasStart(todo', "inactivity") =>
                            current_node # "adv_on"
    BY <1>1, AtEnd DEF CfgInv
  <2>1. /\ current_node \notin Config /\ Targets(todo) \cap Config = {}
        /\ timer["inactivity"] # "stopped" \/ HasStart(todo, "inactivity") =>
              current_node # "adv_on"
    BY DEF MenuCore, CfgInv
  <2>2. /\ Targets(todo') = Targets(b) \cup Targets(t)
        /\ HasStart(todo', "inactivity") => HasStart(b, "inactivity") \/ HasStart(t, "inactivity")
        /\ HasStart(t, "inactivity") => HasStart(todo, "inactivity")
        /\ Targets(t) \subseteq Targets(todo)
        /\ h.op = "transition" => h.node \in Targets(todo)
    BY <1>1, Joined, Unrolled DEF Leads
  <2>3. Targets(b) \cap Config = {}
    <3>1. CASE h.op = "callback"
      BY <1>1, <3>1, CallbackBegins DEF b
    <3>2. CASE h.op = "map"
      <4>1. /\ h.msg.type \in MessageTypes /\ h.msg.type # "HOLD_RELEASE"
            /\ h.msg.type = "HOLD_START" => h.msg.count \in Holds
        BY <1>1, <3>2 DEF MenuCore, MsgInv, MsgWell, LookupOps
      <4>2. \A node \in Targets(b) :
                 /\ node = "adv_config_floor" => h.msg.count = 7 /\ h.msg.type # "TAP"
                 /\ node = "adv_config_ceiling" => current_node \in Config
        BY <1>1, <3>2, MapBegins DEF b
      <4> QED BY <2>1, <4>1, <4>2 DEF Config, MessageTypes
    <3> QED BY <1>1, <1>2, <2>1, <2>2, <3>1, <3>2 DEF Calls
  <2>4. current_node \in TimedNodes => current_node # "adv_on"
    BY DEF TimedNodes
  <2> QED BY <1>2, <2>1, <2>2, <2>3, <2>4
<1> QED BY <1>4, <1>5

(* MsgInv and CfgInv when the worker executes a statement.                 *)
LEMMA MsgWorkerExecutes == ASSUME MenuCore, WorkerExecutes PROVE MsgInv' /\ CfgInv'
<1> DEFINE h == Head(todo)
<1>1. /\ isr = <<>> /\ isr' = <<>> /\ Execute(h) /\ UNCHANGED holding
      /\ Ops(todo) = {h} \cup Ops(todo')
      /\ h.op \in {"enter", "go_home"} => Undisturbed /\ timer' = timer
      /\ h.op \in {"enter", "go_home"} => Ops(todo') \subseteq {Op("action"), Op("arm")}
      /\ h.op = "enter" => current_node' = h.node
      /\ h.op = "go_home" => current_node' = home_node
      /\ h.op \notin {"enter", "go_home"} => UNCHANGED current_node
  BY WorkerExecutesOps DEF MenuCore, QuietCore, CoreInv
<1>2. NavInv /\ home_node \in OffNodes
  BY DEF MenuCore, QuietCore, CoreInv, NavInv, NodeInv
<1> HIDE DEF h
<1>3. MsgInv'
  BY <1>1 DEF MenuCore, MsgInv, MsgWell
<1>4. CfgInv'
  <2> SUFFICES ASSUME 7 \notin Holds
               PROVE  /\ current_node' \notin Config
                      /\ Targets(todo') \cap Config = {}
                      /\ timer'["inactivity"] # "stopped" \/ HasStart(todo', "inactivity") =>
                            current_node' # "adv_on"
    BY <1>1, AtEnd DEF CfgInv
  <2>1. /\ current_node \notin Config /\ Targets(todo) \cap Config = {}
        /\ timer["inactivity"] # "stopped" \/ HasStart(todo, "inactivity") =>
              current_node # "adv_on"
    BY DEF MenuCore, CfgInv
  <2>2. /\ Targets(todo') \subseteq Targets(todo)
        /\ HasStart(todo', "inactivity") => HasStart(todo, "inactivity")
        /\ h.op = "enter" => h.node \in Targets(todo)
        /\ StartsTimer(h) => HasStart(todo, "inactivity")
    BY <1>1, Unrolled DEF Leads, StartsTimer, Starts
  <2>3. CASE h.op \in {"enter", "go_home"}
    <3>1. ~HasStart(todo', "inactivity")
      BY <1>1, <2>3, Fields DEF HasStart, Starts
    <3>2. home_node \notin Config
      BY <1>2 DEF OffNodes, Config
    <3> QED BY <1>1, <2>1, <2>2, <2>3, <3>1, <3>2 DEF Undisturbed
  <2>4. CASE h.op \notin {"enter", "go_home"}
    <3>1. timer'["inactivity"] # "stopped" =>
            \/ timer["inactivity"] # "stopped" \/ StartsTimer(h)
            \/ current_node \in TimedNodes
      BY <1>1, <1>2 DEF Execute, TimerAfter, StartsTimer, NavInv, IInv, TimerInv
    <3>2. "adv_on" \notin TimedNodes
      BY DEF TimedNodes
    <3> QED BY <1>1, <2>1, <2>2, <2>4, <3>1, <3>2
  <2> QED BY <2>3, <2>4
<1> QED BY <1>3, <1>4

(* MsgInv and CfgInv when the inactivity handler starts.                   *)
LEMMA MsgHandler == ASSUME MenuCore, inactivity_timer_handler PROVE MsgInv' /\ CfgInv'
<1>1. PICK node \in Nodes :
              /\ node = IF timeout_node(current_node) # NULL THEN timeout_node(current_node)
                                                             ELSE home_node
              /\ isr = <<>> /\ timer["inactivity"] = "due"
              /\ Ops(isr') = {transition_to(node)}
              /\ UNCHANGED <<current_node, todo, holding>>
  BY HandlerOps DEF MenuCore, QuietCore, CoreInv
<1>2. MsgInv'
  BY <1>1 DEF MenuCore, MsgInv, MsgWell
<1>3. Targets(isr') = {node}
  BY <1>1, Fields DEF Targets, Leads
<1>4. home_node \in OffNodes
  BY DEF MenuCore, QuietCore, CoreInv, NavInv, NodeInv
<1>5. current_node \notin Config => node \notin Config \cup {"adv_on"}
  BY <1>1, <1>4 DEF timeout_node, Config, OffNodes, NULL
<1>6. CfgInv'
  BY <1>1, <1>3, <1>5 DEF MenuCore, CfgInv
<1> QED BY <1>2, <1>6

(* MsgInv and CfgInv when the handler calls.                               *)
LEMMA MsgIsrCalls == ASSUME MenuCore, IsrCalls PROVE MsgInv' /\ CfgInv'
<1> DEFINE h == Head(isr)
           t == Tail(isr)
           b == Body(h)
<1>1. /\ isr # <<>> /\ h.op \in {"transition", "action"}
      /\ UNCHANGED <<current_node, timer, todo, holding>>
      /\ Ops(isr) = {h} \cup Ops(t) /\ Ops(isr') = Ops(b) \cup Ops(t)
      /\ current_node \in Nodes
      /\ h.op = "transition" => h.node \in Nodes
  BY IsrCallsOps DEF MenuCore, QuietCore, CoreInv
<1> HIDE DEF h, t, b
<1>2. /\ h.op = "transition" => Targets(b) = {h.node}
      /\ h.op = "action" => Targets(b) = {}
  BY <1>1, CallAdds, CallBegins DEF b, Calls
<1>3. Targets(isr') \subseteq Targets(isr)
  <2>1. Targets(isr') = Targets(b) \cup Targets(t)
    BY <1>1, Joined
  <2>2. Targets(t) \subseteq Targets(isr) /\ (Leads(h) => h.node \in Targets(isr))
    BY <1>1, Unrolled
  <2> QED BY <1>1, <1>2, <2>1, <2>2 DEF Leads
<1>4. CfgInv'
  BY <1>1, <1>3 DEF MenuCore, CfgInv
<1> QED BY <1>1, <1>4 DEF MenuCore, MsgInv, MsgWell

(* MsgInv and CfgInv when the handler executes a statement.                *)
LEMMA MsgIsrExecutes == ASSUME MenuCore, IsrExecutes PROVE MsgInv' /\ CfgInv'
<1> DEFINE h == Head(isr)
<1>1. /\ isr # <<>> /\ Execute(h) /\ UNCHANGED <<todo, holding>>
      /\ Ops(isr) = {h} \cup Ops(isr')
      /\ h.op = "enter" => current_node' = h.node /\ timer' = timer
      /\ h.op # "enter" => UNCHANGED current_node
  BY IsrExecutesOps DEF MenuCore, QuietCore, CoreInv
<1> HIDE DEF h
<1>2. /\ Targets(isr') \subseteq Targets(isr)
      /\ h.op = "enter" => h.node \in Targets(isr)
  BY <1>1, Unrolled DEF Leads
<1>3. CfgInv'
  BY <1>1, <1>2 DEF MenuCore, CfgInv
<1> QED BY <1>1, <1>3 DEF MenuCore, MsgInv, MsgWell

(* MsgInv and CfgInv are inductive.                                        *)
LEMMA MenuStep == ASSUME MenuCore, [Next]_vars PROVE MsgInv' /\ CfgInv'
<1>1. CASE InactivityPasses
  <2>1. /\ UNCHANGED <<current_node, todo, isr, holding>> /\ timer["inactivity"] = "running"
    BY <1>1 DEF InactivityPasses
  <2> QED BY <2>1 DEF MenuCore, MsgInv, MsgWell, CfgInv
<1>2. CASE Ticks \/ UNCHANGED vars
  <2>1. UNCHANGED <<current_node, timer, todo, isr, holding>>
    BY <1>2, UiTicks DEF vars, MenuCore, QuietCore, CoreInv, FlagInv
  <2> QED BY <2>1 DEF MenuCore, MsgInv, MsgWell, CfgInv
<1> QED
  BY <1>1, <1>2, MsgTaken, MsgReboot, MsgWorkerCalls, MsgWorkerExecutes, MsgHandler,
     MsgIsrCalls, MsgIsrExecutes DEF Next, Ticks

(* MenuCore always holds.                                                  *)
LEMMA MenuInvariance == Spec => []MenuCore
<1>1. Init /\ QuietCore => MsgInv /\ CfgInv
  <2> SUFFICES ASSUME Init, QuietCore PROVE MsgInv /\ CfgInv
    OBVIOUS
  <2>1. /\ current_node = NULL /\ todo = <<transition_to(home_node)>> /\ isr = <<>>
        /\ timer["inactivity"] = "stopped" /\ home_node \in OffNodes
    BY DEF Init, Timers, OffNode, OffNodes
  <2>2. \A o \in Ops(todo) : o.op = "transition" /\ o.node = home_node
    BY <2>1, OpsShort, Fields
  <2>3. current_node \notin Config \cup {"adv_on"} /\ home_node \notin Config
    BY <2>1 DEF Config, NULL, OffNodes
  <2>4. MsgInv
    BY <2>2 DEF MsgInv, MsgWell, LookupOps
  <2>5. Targets(todo) \subseteq {home_node} /\ ~HasStart(todo, "inactivity")
    BY <2>2 DEF Targets, HasStart, Starts
  <2> QED BY <2>1, <2>3, <2>4, <2>5, AtEnd DEF CfgInv
<1>2. QuietCore /\ MsgInv /\ CfgInv /\ [Next]_vars => MsgInv' /\ CfgInv'
  BY MenuStep DEF MenuCore
<1>3. QuietCore /\ MsgInv /\ CfgInv <=> MenuCore
  BY DEF MenuCore
<1> QED BY <1>1, <1>2, <1>3, QuietInvariance, PTL DEF Spec

(* What a ramp leaves behind: its timer, until it is stopped, and its      *)
(* flag, until the level is saved.                                         *)
Traces == {"timer", "flag"}
Finishes(o, trace) ==
    \/ trace = "timer" /\ Stops(o, "ramp")
    \/ trace = "flag" /\ o.op = "save_memory"
Finished(s, trace) == \E o \in Ops(s) : Finishes(o, trace)

(* The worker's calls keep a trace on its way to its end.                  *)
LEMMA FinishedJoin ==
    ASSUME NEW u, NEW b, NEW t, Ops(u) = Ops(b) \cup Ops(t), NEW trace
    PROVE  /\ Finished(u, trace) <=> Finished(b, trace) \/ Finished(t, trace)
           /\ HasRamp(u) <=> HasRamp(b) \/ HasRamp(t)
BY DEF Finished, HasRamp

(* What a sequence finishes, its next statement finishes or the rest.      *)
LEMMA FinishedRest ==
    ASSUME NEW s, NEW h, NEW t, Ops(s) = {h} \cup Ops(t), NEW trace
    PROVE  /\ Finished(s, trace) <=> Finishes(h, trace) \/ Finished(t, trace)
           /\ HasRamp(s) <=> BeginsRamp(h) \/ HasRamp(t)
           /\ \A name : HasOp(s, name) <=> h.op = name \/ HasOp(t, name)
BY DEF Finished, HasRamp, HasOp

(* A routine that stops the ramp and saves finishes both traces of it.     *)
LEMMA TraceStops ==
    ASSUME NEW b, HasStop(b, "ramp"), HasOp(b, "save_memory"), NEW trace \in Traces
    PROVE  Finished(b, trace)
BY DEF HasStop, HasOp, Finished, Finishes, Traces

(* Where the handler may come in or be in progress.                        *)
LEMMA HandlersNode == ASSUME NavInv, isr # <<>> \/ timer["inactivity"] # "stopped"
                      PROVE  /\ current_node \in MayRun
                             /\ MayRun \cap (RampNodes \cup {"adv_strobe", "simple_on"}) = {}
<1>1. home_node \in OffNodes
  BY DEF NavInv, NodeInv
<1>2. MayRun \cap (RampNodes \cup {"adv_strobe", "simple_on"}) = {}
  BY <1>1 DEF MayRun, TimedNodes, timeout_node, OffNodes, RampNodes, NULL
<1> QED BY <1>2 DEF NavInv, ShapeInv, IInv, TimerInv

(* What an executed statement does to the traces.                          *)
LEMMA TraceExec ==
    ASSUME CoreInv, NEW o, SetWell(o), Execute(o)
    PROVE  /\ timer'["ramp"] # "stopped" =>
                 BeginsRamp(o) \/ (timer["ramp"] # "stopped" /\ ~Finishes(o, "timer"))
           /\ ui'.ramp_active => BeginsRamp(o) \/ (ui.ramp_active /\ ~Finishes(o, "flag"))
<1>1. timer'["ramp"] # "stopped" =>
         BeginsRamp(o) \/ (timer["ramp"] # "stopped" /\ ~Finishes(o, "timer"))
  BY TimerExec DEF CoreInv, BeginsRamp, Finishes, Timers
<1>2. CASE o.op = "save_memory"
  <2>1. ui'.ramp_active = FALSE
    BY <1>2, UiExec DEF CoreInv, FlagInv, SetWell
  <2> QED BY <1>1, <2>1
<1>3. CASE o.op # "save_memory" /\ ~Writes(o, "ramp_active")
  <2>1. ui'.ramp_active = ui.ramp_active
    BY <1>3, UiExec DEF CoreInv, FlagInv, SetWell
  <2> QED BY <1>1, <1>3, <2>1 DEF Finishes
<1> QED BY <1>1, <1>2, <1>3 DEF BeginsRamp

-----------------------------------------------------------------------------
(* In ON no ramp runs on.  The inactivity handler may change current_node  *)
(* between the two lookups of a hold, so a ramp may begin in a node that   *)
(* is no ramp (ZBeamUiHistory); in ON it never lasts until rest.           *)

(* A hold of ON's ramps, still to be looked up in the map.                 *)
LooksUpHold(s) ==
    \E o \in Ops(s) : o.op = "map" /\ o.msg.type = "HOLD_START" /\ o.msg.count \in {1, 2}

(* What is pending stops the ramp timer, or takes the light out of ON.     *)
RampEnds ==
    \/ HasStop(todo, "ramp") \/ HasStop(isr, "ramp")
    \/ Acting(todo) \/ Acting(isr)
    \/ Targets(todo) \cap RampNodes # {} \/ HasOp(todo, "go_home") \/ LooksUpHold(todo)

OnRampInv ==
    /\ ~HasRamp(isr)
    /\ HasRamp(todo) => LooksUpHold(todo)
    /\ current_node \in OnNodes /\ timer["ramp"] # "stopped" => RampEnds

OnRampCore == MenuCore /\ OnRampInv

(* Lookups, transitions and the shutdown begin no ramp.                    *)
LEMMA BeginsNone ==
    ASSUME NEW o, o \in {Op("arm"), Op("action"), Op("go_home"), Emergency, Stop("inactivity")}
                        \/ o.op \in {"reset", "callback", "map", "transition"}
    PROVE  ~BeginsRamp(o)
BY Fields, Flags DEF BeginsRamp, Starts, Writes

(* OnRampInv when a message is taken: at rest nothing was pending.         *)
LEMMA OnRampTaken ==
    ASSUME OnRampCore, Tap \/ HoldStart \/ HoldRelease \/ Shutdown PROVE OnRampInv'
<1>1. /\ todo = <<>> /\ isr = <<>> /\ isr' = <<>> /\ UNCHANGED <<current_node, timer>>
      /\ ~HasRamp(todo')
  <2>1. ASSUME NEW msg, Ops(todo') = {lookup("reset", msg), lookup("callback", msg)}
        PROVE  ~HasRamp(todo')
    BY <2>1, BeginsNone, Fields DEF HasRamp
  <2>2. ASSUME Ops(todo') = {Emergency, Stop("inactivity"), Op("go_home"), Op("action")}
        PROVE  ~HasRamp(todo')
    BY <2>2, BeginsNone DEF HasRamp
  <2>3. NavInv
    BY DEF OnRampCore, MenuCore, QuietCore, CoreInv
  <2> QED BY <2>1, <2>2, <2>3, Inputs DEF Taken
<1>2. ~RampEnds /\ ~HasRamp(isr')
  BY <1>1, NotActing, AtEnd DEF RampEnds, HasStop, HasOp, LooksUpHold, HasRamp
<1> QED BY <1>1, <1>2 DEF OnRampCore, OnRampInv

(* OnRampInv after a reset.                                                *)
LEMMA OnRampReboot ==
    ASSUME OnRampCore, WorkerReboots \/ WorkerCrashes \/ IsrCrashes PROVE OnRampInv'
<1>1. PICK flash : Reboot(flash) /\ flash.mode \in Modes
  BY Reboots DEF OnRampCore, MenuCore, QuietCore, CoreInv
<1>2. PICK home \in OffNodes :
        /\ current_node' = NULL /\ Ops(todo') = {transition_to(home)} /\ Ops(isr') = {}
  BY <1>1, Rebooted
<1>3. current_node' \notin OnNodes
  BY <1>2 DEF OnNodes, NULL
<1>4. ~HasRamp(todo') /\ ~HasRamp(isr')
  BY <1>2, BeginsNone, Fields DEF HasRamp
<1> QED BY <1>3, <1>4 DEF OnRampInv

(* OnRampInv when the worker calls.                                        *)
LEMMA OnRampWorkerCalls == ASSUME OnRampCore, WorkerCalls PROVE OnRampInv'
<1> DEFINE h == Head(todo)
           t == Tail(todo)
           b == Body(h)
<1>1. /\ isr = <<>> /\ isr' = <<>> /\ h.op \in Calls
      /\ UNCHANGED <<current_node, timer>>
      /\ Ops(todo) = {h} \cup Ops(t) /\ Ops(todo') = Ops(b) \cup Ops(t)
      /\ h.op = "action" => Ops(t) \subseteq {Op("arm")}
      /\ h.op # "action" => ~Acting(todo)
      /\ h.op \in {"callback", "map", "transition"} => Ops(t) = {}
      /\ h.op = "reset" => Ops(t) = {lookup("callback", h.msg)}
      /\ h.op # "transition" => current_node \in Nodes
      /\ h.op = "callback" => h.msg.type \in MessageTypes
  BY WorkerCallsOps DEF OnRampCore, MenuCore, QuietCore, CoreInv
<1> HIDE DEF h, t
<1>2. ~HasRamp(t)
  BY <1>1, BeginsNone, Fields DEF HasRamp, Calls
<1>3. ASSUME HasRamp(todo') PROVE LooksUpHold(todo')
  <2>1. HasRamp(b)
    BY <1>1, <1>2, <1>3, FinishedJoin DEF HasRamp
  <2>2. h.op = "callback"
    BY <1>1, <2>1, CallBegins
  <2>3. /\ h.msg.type = "HOLD_START" /\ lookup("map", h.msg) \in Ops(b)
        /\ h.msg.count \in {1, 2}
    BY <1>1, <2>1, <2>2, CallbackBegins
  <2>4. lookup("map", h.msg).op = "map" /\ lookup("map", h.msg).msg = h.msg
    BY Fields
  <2> QED BY <1>1, <2>3, <2>4 DEF LooksUpHold
<1>4. ASSUME current_node \in OnNodes, RampEnds PROVE RampEnds'
  <2>1. /\ ~HasStop(isr, "ramp") /\ ~Acting(isr) /\ ~Stops(h, "ramp") /\ h.op # "go_home"
    BY <1>1, NotActing DEF HasStop, Stops, Calls
  <2>2. /\ HasStop(t, "ramp") => HasStop(todo', "ramp")
        /\ HasStop(b, "ramp") => HasStop(todo', "ramp")
        /\ HasStop(todo, "ramp") => HasStop(t, "ramp")
        /\ Targets(todo') = Targets(b) \cup Targets(t)
        /\ ~Leads(h) => Targets(todo) = Targets(t)
        /\ HasOp(todo, "go_home") => HasOp(todo', "go_home")
    BY <1>1, <2>1, Joined, Unrolled DEF HasOp
  <2>3. CASE Acting(todo)
    <3>1. HasStop(b, "ramp")
      BY <1>1, <1>4, <2>3, CallBegins DEF Stopping, OnNodes, RampNodes, MenuNodes, Nodes,
                                          SimpleNodes, AdvancedNodes
    <3> QED BY <2>2, <3>1 DEF RampEnds
  <2>4. CASE HasStop(todo, "ramp") \/ HasOp(todo, "go_home")
    BY <2>2, <2>4 DEF RampEnds
  <2>5. CASE Targets(todo) \cap RampNodes # {}
    <3>1. CASE h.op = "transition"
      <4>1. Targets(b) = {h.node} /\ Targets(todo) = {h.node}
        BY <1>1, <3>1, CallBegins DEF Targets, Leads
      <4> QED BY <2>2, <2>5, <4>1 DEF RampEnds
    <3>2. CASE h.op # "transition"
      BY <1>1, <2>2, <2>5, <3>2 DEF RampEnds, Leads, Calls
    <3> QED BY <3>1, <3>2
  <2>6. CASE LooksUpHold(todo)
    <3>1. PICK o \in Ops(todo) : o.op = "map" /\ o.msg.type = "HOLD_START" /\ o.msg.count \in {1, 2}
      BY <2>6 DEF LooksUpHold
    <3>2. CASE o \in Ops(t)
      BY <1>1, <3>1, <3>2 DEF RampEnds, LooksUpHold
    <3>3. CASE o = h
      <4>1. MapFor(h.msg) \in RampNodes
        BY <1>1, <1>4, <3>1, <3>3, MapTable
      <4>2. MapFor(h.msg) \in Targets(b)
        BY <1>1, <3>1, <3>3, <4>1, MapBegins DEF RampNodes, NULL
      <4> QED BY <2>2, <4>1, <4>2 DEF RampEnds
    <3> QED BY <1>1, <3>1, <3>2, <3>3
  <2> QED BY <1>4, <2>1, <2>3, <2>4, <2>5, <2>6 DEF RampEnds
<1>5. ~HasRamp(isr')
  BY <1>1, NotActing DEF HasRamp
<1> QED BY <1>1, <1>3, <1>4, <1>5 DEF OnRampCore, OnRampInv

(* OnRampInv when the worker executes a statement.                         *)
LEMMA OnRampWorkerExecutes == ASSUME OnRampCore, WorkerExecutes PROVE OnRampInv'
<1> DEFINE h == Head(todo)
<1>1. /\ isr = <<>> /\ isr' = <<>> /\ h \in Ops(todo) /\ Execute(h)
      /\ Ops(todo) = {h} \cup Ops(todo') /\ ~Acting(todo)
      /\ h.op \in PlainOps \cup {"enter", "go_home", "arm"}
      /\ Acting(todo') <=> h.op \in {"enter", "go_home"}
      /\ h.op \notin {"enter", "go_home"} => UNCHANGED current_node
  BY WorkerExecutesOps DEF OnRampCore, MenuCore, QuietCore, CoreInv
<1>2. CoreInv /\ SetWell(h)
  BY <1>1 DEF OnRampCore, MenuCore, QuietCore, CoreInv, FlagInv
<1> HIDE DEF h
<1>3. LooksUpHold(todo) => LooksUpHold(todo')
  BY <1>1 DEF LooksUpHold, PlainOps
<1>4. BeginsRamp(h) \/ HasRamp(todo') => LooksUpHold(todo')
  BY <1>1, <1>3 DEF HasRamp, OnRampCore, OnRampInv
<1>5. ~HasRamp(isr')
  BY <1>1, NotActing DEF HasRamp
<1>6. ASSUME current_node' \in OnNodes, timer'["ramp"] # "stopped" PROVE RampEnds'
  <2>1. CASE h.op \in {"enter", "go_home"}
    BY <1>1, <2>1 DEF RampEnds
  <2>2. CASE BeginsRamp(h)
    BY <1>4, <2>2 DEF RampEnds
  <2>3. CASE h.op \notin {"enter", "go_home"} /\ ~BeginsRamp(h)
    <3>1. timer["ramp"] # "stopped" /\ ~Stops(h, "ramp")
      BY <1>1, <1>2, <1>6, <2>3, TraceExec DEF Finishes
    <3>2. RampEnds
      BY <1>1, <1>6, <2>3, <3>1 DEF OnRampCore, OnRampInv
    <3>3. ~HasStop(isr, "ramp") /\ ~Acting(isr)
      BY <1>1, NotActing DEF HasStop
    <3>4. /\ HasStop(todo, "ramp") => HasStop(todo', "ramp")
          /\ Targets(todo) = Targets(todo')
          /\ HasOp(todo, "go_home") => HasOp(todo', "go_home")
      BY <1>1, <2>3, <3>1, Unrolled DEF HasOp, Leads, PlainOps
    <3> QED BY <1>1, <1>3, <3>2, <3>3, <3>4 DEF RampEnds
  <2> QED BY <2>1, <2>2, <2>3
<1> QED BY <1>4, <1>5, <1>6 DEF OnRampInv

(* OnRampInv when the handler calls.                                       *)
LEMMA OnRampIsrCalls == ASSUME OnRampCore, IsrCalls PROVE OnRampInv'
<1> DEFINE h == Head(isr)
           t == Tail(isr)
           b == Body(h)
<1>1. /\ isr # <<>> /\ h.op \in {"transition", "action"} /\ current_node \in Nodes
      /\ UNCHANGED <<current_node, timer, todo>>
      /\ Ops(isr) = {h} \cup Ops(t) /\ Ops(isr') = Ops(b) \cup Ops(t)
      /\ h.op = "transition" => ~Acting(isr)
  BY IsrCallsOps DEF OnRampCore, MenuCore, QuietCore, CoreInv
<1> HIDE DEF h, t
<1>2. ~HasRamp(isr')
  <2>1. ~HasRamp(b)
    BY <1>1, CallBegins DEF Calls
  <2> QED BY <1>1, <2>1, FinishedJoin, FinishedRest DEF HasRamp, OnRampCore, OnRampInv
<1>3. ASSUME current_node \in OnNodes, HasStop(isr, "ramp") \/ Acting(isr)
      PROVE  HasStop(isr', "ramp")
  <2>1. CASE h.op = "action"
    <3>1. HasStop(b, "ramp")
      BY <1>1, <1>3, <2>1, CallBegins DEF Calls, Stopping, OnNodes, RampNodes, MenuNodes, Nodes,
                                          SimpleNodes, AdvancedNodes
    <3> QED BY <1>1, <3>1, Joined
  <2>2. CASE h.op = "transition"
    <3>1. HasStop(t, "ramp")
      BY <1>1, <1>3, <2>2, Unrolled DEF Stops
    <3> QED BY <1>1, <3>1, Joined
  <2> QED BY <1>1, <2>1, <2>2
<1> QED BY <1>1, <1>2, <1>3 DEF OnRampCore, OnRampInv, RampEnds

(* OnRampInv when the handler executes a statement.                        *)
LEMMA OnRampIsrExecutes == ASSUME OnRampCore, IsrExecutes PROVE OnRampInv'
<1> DEFINE h == Head(isr)
<1>1. /\ h \in Ops(isr) /\ Execute(h) /\ UNCHANGED todo
      /\ Ops(isr) = {h} \cup Ops(isr') /\ ~Acting(isr)
      /\ Acting(isr') <=> h.op = "enter"
      /\ h.op # "enter" => UNCHANGED current_node
  BY IsrExecutesOps DEF OnRampCore, MenuCore, QuietCore, CoreInv
<1>2. CoreInv /\ SetWell(h)
  BY <1>1 DEF OnRampCore, MenuCore, QuietCore, CoreInv, FlagInv
<1> HIDE DEF h
<1>3. ~BeginsRamp(h) /\ ~HasRamp(isr')
  BY <1>1 DEF HasRamp, OnRampCore, OnRampInv
<1>4. ASSUME current_node' \in OnNodes, timer'["ramp"] # "stopped" PROVE RampEnds'
  <2>1. CASE h.op = "enter"
    BY <1>1, <2>1 DEF RampEnds
  <2>2. CASE h.op # "enter"
    <3>1. timer["ramp"] # "stopped" /\ ~Stops(h, "ramp")
      BY <1>1, <1>2, <1>3, <1>4, TraceExec DEF Finishes
    <3>2. RampEnds
      BY <1>1, <1>4, <2>2, <3>1 DEF OnRampCore, OnRampInv
    <3>3. HasStop(isr, "ramp") => HasStop(isr', "ramp")
      BY <1>1, <3>1, Unrolled
    <3> QED BY <1>1, <3>2, <3>3 DEF RampEnds
  <2> QED BY <2>1, <2>2
<1> QED BY <1>1, <1>3, <1>4 DEF OnRampCore, OnRampInv

(* OnRampInv is inductive.                                                 *)
LEMMA OnRampStep == ASSUME OnRampCore, [Next]_vars PROVE OnRampInv'
<1>0. NavInv /\ FlagInv /\ timer \in [Timers -> {"stopped", "running", "due"}]
  BY DEF OnRampCore, MenuCore, QuietCore, CoreInv, NavInv, IInv, TimerInv
<1>1. CASE inactivity_timer_handler
  <2>1. PICK node \in Nodes :
          /\ isr = <<>> /\ Ops(isr') = {transition_to(node)}
          /\ timer' = [timer EXCEPT !["inactivity"] = "stopped"]
          /\ UNCHANGED <<current_node, todo>>
    BY <1>0, <1>1, HandlerOps
  <2>2. ~HasRamp(isr') /\ timer'["ramp"] = timer["ramp"]
    BY <1>0, <2>1, BeginsNone, Fields DEF HasRamp, Timers
  <2>3. ~HasStop(isr, "ramp") /\ ~Acting(isr)
    BY <2>1, NotActing DEF HasStop
  <2> QED BY <2>1, <2>2, <2>3 DEF OnRampCore, OnRampInv, RampEnds
<1>2. CASE InactivityPasses
  <2>1. UNCHANGED <<current_node, todo, isr>> /\ timer'["ramp"] = timer["ramp"]
    BY <1>0, <1>2 DEF InactivityPasses, Timers
  <2> QED BY <2>1 DEF OnRampCore, OnRampInv, RampEnds
<1>3. CASE Ticks \/ UNCHANGED vars
  <2>1. UNCHANGED <<current_node, timer, todo, isr>>
    BY <1>0, <1>3, UiTicks DEF vars, FlagInv
  <2> QED BY <2>1 DEF OnRampCore, OnRampInv, RampEnds
<1> QED BY <1>1, <1>2, <1>3, OnRampTaken, OnRampReboot, OnRampWorkerCalls, OnRampWorkerExecutes,
     OnRampIsrCalls, OnRampIsrExecutes DEF Next, Ticks

(* OnRampCore always holds.                                                *)
LEMMA OnRampInvariance == Spec => []OnRampCore
<1>1. Init => OnRampInv
  <2> SUFFICES ASSUME Init PROVE OnRampInv
    OBVIOUS
  <2>1. current_node = NULL /\ todo = <<transition_to(home_node)>> /\ isr = <<>>
    BY DEF Init
  <2>2. ~HasRamp(todo) /\ ~HasRamp(isr)
    BY <2>1, OpsShort, BeginsNone, Fields DEF HasRamp
  <2>3. current_node \notin OnNodes
    BY <2>1 DEF OnNodes, NULL
  <2> QED BY <2>2, <2>3 DEF OnRampInv
<1>2. MenuCore /\ OnRampInv /\ [Next]_vars => OnRampInv'
  BY OnRampStep DEF OnRampCore
<1>3. MenuCore /\ OnRampInv <=> OnRampCore
  BY DEF OnRampCore
<1> QED BY <1>1, <1>2, <1>3, MenuInvariance, PTL DEF Spec

(* Whichever way OFF was entered, the two timers that the handler and the  *)
(* worker start in other nodes are stopped, for any clicks at all.         *)
RegulationAndStrobeStopped ==
    AtRest /\ current_node \in OffNodes => timer["thermal"] = "stopped" /\ timer["strobe"] = "stopped"

(* In OFF, at rest, neither the temperature regulation nor the strobe      *)
(* runs, whatever the counts the user makes and whatever times out: every  *)
(* path into OFF stops both timers after the last statement that starts    *)
(* them.                                                                   *)
THEOREM OffStopsRegulationAndStrobe == Spec => []RegulationAndStrobeStopped
<1>1. QuietCore => RegulationAndStrobeStopped
  BY AtEnd DEF QuietCore, QuietInv, ThermalInv, StrobeInv, RegulationAndStrobeStopped, AtRest, OffNodes
<1> QED BY <1>1, QuietInvariance, PTL

-----------------------------------------------------------------------------
(* Levels.                                                                 *)
LEMMA QuotientBound ==
    ASSUME NEW a \in Nat, NEW b \in Nat \ {0}, NEW r \in Nat, a <= r * b
    PROVE  a \div b \in 0..r
OBVIOUS

(* A product within its bound.                                             *)
LEMMA ProductBound ==
    ASSUME NEW i \in Nat, NEW n \in Nat, NEW r \in Nat, i <= n
    PROVE  i * r \in Nat /\ i * r <= r * n
OBVIOUS

(* One tick of the ramp, whatever the style and the number of steps.       *)
LEMMA TickLevel ==
    ASSUME NEW level \in 0..MaxLevel, NEW direction \in {-1, 0, 1}, NEW style,
           NEW floor \in 1..MaxLevel, NEW ceiling \in 1..MaxLevel, floor < ceiling
    PROVE  LET next == RampTick(level, direction, style, floor, ceiling, Steps)
           IN  next.level \in 0..MaxLevel /\ (level > 0 => next.level > 0)
<1>0. MaxLevel \in 1..255 /\ Steps \in 0..255
  BY LevelsAssumption
<1>1. CASE style = "STEPPED"
  <2> DEFINE steps == UsableSteps(Steps)
             range == IF ceiling = floor THEN 1 ELSE ceiling - floor
             next  == StepIndex(level, floor, range, steps) + (IF direction > 0 THEN 1 ELSE -1)
             idx   == IF next >= steps THEN steps - 1 ELSE IF next < 0 THEN 0 ELSE next
  <2>1. steps \in Nat /\ steps - 1 \in Nat \ {0}
    BY <1>0 DEF UsableSteps
  <2>2. range = ceiling - floor /\ range \in Nat \ {0}
    BY <1>0
  <2>3. RampTick(level, direction, style, floor, ceiling, Steps).level =
          (floor + (idx * range) \div (steps - 1)) % 256
    BY <1>1 DEF RampTick, SteppedTick
  <2> HIDE DEF steps, range
  <2>4. StepIndex(level, floor, range, steps) \in Int
    <3>1. (level - floor) * (steps - 1) + range \div 2 \in Int
      BY <1>0, <2>1, <2>2
    <3> QED BY <3>1, <2>1, <2>2 DEF StepIndex
  <2>5. next \in Int
    BY <2>4
  <2> HIDE DEF next
  <2>6. idx \in Nat /\ idx <= steps - 1
    BY <2>1, <2>5
  <2> HIDE DEF idx
  <2>7. (idx * range) \div (steps - 1) \in 0..range
    BY <2>1, <2>2, <2>6, QuotientBound, ProductBound
  <2>8. (floor + (idx * range) \div (steps - 1)) % 256 \in floor..ceiling
    BY <1>0, <2>2, <2>7
  <2> QED BY <1>0, <2>3, <2>8
<1>2. CASE style # "STEPPED"
  <2>1. RampTick(level, direction, style, floor, ceiling, Steps) =
          SmoothTick(level, direction, floor, ceiling)
    BY <1>2 DEF RampTick
  <2>2. /\ SmoothTick(level, direction, floor, ceiling).level \in 0..MaxLevel
        /\ level > 0 => SmoothTick(level, direction, floor, ceiling).level > 0
    <3>1. CASE direction = 1 /\ level < ceiling - 1
      BY <1>0, <3>1 DEF SmoothTick
    <3>2. CASE direction = 1 /\ level >= ceiling - 1
      BY <1>0, <3>2 DEF SmoothTick
    <3>3. CASE direction = -1 /\ level > floor + 1
      BY <1>0, <3>3 DEF SmoothTick
    <3>4. CASE direction = -1 /\ level <= floor + 1
      BY <1>0, <3>4 DEF SmoothTick
    <3>5. CASE direction = 0
      BY <1>0, <3>5 DEF SmoothTick
    <3> QED BY <1>0, <3>1, <3>2, <3>3, <3>4, <3>5
  <2> QED BY <2>1, <2>2
<1> QED BY <1>1, <1>2

(* Where floor and ceiling may be: the defaults, or what 1 to 10 clicks    *)
(* set in the menu behind 7H.                                              *)
Floors   == {DefaultFloor} \cup (IF 7 \in Holds THEN Taps ELSE {})
Ceilings == {DefaultCeiling} \cup (IF 7 \in Holds THEN {MaxLevel + 1 - n : n \in Taps} ELSE {})
Leds     == Level \cup {1, 4, 40, 100}

(* Floors lie below ceilings, within the levels.                           *)
LEMMA Apart ==
    /\ Floors \subseteq 1..MaxLevel /\ Ceilings \subseteq 1..MaxLevel
    /\ \A f \in Floors, c \in Ceilings : f < c
    /\ 1..MaxLevel \subseteq Level /\ MaxLevel \in Level /\ 0 \in Level
    /\ DefaultMemory \in 1..MaxLevel /\ ManualLevel \in 1..MaxLevel
<1>1. /\ MaxLevel \in 1..255 /\ DefaultFloor \in 1..MaxLevel /\ DefaultCeiling \in 1..MaxLevel
      /\ DefaultMemory \in 1..MaxLevel /\ ManualLevel \in 1..MaxLevel
      /\ DefaultFloor < DefaultCeiling /\ Taps \subseteq 1..10
      /\ 7 \in Holds => \A m, n \in Taps : /\ m < MaxLevel + 1 - n /\ m < DefaultCeiling
                                           /\ DefaultFloor < MaxLevel + 1 - n
  BY LevelsAssumption, InputAssumption
<1>2. CASE 7 \notin Holds
  BY <1>1, <1>2 DEF Floors, Ceilings, Level
<1>3. CASE 7 \in Holds
  <2>1. \A f \in Floors : f \in 1..MaxLevel
    BY <1>1, <1>3 DEF Floors
  <2>2. \A c \in Ceilings : c \in 1..MaxLevel
    <3>1. \A n \in Taps : MaxLevel + 1 - n \in 1..MaxLevel
      BY <1>1, <1>3
    <3> QED BY <1>1, <1>3, <3>1 DEF Ceilings
  <2>3. \A f \in Floors, c \in Ceilings : f < c
    BY <1>1, <1>3 DEF Floors, Ceilings
  <2> QED BY <1>1, <2>1, <2>2, <2>3 DEF Level
<1> QED BY <1>2, <1>3

LevelWell(o) ==
    /\ o.op = "led" => o.level \in Leds
    /\ Writes(o, "floor") => o.val \in Floors
    /\ Writes(o, "ceiling") => o.val \in Ceilings

LevelInv ==
    /\ ui.brightness \in Level /\ ui.memorized \in Level
    /\ ui.floor \in Floors /\ ui.ceiling \in Ceilings
    /\ ui.override \in Floors \cup {0}
    /\ ui.led \in Leds
    /\ \A o \in Ops(todo) \cup Ops(isr) : LevelWell(o)

(* The statements the model writes keep levels within their bounds.        *)
LEMMA LevelsWell ==
    /\ LevelWell(RampOn) /\ LevelWell(StrobeLit) /\ LevelWell(Emergency) /\ LevelWell(Resume)
    /\ LevelWell(Suspend)
    /\ \A level \in Leds : LevelWell(Led(level))
    /\ \A v, n : v \notin {"floor", "ceiling"} => LevelWell(Set(v, n))
    /\ \A n \in Floors : LevelWell(Set("floor", n))
    /\ \A n \in Ceilings : LevelWell(Set("ceiling", n))
    /\ \A o : o.op \notin {"set", "led"} => LevelWell(o)
<1>1. /\ LevelWell(RampOn) /\ LevelWell(StrobeLit) /\ LevelWell(Emergency) /\ LevelWell(Resume)
      /\ LevelWell(Suspend)
  BY Flags DEF LevelWell, Writes
<1>2. \A level \in Leds : LevelWell(Led(level))
  BY Fields DEF LevelWell, Writes
<1>3. \A v, n : v \notin {"floor", "ceiling"} => LevelWell(Set(v, n))
  BY Fields DEF LevelWell, Writes
<1>4. \A n \in Floors : LevelWell(Set("floor", n))
  BY Fields DEF LevelWell, Writes
<1>5. \A n \in Ceilings : LevelWell(Set("ceiling", n))
  BY Fields DEF LevelWell, Writes
<1>6. \A o : o.op \notin {"set", "led"} => LevelWell(o)
  BY DEF LevelWell, Writes
<1> QED BY <1>1, <1>2, <1>3, <1>4, <1>5, <1>6

(* Those of the routines do.                                               *)
LEMMA RoutineLevels ==
    ASSUME ui.brightness \in Level
    PROVE  /\ \A node \in Nodes : \A o \in Ops(Action(action_routine(node))) : LevelWell(o)
           /\ \A dir : \A o \in Ops(start_ramping(dir)) : LevelWell(o)
           /\ \A o \in Ops(stop_ramping) \cup Ops(action_off) \cup Ops(action_moon)
                     \cup Ops(action_strobe_next) \cup Ops(action_toggle_ramp_style) : LevelWell(o)
<1>0. ui.brightness \in Leds /\ 0 \in Leds /\ 100 \in Leds /\ MaxLevel \in Leds
  BY Apart DEF Leds
<1> USE RoutineOps, LevelsWell, Fields, Flags
<1>a. LevelWell(Led(0)) /\ LevelWell(Led(100)) /\ LevelWell(Led(MaxLevel))
      /\ LevelWell(Led(ui.brightness)) /\ LevelWell(Set("active_param", "FREQUENCY"))
      /\ \A dir : LevelWell(Set("ramp_direction", dir))
  BY <1>0
<1>b. /\ \A k : LevelWell(Start(k)) /\ LevelWell(Stop(k))
      /\ \A name : name \notin {"set", "led"} => LevelWell(Op(name))
      /\ LevelWell(LedBrightness) /\ LevelWell(Sleep)
  OBVIOUS
<1>1. /\ \A dir : \A o \in Ops(start_ramping(dir)) : LevelWell(o)
      /\ \A o \in Ops(stop_ramping) : LevelWell(o)
      /\ \A o \in Ops(action_off) : LevelWell(o)
      /\ \A o \in Ops(action_moon) : LevelWell(o)
      /\ \A o \in Ops(action_strobe_next) : LevelWell(o)
      /\ \A o \in Ops(action_toggle_ramp_style) : LevelWell(o)
  BY <1>a, <1>b
<1>2. /\ \A o \in Ops(action_on) : LevelWell(o)
      /\ \A o \in Ops(action_strobe) : LevelWell(o)
      /\ \A o \in Ops(action_aux_config) : LevelWell(o)
      /\ \A o \in Ops(action_turbo) : LevelWell(o)
      /\ \A o \in Ops(action_lockout) : LevelWell(o)
      /\ \A o \in Ops(action_battcheck) : LevelWell(o)
      /\ \A o \in Ops(action_factory_reset) : LevelWell(o)
      /\ \A o \in Ops(action_config_floor) : LevelWell(o)
  BY <1>a, <1>b
<1>3. \A o \in Ops(<<>>) : LevelWell(o)
  BY OpsShort
<1>4. ASSUME NEW node \in Nodes PROVE \A o \in Ops(Action(action_routine(node))) : LevelWell(o)
  <2> DEFINE b == Action(action_routine(node))
  <2>1. b \in {action_off, action_on, <<>>, action_lockout, action_turbo, action_battcheck,
               action_factory_reset, action_strobe, action_aux_config, action_config_floor}
    BY ActionOps, NodeKinds
  <2> HIDE DEF b
  <2>2. \A o \in Ops(b) : LevelWell(o)
    BY <1>1, <1>2, <1>3, <2>1
  <2> QED BY <2>2 DEF b
<1> QED BY <1>1, <1>4

LevelCore == MenuCore /\ LevelInv

(* Those a call is replaced by do.                                         *)
LEMMA CallLevels ==
    ASSUME LevelCore, NEW h \in Ops(todo) \cup Ops(isr), h.op \in Calls,
           h.op # "transition" => current_node \in Nodes,
           h.op = "callback" => h.msg.type \in MessageTypes,
           h.op = "map" => h \in Ops(todo)
    PROVE  \A o \in Ops(Body(h)) : LevelWell(o)
<1>a. ui.brightness \in Level /\ ui.floor \in Floors
  BY DEF LevelCore, LevelInv
<1>0. \A node : \A o \in OpsThen(node) : LevelWell(o)
  BY LevelsWell, Fields DEF OpsThen
<1>1. CASE h.op = "transition"
  BY <1>1, CallsOps, LevelsWell, Fields
<1>2. CASE h.op = "reset"
  BY <1>2, CallsOps, LevelsWell, Fields
<1>3. CASE h.op = "callback"
  <2> DEFINE name == CallbackFor(h.msg)
             cb == Callback(name, h.msg.count)
  <2>1. \/ cb.ops \in {<<>>, action_toggle_ramp_style, action_strobe_next, action_moon,
                       start_ramping(1), start_ramping(-1), stop_ramping, action_off}
        \/ cb.ops = action_moon \o start_ramping(1)
        \/ \E mode \in Modes : cb.ops = <<Set("mode", mode)>>
        \/ cb.ops = <<Op("override_floor")>>
    <3>1. CallbackWhere(name, h.msg)
      BY <1>3, WhichCallback
    <3> HIDE DEF name
    <3> QED BY <3>1, CallbackOps DEF CallbackWhere, Modes
  <2> HIDE DEF cb
  <2>2. \A o \in Ops(cb.ops) : LevelWell(o)
    <3>1. Ops(action_moon \o start_ramping(1)) = Ops(action_moon) \cup Ops(start_ramping(1))
      BY RampPlain, RoutinePlain, OpsJoin DEF Plain
    <3>2. \A mode \in Modes : \A o \in Ops(<<Set("mode", mode)>>) : LevelWell(o)
      BY OpsShort, LevelsWell
    <3>3. \A o \in Ops(<<Op("override_floor")>>) \cup Ops(<<>>) : LevelWell(o)
      BY OpsShort, LevelsWell, Fields
    <3> QED BY <1>a, <2>1, <3>1, <3>2, <3>3, RoutineLevels
  <2> QED BY <1>0, <1>3, <2>2, CallsOps, LevelsWell, Fields DEF CallbackOf, cb
<1>4. CASE h.op = "map"
  <2> DEFINE any == AnyClick(h.msg)
             n == IF MaxLevel + 1 - h.msg.count < ui.floor THEN ui.floor + 1
                                                           ELSE MaxLevel + 1 - h.msg.count
  <2>0. CASE h.msg.type # "TAP" \/ MapFor(h.msg) # NULL
    BY <1>0, <1>4, <2>0, CallsOps
  <2>1. CASE h.msg.type = "TAP"
    <3>1. \/ any.ops = <<>> \/ any.ops = <<Stop("buzz")>> \o <<>>
          \/ /\ current_node \in Config
             /\ any.ops \in {<<Stop("buzz")>> \o <<Set("floor", h.msg.count)>>,
                             <<Stop("buzz")>> \o <<Set("ceiling", n)>>}
      BY MenuOps DEF AnyClick, Config
    <3>2. h.msg.count \in Taps
      BY <1>4, <2>1 DEF LevelCore, MenuCore, MsgInv, MsgWell, LookupOps
    <3>3. current_node \in Config => 7 \in Holds
      BY DEF LevelCore, MenuCore, CfgInv
    <3>4. current_node \in Config => h.msg.count \in Floors /\ n \in Ceilings
      <4> SUFFICES ASSUME current_node \in Config PROVE h.msg.count \in Floors /\ n \in Ceilings
        OBVIOUS
      <4>1. h.msg.count \in Floors /\ MaxLevel + 1 - h.msg.count \in Ceilings
        BY <3>2, <3>3 DEF Floors, Ceilings
      <4>2. /\ ui.floor < MaxLevel + 1 - h.msg.count
            /\ ui.floor \in 1..MaxLevel /\ MaxLevel + 1 - h.msg.count \in 1..MaxLevel
        BY <1>a, <4>1, Apart
      <4>3. n = MaxLevel + 1 - h.msg.count
        BY <4>2, LevelsAssumption
      <4> QED BY <4>1, <4>3
    <3> HIDE DEF any, n
    <3>5. ASSUME NEW a, NEW c PROVE Ops(<<a>> \o <<c>>) = {a, c}
      BY OpsJoin, Short, OpsShort
    <3>6. \A a : Ops(<<a>> \o <<>>) = {a}
      BY JoinShort, Short, OpsShort
    <3>7. LevelWell(Stop("buzz"))
      BY LevelsWell, Fields
    <3>8. \A o \in Ops(any.ops) : LevelWell(o)
      <4>1. CASE any.ops = <<>> \/ any.ops = <<Stop("buzz")>> \o <<>>
        <5>1. Ops(any.ops) \in {{}, {Stop("buzz")}}
          <6>1. Ops(<<Stop("buzz")>> \o <<>>) = {Stop("buzz")}
            BY <3>6
          <6> QED BY <6>1, <4>1, OpsShort
        <5> QED BY <3>7, <5>1
      <4>2. CASE current_node \in Config /\ any.ops = <<Stop("buzz")>> \o <<Set("floor", h.msg.count)>>
        BY <3>4, <3>5, <3>7, <4>2, LevelsWell
      <4>3. CASE current_node \in Config /\ any.ops = <<Stop("buzz")>> \o <<Set("ceiling", n)>>
        BY <3>4, <3>5, <3>7, <4>3, LevelsWell
      <4> QED BY <3>1, <4>1, <4>2, <4>3
    <3> QED BY <1>0, <1>4, <3>8, CallsOps DEF any
  <2> QED BY <2>0, <2>1
<1>5. CASE h.op = "action"
  BY <1>a, <1>5, CallsOps, RoutineLevels
<1> QED BY <1>1, <1>2, <1>3, <1>4, <1>5 DEF Calls

(* Executing a statement.                                                  *)
LEMMA LevelExec ==
    ASSUME LevelCore, NEW o, SetWell(o), LevelWell(o), Execute(o)
    PROVE  /\ ui'.brightness \in Level /\ ui'.memorized \in Level
           /\ ui'.floor \in Floors /\ ui'.ceiling \in Ceilings
           /\ ui'.override \in Floors \cup {0}
           /\ ui'.led \in Leds
<1> USE DEF LevelOps
<1>0. /\ DOMAIN ui = UiFields /\ (o.op = "set" => o.var \in SetFields)
      /\ ui.brightness \in Level /\ ui.memorized \in Level
      /\ ui.floor \in Floors /\ ui.ceiling \in Ceilings
      /\ ui.override \in Floors \cup {0} /\ ui.led \in Leds
  BY DEF LevelCore, LevelInv, MenuCore, QuietCore, CoreInv, FlagInv, SetWell
<1>1. ui'.brightness \in Level
  <2>1. ui.floor \in Level /\ ui.ceiling \in Level
    BY <1>0, Apart
  <2>2. OnLevels \subseteq Level
    <3>1. ui.override > 0 => ui.override \in Level
      BY <1>0, Apart
    <3>2. ManualLevel \in Level
      BY Apart
    <3> QED BY <1>0, <3>1, <3>2, InputAssumption DEF OnLevels
  <2> QED BY <1>0, <2>1, <2>2, UiExec
<1>2. ui'.memorized \in Level
  BY <1>0, UiExec
<1>3. ui'.floor \in Floors
  <2>1. Writes(o, "floor") => ui'["floor"] = o.val
    BY <1>0, UiExec DEF SetFields
  <2> QED BY <1>0, <2>1, UiExec DEF LevelWell
<1>4. ui'.ceiling \in Ceilings
  <2>1. Writes(o, "ceiling") => ui'["ceiling"] = o.val
    BY <1>0, UiExec DEF SetFields
  <2> QED BY <1>0, <2>1, UiExec DEF LevelWell
<1>5. ui'.override \in Floors \cup {0}
  BY <1>0, UiExec
<1>6. ui'.led \in Leds
  BY <1>0, UiExec DEF LevelWell, Leds
<1> QED BY <1>1, <1>2, <1>3, <1>4, <1>5, <1>6

(* LevelInv after a reset.                                                 *)
LEMMA LevelReboot ==
    ASSUME LevelCore, WorkerReboots \/ WorkerCrashes \/ IsrCrashes PROVE LevelInv'
<1>1. PICK flash :
        /\ Reboot(flash)
        /\ DOMAIN flash = {"mode", "memorized", "floor", "ceiling", "style"}
        /\ flash.mode \in Modes
        /\ \/ /\ flash.memorized = DefaultMemory
              /\ flash.floor = DefaultFloor /\ flash.ceiling = DefaultCeiling
           \/ /\ flash.memorized = ui.memorized
              /\ flash.floor = ui.floor /\ flash.ceiling = ui.ceiling
  BY Reboots DEF LevelCore, MenuCore, QuietCore, CoreInv
<1>2. PICK home \in OffNodes :
        /\ Ops(todo') = {transition_to(home)} /\ Ops(isr') = {} /\ ui' = BootUi(flash)
  BY <1>1, Rebooted
<1>3. /\ ui'.memorized = flash.memorized /\ ui'.floor = flash.floor /\ ui'.ceiling = flash.ceiling
      /\ ui'.brightness = 0 /\ ui'.override = 0 /\ ui'.led = 0
  BY <1>1, <1>2, UiBoot
<1>4. /\ flash.memorized \in Level /\ flash.floor \in Floors /\ flash.ceiling \in Ceilings
      /\ 0 \in Level
  BY <1>1, Apart DEF LevelCore, LevelInv, Floors, Ceilings
<1>5. \A o \in Ops(todo') \cup Ops(isr') : LevelWell(o)
  BY <1>2, LevelsWell, Fields
<1> QED BY <1>3, <1>4, <1>5 DEF LevelInv, Leds

(* LevelInv when a timer ticks.                                            *)
LEMMA LevelTicks == ASSUME LevelCore, Ticks PROVE LevelInv'
<1>0. DOMAIN ui = UiFields /\ ui.strobe_type \in 1..4 /\ ui.ramp_direction \in {-1, 0, 1}
  BY DEF LevelCore, MenuCore, QuietCore, CoreInv, FlagInv
<1>1. /\ ui'.memorized = ui.memorized /\ ui'.floor = ui.floor
      /\ ui'.ceiling = ui.ceiling /\ ui'.override = ui.override
      /\ UNCHANGED <<todo, isr>>
  BY <1>0, UiTicks
<1>2. RampTicks \/ OtherTicks
  BY <1>0, UiTicks
<1>3. /\ ui.brightness \in Level /\ ui.led \in Leds
      /\ ui.floor \in 1..MaxLevel /\ ui.ceiling \in 1..MaxLevel /\ ui.floor < ui.ceiling
  BY Apart DEF LevelCore, LevelInv
<1>4. ui'.brightness \in Level /\ ui'.led \in Leds
  <2>1. CASE RampTicks
    <3> DEFINE next == RampTick(ui.brightness, ui.ramp_direction, ui.style, ui.floor, ui.ceiling,
                                Steps)
    <3>1. next.level \in Level
      BY <1>0, <1>3, TickLevel DEF Level
    <3>2. \/ ui'.brightness = next.level /\ ui'.led = next.level
          \/ ui'.brightness = ui.brightness /\ ui'.led = ui.led
      BY <2>1 DEF RampTicks
    <3> HIDE DEF next
    <3> QED BY <1>3, <3>1, <3>2 DEF Leds
  <2>2. CASE OtherTicks
    <3>1. ui'.brightness = ui.brightness /\ ui'.led \in {ui.brightness, 1, 4, 40, MaxLevel, 0}
      BY <2>2 DEF OtherTicks
    <3> QED BY <1>3, <3>1, Apart DEF Leds
  <2> QED BY <1>2, <2>1, <2>2
<1> QED BY <1>1, <1>4 DEF LevelCore, LevelInv

(* LevelInv is inductive.                                                  *)
LEMMA LevelStep == ASSUME LevelCore, [Next]_vars PROVE LevelInv'
<1>0. CoreInv /\ NavInv /\ FlagInv
  BY DEF LevelCore, MenuCore, QuietCore, CoreInv
<1>1. CASE Tap \/ HoldStart \/ HoldRelease \/ Shutdown
  <2>1. \A o \in Ops(todo') : LevelWell(o)
    <3>1. ASSUME NEW msg, Ops(todo') = {lookup("reset", msg), lookup("callback", msg)}
          PROVE  \A o \in Ops(todo') : LevelWell(o)
      BY <3>1, LevelsWell, Fields
    <3>2. ASSUME Ops(todo') = {Emergency, Stop("inactivity"), Op("go_home"), Op("action")}
          PROVE  \A o \in Ops(todo') : LevelWell(o)
      BY <3>2, LevelsWell, Fields
    <3> QED BY <1>0, <1>1, <3>1, <3>2, Inputs
  <2>2. ui' = ui /\ isr' = isr
    BY <1>0, <1>1, Inputs DEF Taken
  <2> QED BY <2>1, <2>2 DEF LevelCore, LevelInv
<1>2. CASE WorkerCalls
  <2> DEFINE h == Head(todo)
             t == Tail(todo)
  <2>1. /\ ui' = ui /\ isr' = isr /\ h \in Ops(todo) /\ h.op \in Calls
        /\ Ops(todo) = {h} \cup Ops(t) /\ Ops(todo') = Ops(Body(h)) \cup Ops(t)
        /\ h.op # "transition" => current_node \in Nodes
        /\ h.op = "callback" => h.msg.type \in MessageTypes
    BY <1>0, <1>2, WorkerCallsOps
  <2> HIDE DEF h, t
  <2>2. \A o \in Ops(Body(h)) : LevelWell(o)
    BY <2>1, CallLevels
  <2> QED BY <2>1, <2>2 DEF LevelCore, LevelInv
<1>3. CASE IsrCalls
  <2> DEFINE h == Head(isr)
             t == Tail(isr)
  <2>1. /\ ui' = ui /\ todo' = todo /\ h \in Ops(isr) /\ h.op \in {"transition", "action"}
        /\ Ops(isr) = {h} \cup Ops(t) /\ Ops(isr') = Ops(Body(h)) \cup Ops(t)
        /\ current_node \in Nodes
    BY <1>0, <1>3, IsrCallsOps
  <2> HIDE DEF h, t
  <2>2. \A o \in Ops(Body(h)) : LevelWell(o)
    BY <2>1, CallLevels DEF Calls
  <2> QED BY <2>1, <2>2 DEF LevelCore, LevelInv
<1>4. CASE WorkerExecutes
  <2> DEFINE h == Head(todo)
  <2>1. isr' = isr /\ h \in Ops(todo) /\ Execute(h) /\ Ops(todo) = {h} \cup Ops(todo')
    BY <1>0, <1>4, WorkerExecutesOps
  <2> HIDE DEF h
  <2>2. SetWell(h) /\ LevelWell(h)
    BY <1>0, <2>1 DEF FlagInv, LevelCore, LevelInv
  <2>3. \A o \in Ops(todo') \cup Ops(isr') : LevelWell(o)
    BY <2>1 DEF LevelCore, LevelInv
  <2> QED BY <2>1, <2>2, <2>3, LevelExec DEF LevelInv
<1>5. CASE IsrExecutes
  <2> DEFINE h == Head(isr)
  <2>1. todo' = todo /\ h \in Ops(isr) /\ Execute(h) /\ Ops(isr) = {h} \cup Ops(isr')
    BY <1>0, <1>5, IsrExecutesOps
  <2> HIDE DEF h
  <2>2. SetWell(h) /\ LevelWell(h)
    BY <1>0, <2>1 DEF FlagInv, LevelCore, LevelInv
  <2>3. \A o \in Ops(todo') \cup Ops(isr') : LevelWell(o)
    BY <2>1 DEF LevelCore, LevelInv
  <2> QED BY <2>1, <2>2, <2>3, LevelExec DEF LevelInv
<1>6. CASE inactivity_timer_handler
  <2>1. ui' = ui /\ todo' = todo /\ \A o \in Ops(isr') : LevelWell(o)
    BY <1>0, <1>6, HandlerOps, LevelsWell, Fields
  <2> QED BY <2>1 DEF LevelCore, LevelInv
<1>7. CASE InactivityPasses \/ UNCHANGED vars
  <2>1. UNCHANGED <<ui, todo, isr>>
    BY <1>7 DEF InactivityPasses, vars
  <2> QED BY <2>1 DEF LevelCore, LevelInv
<1> QED BY <1>1, <1>2, <1>3, <1>4, <1>5, <1>6, <1>7, LevelReboot, LevelTicks DEF Next, Ticks

(* LevelCore always holds.                                                 *)
LEMMA LevelInvariance == Spec => []LevelCore
<1>1. Init /\ MenuCore => LevelInv
  <2> SUFFICES ASSUME Init, MenuCore PROVE LevelInv
    OBVIOUS
  <2>1. PICK mode \in StartModes :
        todo = <<transition_to(home_node)>> /\ isr = <<>> /\ ui = BootUi(Defaults(mode))
    BY DEF Init
  <2>2. /\ ui.memorized = DefaultMemory /\ ui.floor = DefaultFloor /\ ui.ceiling = DefaultCeiling
        /\ ui.brightness = 0 /\ ui.override = 0 /\ ui.led = 0
    BY <2>1 DEF BootUi, Defaults
  <2>3. \A o \in Ops(todo) \cup Ops(isr) : LevelWell(o)
    BY <2>1, OpsShort, LevelsWell, Fields
  <2>4. DefaultMemory \in Level /\ 0 \in Level
    BY Apart
  <2> QED BY <2>2, <2>3, <2>4 DEF LevelInv, Floors, Ceilings, Leds
<1>2. MenuCore /\ LevelInv /\ [Next]_vars => LevelInv'
  BY LevelStep DEF LevelCore
<1>3. MenuCore /\ LevelInv <=> LevelCore
  BY DEF LevelCore
<1> QED BY <1>1, <1>2, <1>3, MenuInvariance, PTL DEF Spec

(* Only the inactivity timer is ever due.                                  *)
DueInv ==
    /\ \A k \in Timers \ {"inactivity"} : timer[k] # "due"
    /\ holding \in BOOLEAN

(* DueInv is inductive.                                                    *)
LEMMA DueStep == ASSUME CoreInv, DueInv, [Next]_vars PROVE DueInv'
<1>0. NavInv /\ FlagInv
  BY DEF CoreInv
<1>1. CASE Tap \/ HoldStart \/ HoldRelease \/ Shutdown
  <2>1. UNCHANGED timer
    BY <1>0, <1>1, Inputs DEF Taken
  <2>2. holding' \in BOOLEAN
    BY <1>1 DEF Tap, HoldStart, HoldRelease, Shutdown, DueInv
  <2> QED BY <2>1, <2>2 DEF DueInv
<1>2. ASSUME NEW o, Execute(o) PROVE DueInv'
  <2>1. holding' = holding
    BY <1>2 DEF Execute
  <2>2. ASSUME NEW k \in Timers \ {"inactivity"} PROVE timer'[k] # "due"
    BY <1>0, <1>2, TimerExec DEF DueInv
  <2> QED BY <2>1, <2>2 DEF DueInv
<1>3. CASE WorkerExecutes \/ IsrExecutes
  BY <1>2, <1>3 DEF WorkerExecutes, IsrExecutes
<1>4. CASE WorkerReboots \/ WorkerCrashes \/ IsrCrashes
  <2>1. timer' = [t \in Timers |-> "stopped"] /\ holding' = FALSE
    BY <1>0, <1>4, Reboots DEF Reboot
  <2> QED BY <2>1 DEF DueInv
<1>5. CASE InactivityPasses \/ inactivity_timer_handler
  <2>1. UNCHANGED holding /\ \A k \in Timers \ {"inactivity"} : timer'[k] = timer[k]
    BY <1>0, <1>5 DEF InactivityPasses, inactivity_timer_handler, NavInv, IInv, TimerInv
  <2> QED BY <2>1 DEF DueInv
<1>6. CASE WorkerCalls \/ IsrCalls \/ UNCHANGED vars
  BY <1>6 DEF WorkerCalls, IsrCalls, vars, DueInv
<1>7. CASE Ticks
  <2>1. UNCHANGED <<timer, holding>>
    BY <1>0, <1>7, UiTicks DEF FlagInv
  <2> QED BY <2>1 DEF DueInv
<1> QED BY <1>1, <1>3, <1>4, <1>5, <1>6, <1>7 DEF Next, Ticks

(* The static variables keep the types they have in C, whatever the user   *)
(* sets in the menus and whatever the handlers write behind a message's    *)
(* back: a level stays between 0 and the largest brightness.               *)
THEOREM UiTypeCorrect == Spec => []TypeOK
<1>1. Init => DueInv
  BY DEF Init, DueInv, Timers
<1>2. CoreInv /\ DueInv /\ [Next]_vars => DueInv'
  BY DueStep
<1>3. LevelCore /\ DueInv => TypeOK
  <2> SUFFICES ASSUME LevelCore, DueInv PROVE TypeOK
    OBVIOUS
  <2>1. /\ current_node \in Nodes \cup {NULL} /\ previous_node \in Nodes \cup {NULL}
        /\ home_node \in OffNodes
        /\ timer \in [Timers -> {"stopped", "running", "due"}]
    BY DEF LevelCore, MenuCore, QuietCore, CoreInv, NavInv, NodeInv, IInv, TimerInv
  <2>2. /\ {ui.brightness, ui.memorized, ui.override, ui.floor, ui.ceiling} \subseteq Level
        /\ ui.led \in Level \cup {1, 4, 40, 100}
    <3>1. Floors \subseteq Level /\ Ceilings \subseteq Level
      BY Apart, Zenon
    <3>2. /\ ui.brightness \in Level /\ ui.memorized \in Level
          /\ ui.override \in Floors \cup {0}
          /\ ui.floor \in Floors /\ ui.ceiling \in Ceilings /\ ui.led \in Leds
      BY DEF LevelCore, LevelInv
    <3>3. 0 \in Level
      BY Apart
    <3> HIDE DEF Level, Floors, Ceilings
    <3> QED BY <3>1, <3>2, <3>3 DEF Leds
  <2>3. /\ ui.ramp_direction \in {-1, 0, 1} /\ ui.strobe_type \in 1..Len(StrobeTypes)
    <3>1. Len(StrobeTypes) = 4
      BY DEF StrobeTypes
    <3> QED BY <3>1 DEF LevelCore, MenuCore, QuietCore, CoreInv, FlagInv
  <2>4. ui.ramp_active \in BOOLEAN /\ ui.strobe_on \in BOOLEAN
    BY DEF LevelCore, MenuCore, QuietCore, CoreInv, FlagInv
  <2>5. /\ \A t \in Timers \ {"inactivity"} : timer[t] # "due"
        /\ holding \in BOOLEAN
    BY DEF DueInv
  <2> QED BY <2>1, <2>2, <2>3, <2>4, <2>5, Zenon DEF TypeOK
<1> QED BY <1>1, <1>2, <1>3, LevelInvariance, CoreInvariance, PTL DEF Spec

-----------------------------------------------------------------------------
(* ON shows its level.  Whoever chooses a level sets the LED to it in the  *)
(* next statement: this is the one place where the order of what is        *)
(* pending matters.                                                        *)
LevelShown(s) ==
    \A i \in 1..Len(s) : s[i].op \in LevelOps => i < Len(s) /\ s[i + 1] = LedBrightness

(* Two such sequences joined are one.                                      *)
LEMMA ShownJoin ==
    ASSUME NEW s, NEW t, IsSeq(s), IsSeq(t), LevelShown(s), LevelShown(t)
    PROVE  LevelShown(s \o t)
<1> DEFINE u == s \o t
<1>1. /\ Len(s) \in Nat /\ Len(t) \in Nat /\ Len(u) = Len(s) + Len(t)
      /\ \A i \in 1..(Len(s) + Len(t)) : u[i] = IF i <= Len(s) THEN s[i] ELSE t[i - Len(s)]
  BY Joins
<1> HIDE DEF u
<1>2. ASSUME NEW i \in 1..Len(u), u[i].op \in LevelOps
      PROVE  i < Len(u) /\ u[i + 1] = LedBrightness
  <2>1. CASE i <= Len(s)
    <3>1. i \in 1..Len(s) /\ u[i] = s[i]
      BY <1>1, <2>1
    <3>2. i < Len(s) /\ s[i + 1] = LedBrightness
      BY <1>2, <3>1 DEF LevelShown
    <3> QED BY <1>1, <3>1, <3>2
  <2>2. CASE i > Len(s)
    <3>1. i - Len(s) \in 1..Len(t) /\ u[i] = t[i - Len(s)]
      BY <1>1, <2>2
    <3>2. i - Len(s) < Len(t) /\ t[i - Len(s) + 1] = LedBrightness
      BY <1>2, <3>1 DEF LevelShown
    <3>3. i + 1 \in 1..(Len(s) + Len(t)) /\ ~(i + 1 <= Len(s)) /\ (i + 1) - Len(s) = i - Len(s) + 1
      BY <1>1, <2>2, <3>1, <3>2
    <3> QED BY <1>1, <3>2, <3>3
  <2> QED BY <1>1, <2>1, <2>2
<1>3. LevelShown(u)
  BY <1>2 DEF LevelShown
<1> QED BY <1>3 DEF u

(* What is left of such a sequence, once its first statement is executed.  *)
LEMMA ShownTail ==
    ASSUME NEW s, IsSeq(s), s # <<>>, LevelShown(s)
    PROVE  /\ LevelShown(Tail(s))
           /\ Head(s).op \in LevelOps => HasOp(Tail(s), "led_brightness")
<1> DEFINE t == Tail(s)
<1>1. /\ IsSeq(t) /\ Head(s) = s[1] /\ Len(s) \in Nat \ {0} /\ Len(t) = Len(s) - 1
      /\ \A i \in 1..(Len(s) - 1) : t[i] = s[i + 1]
  BY Tails
<1> HIDE DEF t
<1>2. ASSUME NEW i \in 1..Len(t), t[i].op \in LevelOps
      PROVE  i < Len(t) /\ t[i + 1] = LedBrightness
  <2>1. i + 1 \in 1..Len(s) /\ t[i] = s[i + 1]
    BY <1>1
  <2>2. i + 1 < Len(s) /\ s[(i + 1) + 1] = LedBrightness
    BY <1>2, <2>1 DEF LevelShown
  <2> QED BY <1>1, <2>1, <2>2
<1>3. LevelShown(t)
  BY <1>2 DEF LevelShown
<1>4. ASSUME Head(s).op \in LevelOps PROVE HasOp(t, "led_brightness")
  <2>1. 1 < Len(s) /\ s[2] = LedBrightness
    BY <1>1, <1>4 DEF LevelShown
  <2>2. 1 \in 1..Len(t) /\ t[1] = LedBrightness
    BY <1>1, <2>1
  <2> QED BY <2>2, Fields DEF HasOp, Ops
<1> QED BY <1>3, <1>4 DEF t

(* A sequence that chooses no level, and one that does.                    *)
LEMMA ShownNone ==
    ASSUME NEW s, \A o \in Ops(s) : o.op \notin LevelOps PROVE LevelShown(s)
BY DEF LevelShown, Ops

(* A level that is still to be chosen is still to be shown.                *)
LEMMA ShownPending ==
    ASSUME NEW s, IsSeq(s), LevelShown(s), NEW name \in LevelOps, HasOp(s, name)
    PROVE  HasOp(s, "led_brightness")
<1>1. PICK i \in 1..Len(s) : s[i].op = name
  BY DEF HasOp, Ops
<1>2. i < Len(s) /\ s[i + 1] = LedBrightness
  BY <1>1 DEF LevelShown
<1>3. Len(s) \in Nat
  BY DEF IsSeq
<1>4. i + 1 \in 1..Len(s)
  BY <1>2, <1>3
<1> QED BY <1>2, <1>4, Fields DEF HasOp, Ops

(* A level and the statement that shows it.                                *)
LEMMA ShownPair == \A name : LevelShown(<<Op(name), LedBrightness>>)
<1> SUFFICES ASSUME NEW name PROVE LevelShown(<<Op(name), LedBrightness>>)
  OBVIOUS
<1> DEFINE s == <<Op(name), LedBrightness>>
<1>1. Len(s) = 2 /\ s[1] = Op(name) /\ s[2] = LedBrightness
  OBVIOUS
<1> HIDE DEF s
<1>2. LedBrightness.op \notin LevelOps
  BY Fields DEF LevelOps
<1>3. LevelShown(s)
  BY <1>1, <1>2 DEF LevelShown
<1> QED BY <1>3 DEF s

(* The routines show the level they choose.                                *)
LEMMA RoutineShown ==
    /\ \A node \in Nodes : LevelShown(Action(action_routine(node)))
    /\ LevelShown(action_moon)
<1> USE DEF LevelOps
<1>1. LevelShown(stop_ramping) /\ LevelShown(<<Resume, Start("thermal")>>) /\ LevelShown(<<Resume>>)
      /\ LevelShown(<<Resume, Stop("strobe")>>)
  BY ShownNone, RoutineOps, OpsShort, Fields, Flags
<1>2. IsSeq(stop_ramping) /\ IsSeq(<<Resume, Start("thermal")>>) /\ IsSeq(<<Resume>>)
      /\ \A name : IsSeq(<<Op(name), LedBrightness>>)
  BY Short DEF stop_ramping
<1>3. LevelShown(action_on)
  <2>1. LevelShown(stop_ramping \o <<Op("level_on"), LedBrightness>>)
        /\ IsSeq(stop_ramping \o <<Op("level_on"), LedBrightness>>)
    BY <1>1, <1>2, ShownPair, ShownJoin, Joins
  <2>2. LevelShown(<<Resume, Start("thermal")>> \o (stop_ramping \o <<Op("level_on"), LedBrightness>>))
    BY <1>1, <1>2, <2>1, ShownJoin
  <2>3. action_on = <<Resume, Start("thermal")>> \o (stop_ramping \o <<Op("level_on"), LedBrightness>>)
    BY DEF action_on, stop_ramping
  <2> QED BY <2>2, <2>3
<1>4. LevelShown(action_turbo)
  <2>1. LevelShown(stop_ramping \o <<Op("level_ceiling"), LedBrightness>>)
        /\ IsSeq(stop_ramping \o <<Op("level_ceiling"), LedBrightness>>)
    BY <1>1, <1>2, ShownPair, ShownJoin, Joins
  <2>2. LevelShown(<<Resume>> \o (stop_ramping \o <<Op("level_ceiling"), LedBrightness>>))
    BY <1>1, <1>2, <2>1, ShownJoin
  <2>3. action_turbo = <<Resume>> \o (stop_ramping \o <<Op("level_ceiling"), LedBrightness>>)
    BY DEF action_turbo, stop_ramping
  <2> QED BY <2>2, <2>3
<1>5. LevelShown(action_moon)
  <2>1. LevelShown(<<Resume, Stop("strobe")>> \o <<Op("level_floor"), LedBrightness>>)
    BY <1>1, ShownPair, ShownJoin, Short
  <2>2. action_moon = <<Resume, Stop("strobe")>> \o <<Op("level_floor"), LedBrightness>>
    BY DEF action_moon
  <2> QED BY <2>1, <2>2
<1>6. /\ LevelShown(action_off) /\ LevelShown(action_lockout) /\ LevelShown(action_battcheck)
      /\ LevelShown(action_factory_reset) /\ LevelShown(action_strobe)
      /\ LevelShown(action_aux_config) /\ LevelShown(action_config_floor) /\ LevelShown(<<>>)
  BY ShownNone, RoutineOps, OpsShort, Fields, Flags
<1>7. ASSUME NEW node \in Nodes PROVE LevelShown(Action(action_routine(node)))
  BY <1>3, <1>4, <1>6, ActionOps, NodeKinds
<1> QED BY <1>5, <1>7

(* A callback shows the level it chooses.                                  *)
LEMMA CallbackShown ==
    ASSUME NEW msg, msg.type \in MessageTypes, current_node \in Nodes
    PROVE  LevelShown(CallbackOf(msg).ops)
<1> USE DEF LevelOps
<1> DEFINE name == CallbackFor(msg)
           b    == CallbackOf(msg).ops
<1>0. CallbackWhere(name, msg)
  BY WhichCallback
<1>1. /\ IsSeq(action_moon) /\ IsSeq(start_ramping(1)) /\ IsSeq(stop_ramping)
      /\ LevelShown(start_ramping(1)) /\ LevelShown(start_ramping(-1)) /\ LevelShown(stop_ramping)
  BY RoutinePlain, RampPlain, ShownNone, RoutineOps, Fields, Flags DEF Plain
<1>2. LevelShown(action_moon) /\ LevelShown(action_moon \o start_ramping(1))
  BY <1>1, RoutineShown, ShownJoin
<1>3. LevelShown(action_off) /\ LevelShown(action_strobe_next)
      /\ LevelShown(action_toggle_ramp_style)
      /\ LevelShown(<<>>) /\ LevelShown(<<Op("override_floor")>>)
      /\ \A mode : LevelShown(<<Set("mode", mode)>>)
  BY ShownNone, RoutineOps, OpsShort, Fields, Flags
<1>4. /\ name = NULL => b = <<>>
      /\ name = "toggle_ramp_style" => b = action_toggle_ramp_style
      /\ name = "strobe_next" => b = action_strobe_next
      /\ name = "hold_from_off" => b = action_moon \o start_ramping(1)
      /\ name = "10h_toggle" => \E mode \in {"SIMPLE", "ADVANCED"} : b = <<Set("mode", mode)>>
      /\ name = "hold_ramp_up" => b = start_ramping(1)
      /\ name = "hold_ramp_down" => b = start_ramping(-1)
      /\ name = "lockout_momentary" => b = action_moon
      /\ name = "unlock_floor" => b = <<Op("override_floor")>>
      /\ name \in {"ramp_release", "strobe_release"} => b = stop_ramping
      /\ name = "lockout_release" => b = action_off
  BY CallbackOps DEF CallbackOf
<1> HIDE DEF name, b
<1>5. LevelShown(b)
  BY <1>0, <1>1, <1>2, <1>3, <1>4 DEF CallbackWhere
<1> QED BY <1>5 DEF b

(* What the callback of a menu does, and where it goes.                    *)
LEMMA MenuSteps ==
    ASSUME NEW count
    PROVE  LET any == Callback(any_click_callback(current_node), count)
           IN  /\ \A o \in Ops(any.ops) : o = Stop("buzz") \/ o.op = "set"
               /\ any.next = NULL => Ops(any.ops) = {}
<1> DEFINE any == Callback(any_click_callback(current_node), count)
           n   == IF MaxLevel + 1 - count < ui.floor THEN ui.floor + 1 ELSE MaxLevel + 1 - count
<1>1. /\ current_node \notin MenuNodes => any.ops = <<>> /\ any.next = NULL
      /\ current_node \in MenuNodes =>
            /\ any.next # NULL
            /\ \/ any.ops = <<Stop("buzz")>> \o <<>>
               \/ any.ops = <<Stop("buzz")>> \o <<Set("floor", count)>>
               \/ any.ops = <<Stop("buzz")>> \o <<Set("ceiling", n)>>
  BY MenuOps DEF NULL
<1> HIDE DEF any, n
<1>2. ASSUME NEW a, NEW c PROVE Ops(<<a>> \o <<c>>) = {a, c}
  BY OpsJoin, Short, OpsShort
<1>3. \A a : Ops(<<a>> \o <<>>) = {a}
  BY JoinShort, Short, OpsShort
<1>4. CASE current_node \notin MenuNodes
  BY <1>1, <1>4, OpsShort DEF any
<1>5. CASE current_node \in MenuNodes
  <2>1. any.next # NULL
    BY <1>1, <1>5
  <2>2. \A o \in Ops(any.ops) : o = Stop("buzz") \/ o.op = "set"
    <3>1. CASE any.ops = <<Stop("buzz")>> \o <<>>
      BY <1>3, <3>1
    <3>2. CASE any.ops = <<Stop("buzz")>> \o <<Set("floor", count)>>
      BY <1>2, <3>2, Fields
    <3>3. CASE any.ops = <<Stop("buzz")>> \o <<Set("ceiling", n)>>
      BY <1>2, <3>3, Fields
    <3> QED BY <1>1, <1>5, <3>1, <3>2, <3>3
  <2> QED BY <2>1, <2>2 DEF any
<1> QED BY <1>4, <1>5

(* What a call is replaced by shows the level it chooses.                  *)
LEMMA CallShown ==
    ASSUME NEW h, h.op \in Calls, h.op # "transition" => current_node \in Nodes,
           h.op = "callback" => h.msg.type \in MessageTypes
    PROVE  LevelShown(Body(h))
<1>1. CASE h.op = "transition"
  BY <1>1, CallsOps, ShownNone, Fields DEF LevelOps
<1>2. CASE h.op = "reset"
  BY <1>2, CallsOps, ShownNone, Fields DEF LevelOps
<1>3. CASE h.op = "callback"
  <2> DEFINE cb   == CallbackOf(h.msg)
             rest == IF cb.next # NULL THEN Then(cb.next)
                     ELSE IF h.msg.type = "HOLD_RELEASE" THEN <<>> ELSE <<lookup("map", h.msg)>>
  <2>1. Body(h) = cb.ops \o rest
    BY <1>3 DEF Body, TryCallback, CallbackOf
  <2>2. LevelShown(cb.ops) /\ IsSeq(cb.ops)
    BY <1>3, CallbackShown, CallbacksNamed, CallbackPlain DEF CallbackOf, Plain
  <2>3. LevelShown(rest) /\ IsSeq(rest)
    <3>1. LevelShown(<<>>) /\ LevelShown(<<lookup("map", h.msg)>>)
          /\ \A node : LevelShown(<<transition_to(node)>>)
      BY ShownNone, OpsShort, Fields DEF LevelOps
    <3> QED BY <3>1, Short DEF Then
  <2> HIDE DEF cb, rest
  <2> QED BY <2>1, <2>2, <2>3, ShownJoin
<1>4. CASE h.op = "map"
  <2>1. \A o \in Ops(Body(h)) : o.op \notin LevelOps
    <3>1. \A node : \A o \in OpsThen(node) : o.op = "transition"
      BY Fields DEF OpsThen
    <3>2. \A o \in Ops(AnyClick(h.msg).ops) : o.op \in {"stop", "set"}
      BY MenuSteps, Fields DEF AnyClick
    <3> QED BY <1>4, <3>1, <3>2, CallsOps DEF LevelOps
  <2> QED BY <2>1, ShownNone
<1>5. CASE h.op = "action"
  BY <1>5, CallsOps, RoutineShown
<1> QED BY <1>1, <1>2, <1>3, <1>4, <1>5 DEF Calls

(* The buzz of a menu is stopped only on the way out of it.                *)
LEMMA CallBuzz ==
    ASSUME NEW h, h.op \in Calls, h.op # "transition" => current_node \in Nodes,
           h.op = "callback" => h.msg.type \in MessageTypes, HasStop(Body(h), "buzz")
    PROVE  h.op = "map" /\ Targets(Body(h)) # {}
<1>1. PICK o \in Ops(Body(h)) : Stops(o, "buzz")
  BY DEF HasStop
<1>2. CASE h.op = "transition"
  BY <1>1, <1>2, CallsOps, Fields DEF Stops
<1>3. CASE h.op = "reset"
  BY <1>1, <1>3, CallsOps, Fields DEF Stops
<1>4. CASE h.op = "callback"
  <2>1. \A p \in Ops(CallbackOf(h.msg).ops) : ~Stops(p, "buzz")
    BY <1>4, CallbackTable DEF CallbackOf
  <2>2. \A node : \A p \in OpsThen(node) : ~Stops(p, "buzz")
    BY Fields DEF OpsThen, Stops
  <2>3. ~Stops(lookup("map", h.msg), "buzz")
    BY Fields DEF Stops
  <2> QED BY <1>1, <1>4, <2>1, <2>2, <2>3, CallsOps
<1>5. CASE h.op = "action"
  BY <1>1, <1>5, CallsOps, RoutineTable
<1>6. CASE h.op = "map"
  <2>1. \A node : \A p \in OpsThen(node) : ~Stops(p, "buzz")
    BY Fields DEF OpsThen, Stops
  <2>2. /\ o \in Ops(AnyClick(h.msg).ops)
        /\ Ops(Body(h)) = Ops(AnyClick(h.msg).ops) \cup OpsThen(AnyClick(h.msg).next)
    BY <1>1, <1>6, <2>1, CallsOps
  <2>3. AnyClick(h.msg).next # NULL
    BY <2>2, MenuSteps DEF AnyClick
  <2>4. transition_to(AnyClick(h.msg).next) \in Ops(Body(h))
    BY <2>2, <2>3 DEF OpsThen
  <2> QED BY <1>6, <2>4, Fields DEF Targets, Leads
<1> QED BY <1>2, <1>3, <1>4, <1>5, <1>6 DEF Calls

(* A sequence with another one after it, after its first statement.        *)
LEMMA TailJoin ==
    ASSUME NEW s, NEW t, IsSeq(s), IsSeq(t), s # <<>>
    PROVE  s \o t # <<>> /\ Head(s \o t) = Head(s) /\ Tail(s \o t) = Tail(s) \o t
<1>1. PICK S : s \in Seq(S)
  BY DEF IsSeq
<1>2. PICK T : t \in Seq(T)
  BY DEF IsSeq
<1> DEFINE V == S \cup T
           u == s \o t
           v == Tail(s) \o t
<1>3. s \in Seq(V) /\ t \in Seq(V)
  BY <1>1, <1>2
<1> HIDE DEF V
<1>4. /\ u \in Seq(V) /\ Len(u) = Len(s) + Len(t) /\ Len(s) \in Nat \ {0} /\ Len(t) \in Nat
      /\ \A i \in 1..(Len(s) + Len(t)) : u[i] = IF i <= Len(s) THEN s[i] ELSE t[i - Len(s)]
  BY <1>3, ConcatProperties
<1>5. /\ Tail(s) \in Seq(V) /\ Len(Tail(s)) = Len(s) - 1 /\ Head(s) = s[1]
      /\ \A i \in 1..(Len(s) - 1) : Tail(s)[i] = s[i + 1]
  BY <1>3
<1>6. /\ v \in Seq(V) /\ Len(v) = Len(s) - 1 + Len(t)
      /\ \A i \in 1..(Len(s) - 1 + Len(t)) :
            v[i] = IF i <= Len(s) - 1 THEN Tail(s)[i] ELSE t[i - (Len(s) - 1)]
  BY <1>3, <1>5, ConcatProperties
<1> HIDE DEF u, v
<1>7. u # <<>> /\ Head(u) = Head(s)
  <2>1. 1 \in 1..(Len(s) + Len(t)) /\ 1 <= Len(s)
    BY <1>4
  <2>2. u[1] = s[1] /\ u # <<>>
    BY <1>4, <2>1
  <2> QED BY <1>4, <1>5, <2>2
<1>8. /\ Tail(u) \in Seq(V) /\ Len(Tail(u)) = Len(u) - 1
      /\ \A i \in 1..(Len(u) - 1) : Tail(u)[i] = u[i + 1]
  BY <1>4, <1>7
<1>9. \A i \in 1..Len(v) : Tail(u)[i] = v[i]
  BY <1>4, <1>5, <1>6, <1>8
<1>10. Tail(u) = v
  BY <1>4, <1>6, <1>8, <1>9, SeqEqual
<1> QED BY <1>7, <1>10 DEF u, v

(* A ramp that starts in OFF starts from the floor, and as long as the     *)
(* floor is not chosen, no ramp has started.                               *)
FromOff(msg) == action_moon \o start_ramping(1) \o <<lookup("map", msg)>>
FloorFirst(s) ==
    \E msg : s \in {FromOff(msg), Tail(FromOff(msg)), Tail(Tail(FromOff(msg)))}

(* The next statement of such a start chooses the floor or leads to it.    *)
LEMMA FloorFirstStep ==
    ASSUME NEW s, FloorFirst(s)
    PROVE  /\ s # <<>> /\ (Head(s) = Op("level_floor") \/ FloorFirst(Tail(s)))
           /\ Head(s) \in {Resume, Stop("strobe"), Op("level_floor")}
<1>1. PICK msg : s \in {FromOff(msg), Tail(FromOff(msg)), Tail(Tail(FromOff(msg)))}
  BY DEF FloorFirst
<1> DEFINE ramp == start_ramping(1)
           m    == <<lookup("map", msg)>>
<1>2. /\ action_moon # <<>> /\ IsSeq(action_moon) /\ Head(action_moon) = Resume
      /\ Head(Tail(action_moon)) = Stop("strobe")
      /\ Tail(action_moon) = <<Stop("strobe"), Op("level_floor"), LedBrightness>>
      /\ Tail(action_moon) # <<>> /\ IsSeq(Tail(action_moon))
      /\ LET u == Tail(Tail(action_moon)) IN u # <<>> /\ IsSeq(u) /\ Head(u) = Op("level_floor")
  BY Short DEF action_moon
<1>3. IsSeq(ramp) /\ IsSeq(m) /\ FromOff(msg) = (action_moon \o ramp) \o m
  BY RampPlain, Short DEF FromOff, Plain
<1> HIDE DEF ramp, m
<1>4. ASSUME NEW u, u # <<>>, IsSeq(u)
       PROVE  LET v == (u \o ramp) \o m
              IN  v # <<>> /\ Head(v) = Head(u) /\ Tail(v) = (Tail(u) \o ramp) \o m
  <2> DEFINE w == u \o ramp
  <2>1. IsSeq(w) /\ w # <<>> /\ Head(w) = Head(u) /\ Tail(w) = Tail(u) \o ramp
    BY <1>3, <1>4, TailJoin, Joins
  <2> HIDE DEF w
  <2>2. w \o m # <<>> /\ Head(w \o m) = Head(w) /\ Tail(w \o m) = Tail(w) \o m
    BY <1>3, <2>1, TailJoin
  <2>3. /\ w \o m # <<>> /\ Head(w \o m) = Head(u)
        /\ Tail(w \o m) = (Tail(u) \o ramp) \o m
    BY <2>1, <2>2, Zenon
  <2> QED BY <2>3 DEF w
<1>5. /\ FromOff(msg) # <<>> /\ Tail(FromOff(msg)) # <<>> /\ Tail(Tail(FromOff(msg))) # <<>>
      /\ Head(FromOff(msg)) = Resume /\ Head(Tail(FromOff(msg))) = Stop("strobe")
      /\ Head(Tail(Tail(FromOff(msg)))) = Op("level_floor")
  BY <1>2, <1>3, <1>4
<1>6. FloorFirst(Tail(FromOff(msg))) /\ FloorFirst(Tail(Tail(FromOff(msg))))
  BY DEF FloorFirst
<1> QED BY <1>1, <1>5, <1>6

(* Outside ON, a ramp is begun from OFF only, from the floor.              *)
LEMMA CallRamps ==
    ASSUME NEW h, h.op \in Calls, h.op # "transition" => current_node \in Nodes,
           h.op = "callback" => h.msg.type \in MessageTypes,
           HasRamp(Body(h)), current_node \notin OnNodes
    PROVE  h.op = "callback" /\ FloorFirst(Body(h))
<1>1. h.op = "callback" /\ h.msg.type \in MessageTypes /\ current_node \in Nodes
  BY CallBegins
<1>2. h.msg.type = "HOLD_START" /\ h.msg.count = 1 /\ current_node \in OffNodes
  BY <1>1, CallbackBegins
<1>3. CallbackFor(h.msg) = "hold_from_off"
  <2>1. CallbackFor(h.msg) = hold_callback(current_node, h.msg.count)
    BY <1>2 DEF CallbackFor
  <2> QED BY <1>2, <2>1 DEF hold_callback, OffNodes, OnNodes, LockoutNodes, NULL
<1>4. /\ CallbackOf(h.msg).ops = action_moon \o start_ramping(1)
      /\ CallbackOf(h.msg).next = NULL
  BY <1>3, CallbackOps DEF CallbackOf
<1>5. Body(h) = FromOff(h.msg)
  BY <1>1, <1>2, <1>4 DEF Body, TryCallback, CallbackOf, FromOff
<1> QED BY <1>1, <1>5 DEF FloorFirst

(* The 3C toggle of the ramp style blinks the LED off and puts back what   *)
(* it read before.                                                         *)
Blinking(b) == {<<Op("toggle_style"), Led(0), Sleep, b>>, <<Led(0), Sleep, b>>, <<Sleep, b>>, <<b>>}
Restoring(s, b) == \E u \in Blinking(b) : \E m : s = u \o <<m>> /\ m.op = "map"

(* A blink after its next statement.                                       *)
LEMMA BlinkingStep ==
    ASSUME NEW b, NEW u \in Blinking(b)
    PROVE  /\ u # <<>> /\ IsSeq(u)
           /\ Ops(u) \subseteq {Op("toggle_style"), Led(0), Sleep, b}
           /\ \/ Head(u) \in {Op("toggle_style"), Led(0), Sleep} /\ Tail(u) \in Blinking(b)
              \/ Head(u) = b /\ Tail(u) = <<>>
<1>1. CASE u = <<b>>
  BY <1>1, Short, OpsShort
<1>2. CASE u = <<Sleep, b>>
  BY <1>2, Short, OpsShort DEF Blinking
<1>3. CASE u = <<Led(0), Sleep, b>>
  BY <1>3, Short, OpsShort DEF Blinking
<1>4. CASE u = <<Op("toggle_style"), Led(0), Sleep, b>>
  BY <1>4, Short, OpsShort DEF Blinking
<1> QED BY <1>1, <1>2, <1>3, <1>4 DEF Blinking

(* The same with the lookup that follows the blink.                        *)
LEMMA RestoringStep ==
    ASSUME NEW s, NEW level, Restoring(s, Led(level))
    PROVE  /\ s # <<>> /\ Targets(s) = {}
           /\ \A o \in Ops(s) : o.op \in {"toggle_style", "led", "sleep", "map"}
           /\ \/ Head(s).op \in {"toggle_style", "led", "sleep"} /\ Restoring(Tail(s), Led(level))
              \/ Head(s) = Led(level) /\ ~HasOp(Tail(s), "led")
<1> DEFINE b == Led(level)
<1>0. b.op = "led" /\ Led(0).op = "led" /\ Op("toggle_style").op = "toggle_style"
      /\ Sleep.op = "sleep"
  BY Fields
<1> HIDE DEF b
<1>1. PICK u \in Blinking(b) : \E m : s = u \o <<m>> /\ m.op = "map"
  BY DEF Restoring, b
<1>2. PICK m : s = u \o <<m>> /\ m.op = "map"
  BY <1>1
<1>3. /\ u # <<>> /\ IsSeq(u) /\ Ops(u) \subseteq {Op("toggle_style"), Led(0), Sleep, b}
      /\ \/ Head(u) \in {Op("toggle_style"), Led(0), Sleep} /\ Tail(u) \in Blinking(b)
         \/ Head(u) = b /\ Tail(u) = <<>>
  BY BlinkingStep
<1> DEFINE t == <<m>>
<1>4. IsSeq(t) /\ Ops(t) = {m} /\ <<>> \o t = t
  BY Short, OpsShort, JoinShort
<1> HIDE DEF t
<1>5. s = u \o t
  BY <1>2 DEF t
<1>6. s # <<>> /\ Head(s) = Head(u) /\ Tail(s) = Tail(u) \o t
  BY <1>3, <1>4, <1>5, TailJoin
<1>7. \A o \in Ops(s) : o.op \in {"toggle_style", "led", "sleep", "map"}
  <2>1. Ops(s) \subseteq {Op("toggle_style"), Led(0), Sleep, b, m}
    BY <1>3, <1>4, <1>5, OpsJoin
  <2> QED BY <1>0, <1>2, <2>1
<1>8. Targets(s) = {}
  BY <1>7 DEF Targets, Leads
<1>9. CASE Head(u) \in {Op("toggle_style"), Led(0), Sleep} /\ Tail(u) \in Blinking(b)
  <2>1. Restoring(Tail(s), b)
    BY <1>2, <1>6, <1>9 DEF Restoring, t
  <2> QED BY <1>0, <1>6, <1>7, <1>8, <1>9, <2>1 DEF b
<1>10. CASE Head(u) = b /\ Tail(u) = <<>>
  <2>1. Head(s) = b /\ Tail(s) = t
    BY <1>4, <1>6, <1>10
  <2>2. ~HasOp(Tail(s), "led")
    BY <1>2, <1>4, <2>1 DEF HasOp
  <2> QED BY <1>6, <1>7, <1>8, <2>1, <2>2 DEF b
<1> QED BY <1>3, <1>9, <1>10

(* Where a call sets the LED to a level it does not choose.                *)
LEMMA CallLeds ==
    ASSUME NEW h, h.op \in Calls, h.op # "transition" => current_node \in Nodes,
           h.op = "callback" => h.msg.type \in MessageTypes, HasOp(Body(h), "led")
    PROVE  \/ h.op = "action" /\ current_node \notin OnNodes \cup RampNodes \cup MenuNodes
           \/ h.op = "callback" /\ current_node \in LockoutNodes
           \/ /\ h.op = "callback" /\ current_node = "adv_on" /\ h.msg.type = "TAP"
              /\ Restoring(Body(h), Led(ui.brightness))
<1>1. PICK o \in Ops(Body(h)) : o.op = "led"
  BY DEF HasOp
<1>2. CASE h.op = "transition"
  BY <1>1, <1>2, CallsOps, Fields
<1>3. CASE h.op = "reset"
  BY <1>1, <1>3, CallsOps, Fields
<1>4. CASE h.op = "callback"
  <2>1. o \in Ops(CallbackOf(h.msg).ops)
    <3>1. \A node : \A p \in OpsThen(node) : p.op # "led"
      BY Fields DEF OpsThen
    <3>2. lookup("map", h.msg).op # "led"
      BY Fields
    <3> QED BY <1>1, <1>4, <3>1, <3>2, CallsOps
  <2>2. \/ current_node \in LockoutNodes
        \/ /\ current_node = "adv_on" /\ h.msg.type = "TAP" /\ CallbackOf(h.msg).next = NULL
           /\ CallbackOf(h.msg).ops = action_toggle_ramp_style
    BY <1>1, <1>4, <2>1, CallbackTable DEF CallbackOf
  <2>3. CASE /\ current_node = "adv_on" /\ h.msg.type = "TAP" /\ CallbackOf(h.msg).next = NULL
             /\ CallbackOf(h.msg).ops = action_toggle_ramp_style
    <3>1. Body(h) = action_toggle_ramp_style \o <<lookup("map", h.msg)>>
      BY <1>4, <2>3 DEF Body, TryCallback, CallbackOf
    <3>2. Restoring(Body(h), Led(ui.brightness))
      <4>1. action_toggle_ramp_style \in Blinking(Led(ui.brightness))
        BY DEF Blinking, action_toggle_ramp_style
      <4>2. lookup("map", h.msg).op = "map"
        BY Fields
      <4> QED BY <3>1, <4>1, <4>2 DEF Restoring
    <3> QED BY <1>4, <2>3, <3>2
  <2> QED BY <1>4, <2>2, <2>3
<1>5. CASE h.op = "action"
  BY <1>1, <1>5, CallsOps, RoutineTable
<1>6. CASE h.op = "map"
  <2>1. \A node : \A p \in OpsThen(node) : p.op # "led"
    BY Fields DEF OpsThen
  <2>2. \A p \in Ops(AnyClick(h.msg).ops) : p.op # "led"
    BY MenuSteps, Fields DEF AnyClick
  <2> QED BY <1>1, <1>6, <2>1, <2>2, CallsOps
<1> QED BY <1>2, <1>3, <1>4, <1>5, <1>6 DEF Calls

(* The light has a level above zero, unless it was never lit since boot:   *)
(* then no ramp runs, and on the way into ON a level is still to be chosen.*)
Lights(s) == HasOp(s, "level_on") \/ Acting(s)

BrightInv ==
    /\ ui.memorized > 0
    /\ ui.brightness = 0 =>
          /\ ~ui.ramp_active /\ timer["ramp"] = "stopped"
          /\ HasRamp(todo) => FloorFirst(todo)
          /\ current_node \in OnNodes => Lights(todo) \/ Lights(isr)

BrightCore == OnRampCore /\ LevelInv /\ BrightInv

(* What BrightCore contains.                                               *)
LEMMA BrightParts ==
    ASSUME BrightCore
    PROVE  /\ OnRampCore /\ LevelCore /\ MenuCore /\ CoreInv /\ NavInv /\ FlagInv
           /\ ~HasRamp(isr)
           /\ ui.brightness \in 0..MaxLevel /\ MaxLevel \in 1..255
BY LevelsAssumption DEF BrightCore, OnRampCore, OnRampInv, LevelCore, MenuCore, QuietCore, CoreInv, LevelInv, Level

(* A statement never makes the brightness zero.                            *)
LEMMA Brightens ==
    ASSUME BrightCore, NEW o, SetWell(o), LevelWell(o), Execute(o)
    PROVE  /\ ui'.memorized > 0
           /\ ui'.brightness \in 0..MaxLevel
           /\ ui'.brightness = 0 => ui.brightness = 0 /\ o.op \notin LevelOps
<1>0. /\ DOMAIN ui = UiFields /\ (o.op = "set" => o.var \in SetFields)
      /\ ui.brightness \in Level /\ ui.memorized \in Level
      /\ ui.floor \in Floors /\ ui.ceiling \in Ceilings
      /\ ui.override \in Floors \cup {0}
  BY DEF BrightCore, OnRampCore, LevelInv, MenuCore, QuietCore, CoreInv, FlagInv, SetWell
<1>1. ui'.brightness \in 0..MaxLevel
  BY BrightParts, LevelExec DEF Level
<1>2. ui'.memorized > 0
  <2>1. ui.memorized > 0 /\ (ui.ramp_active => ui.brightness > 0)
    BY <1>0 DEF BrightCore, BrightInv, Level
  <2> QED BY <1>0, <2>1, UiExec
<1>3. ASSUME o.op \in LevelOps PROVE ui'.brightness # 0
  <2>1. ui.floor # 0 /\ ui.ceiling # 0
    BY <1>0, Apart
  <2>2. 0 \notin OnLevels
    BY <1>0, InputAssumption, LevelsAssumption DEF OnLevels, BrightCore, BrightInv
  <2> QED BY <1>0, <1>3, <2>1, <2>2, UiExec DEF LevelOps
<1>4. o.op \notin LevelOps => ui'.brightness = ui.brightness
  BY <1>0, UiExec
<1> QED BY <1>1, <1>2, <1>3, <1>4

(* Nothing pending chooses no level, and a level is no start of a ramp.    *)
LEMMA LightsEnd == ~Lights(<<>>) /\ \A o : BeginsRamp(o) => o.op \in {"start", "set"}
BY NotActing DEF Lights, HasOp, BeginsRamp, Starts, Writes

(* BrightInv when a message is taken.                                      *)
LEMMA BrightTaken ==
    ASSUME BrightCore, Tap \/ HoldStart \/ HoldRelease \/ Shutdown PROVE BrightInv'
<1>1. /\ todo = <<>> /\ isr = <<>> /\ UNCHANGED <<ui, timer, current_node>>
      /\ ~HasRamp(todo')
  <2>1. ASSUME NEW msg, Ops(todo') = {lookup("reset", msg), lookup("callback", msg)}
        PROVE  ~HasRamp(todo')
    BY <2>1, Fields DEF HasRamp, BeginsRamp, Starts, Writes
  <2>2. ASSUME Ops(todo') = {Emergency, Stop("inactivity"), Op("go_home"), Op("action")}
        PROVE  ~HasRamp(todo')
    BY <2>2, Fields, Flags DEF HasRamp, BeginsRamp, Starts, Writes
  <2> QED BY <2>1, <2>2, BrightParts, Inputs DEF Taken
<1> QED BY <1>1, LightsEnd DEF BrightCore, BrightInv

(* BrightInv after a reset.                                                *)
LEMMA BrightReboot ==
    ASSUME BrightCore, WorkerReboots \/ WorkerCrashes \/ IsrCrashes PROVE BrightInv'
<1>1. PICK flash :
        /\ Reboot(flash)
        /\ DOMAIN flash = {"mode", "memorized", "floor", "ceiling", "style"}
        /\ flash.mode \in Modes
        /\ \/ /\ flash.memorized = DefaultMemory
              /\ flash.floor = DefaultFloor /\ flash.ceiling = DefaultCeiling
           \/ /\ flash.memorized = ui.memorized
              /\ flash.floor = ui.floor /\ flash.ceiling = ui.ceiling
  BY BrightParts, Reboots
<1>2. PICK home \in OffNodes :
        /\ Ops(todo') = {transition_to(home)} /\ ui' = BootUi(flash) /\ current_node' = NULL
        /\ timer' = [t \in Timers |-> "stopped"]
  BY <1>1, Rebooted
<1>3. ui'.memorized = flash.memorized /\ ui'.ramp_active = FALSE
  BY <1>1, <1>2, UiBoot
<1>4. flash.memorized > 0
  BY <1>1, LevelsAssumption DEF BrightCore, BrightInv
<1>5. ~HasRamp(todo')
  BY <1>2, Fields DEF HasRamp, BeginsRamp, Starts, Writes
<1>6. timer'["ramp"] = "stopped" /\ current_node' \notin OnNodes
  BY <1>2 DEF Timers, OnNodes, NULL
<1> QED BY <1>3, <1>4, <1>5, <1>6 DEF BrightInv

(* BrightInv when the worker calls.                                        *)
LEMMA BrightWorkerCalls == ASSUME BrightCore, WorkerCalls PROVE BrightInv'
<1> DEFINE h == Head(todo)
           t == Tail(todo)
<1>0. /\ isr = <<>> /\ isr' = <<>> /\ h.op \in Calls
      /\ UNCHANGED <<current_node, timer, ui>>
      /\ Ops(todo) = {h} \cup Ops(t) /\ Ops(todo') = Ops(Body(h)) \cup Ops(t)
      /\ h.op = "action" => Ops(t) \subseteq {Op("arm")}
      /\ h.op # "action" => ~Acting(todo)
      /\ h.op \in {"callback", "map", "transition"} => t = <<>> /\ Ops(t) = {}
      /\ h.op = "reset" => Ops(t) = {lookup("callback", h.msg)}
      /\ h.op # "transition" => current_node \in Nodes
      /\ h.op = "callback" => h.msg.type \in MessageTypes
  BY BrightParts, WorkerCallsOps
<1>1. todo' = Body(h) \o t
  BY DEF WorkerCalls
<1> HIDE DEF h, t
<1>2. IsSeq(Body(h))
  BY <1>0, Bodies DEF IsBody
<1> SUFFICES ASSUME ui.brightness = 0
             PROVE  /\ HasRamp(todo') => FloorFirst(todo')
                    /\ current_node \in OnNodes => Lights(todo')
  BY <1>0 DEF BrightCore, BrightInv
<1>3. ~HasRamp(t)
  BY <1>0, LightsEnd, Fields DEF HasRamp, Calls
<1>4. current_node \in OnNodes => Lights(todo)
  BY <1>0, LightsEnd DEF BrightCore, BrightInv
<1>5. ASSUME HasRamp(todo') PROVE FloorFirst(todo')
  <2>1. HasRamp(Body(h))
    BY <1>0, <1>3, <1>5 DEF HasRamp
  <2>2. h.op = "callback"
    BY <1>0, <2>1, CallBegins
  <2>3. current_node \notin OnNodes
    BY <1>0, <1>4, <2>2 DEF Lights, HasOp
  <2>4. FloorFirst(Body(h))
    BY <1>0, <2>1, <2>3, CallRamps
  <2> QED BY <1>0, <1>1, <1>2, <2>2, <2>4, JoinShort
<1>6. ASSUME current_node \in OnNodes PROVE Lights(todo')
  <2>1. CASE h.op = "action"
    <3>1. HasOp(Body(h), "level_on")
      BY <1>0, <1>6, <2>1, RoutineTable, CallsOps
    <3> QED BY <1>0, <3>1 DEF Lights, HasOp
  <2>2. CASE h.op # "action"
    BY <1>0, <1>4, <1>6, <2>2 DEF Lights, HasOp, Calls
  <2> QED BY <2>1, <2>2
<1> QED BY <1>5, <1>6

(* BrightInv when the worker executes a statement.                         *)
LEMMA BrightWorkerExecutes == ASSUME BrightCore, WorkerExecutes PROVE BrightInv'
<1> DEFINE h == Head(todo)
<1>0. /\ isr = <<>> /\ isr' = <<>> /\ h \in Ops(todo) /\ Execute(h) /\ todo' = Tail(todo)
      /\ Ops(todo) = {h} \cup Ops(todo') /\ ~Acting(todo)
      /\ Acting(todo') <=> h.op \in {"enter", "go_home"}
      /\ h.op \notin {"enter", "go_home"} => UNCHANGED current_node
  BY BrightParts, WorkerExecutesOps
<1>1. FloorFirst(todo) => /\ h = Op("level_floor") \/ FloorFirst(todo')
                          /\ h \in {Resume, Stop("strobe"), Op("level_floor")}
  BY <1>0, FloorFirstStep
<1> HIDE DEF h
<1>2. SetWell(h) /\ LevelWell(h)
  BY <1>0, BrightParts DEF FlagInv, LevelCore, LevelInv
<1>3. /\ ui'.memorized > 0
      /\ ui'.brightness = 0 => ui.brightness = 0 /\ h.op \notin LevelOps
  BY <1>0, <1>2, Brightens
<1> SUFFICES ASSUME ui.brightness = 0, h.op \notin LevelOps
             PROVE  /\ ~ui'.ramp_active /\ timer'["ramp"] = "stopped"
                    /\ HasRamp(todo') => FloorFirst(todo')
                    /\ current_node' \in OnNodes => Lights(todo')
  BY <1>3 DEF BrightInv
<1>4. HasRamp(todo) => FloorFirst(todo)
  BY DEF BrightCore, BrightInv
<1>5. ~BeginsRamp(h)
  <2>1. BeginsRamp(h) => h \in {Resume, Stop("strobe"), Op("level_floor")}
    BY <1>0, <1>1, <1>4 DEF HasRamp
  <2> QED BY <2>1, Fields, Flags DEF BeginsRamp, Starts, Writes
<1>6. ~ui'.ramp_active /\ timer'["ramp"] = "stopped"
  BY <1>0, <1>2, <1>5, TraceExec, BrightParts DEF BrightCore, BrightInv
<1>7. HasRamp(todo') => FloorFirst(todo')
  <2>1. h # Op("level_floor")
    BY Fields DEF LevelOps
  <2> QED BY <1>0, <1>1, <1>4, <2>1 DEF HasRamp
<1>8. ASSUME current_node' \in OnNodes PROVE Lights(todo')
  <2>1. CASE h.op \in {"enter", "go_home"}
    BY <1>0, <2>1 DEF Lights
  <2>2. CASE h.op \notin {"enter", "go_home"}
    BY <1>0, <1>8, <2>2, LightsEnd DEF BrightCore, BrightInv, Lights, HasOp, LevelOps
  <2> QED BY <2>1, <2>2
<1> QED BY <1>6, <1>7, <1>8

(* BrightInv when the handler calls.                                       *)
LEMMA BrightIsrCalls == ASSUME BrightCore, IsrCalls PROVE BrightInv'
<1> DEFINE h == Head(isr)
           t == Tail(isr)
<1>0. /\ UNCHANGED <<current_node, timer, ui, todo>> /\ h.op \in {"transition", "action"}
      /\ Ops(isr) = {h} \cup Ops(t) /\ Ops(isr') = Ops(Body(h)) \cup Ops(t)
      /\ h.op = "transition" => ~Acting(isr)
      /\ current_node \in Nodes
  BY BrightParts, IsrCallsOps
<1> HIDE DEF h, t
<1>1. ASSUME current_node \in OnNodes, Lights(isr) PROVE Lights(isr')
  <2>1. CASE h.op = "action"
    <3>1. HasOp(Body(h), "level_on")
      BY <1>0, <1>1, <2>1, RoutineTable, CallsOps
    <3> QED BY <1>0, <3>1 DEF Lights, HasOp
  <2>2. CASE h.op = "transition"
    BY <1>0, <1>1, <2>2 DEF Lights, HasOp
  <2> QED BY <1>0, <2>1, <2>2
<1> QED BY <1>0, <1>1 DEF BrightCore, BrightInv

(* BrightInv when the handler executes a statement.                        *)
LEMMA BrightIsrExecutes == ASSUME BrightCore, IsrExecutes PROVE BrightInv'
<1> DEFINE h == Head(isr)
<1>0. /\ h \in Ops(isr) /\ Execute(h) /\ UNCHANGED todo
      /\ Ops(isr) = {h} \cup Ops(isr') /\ ~Acting(isr)
      /\ Acting(isr') <=> h.op = "enter"
      /\ h.op # "enter" => UNCHANGED current_node
  BY BrightParts, IsrExecutesOps
<1> HIDE DEF h
<1>2. SetWell(h) /\ LevelWell(h)
  BY <1>0, BrightParts DEF FlagInv, LevelCore, LevelInv
<1>3. /\ ui'.memorized > 0
      /\ ui'.brightness = 0 => ui.brightness = 0 /\ h.op \notin LevelOps
  BY <1>0, <1>2, Brightens
<1>4. ~BeginsRamp(h)
  BY <1>0, BrightParts DEF HasRamp
<1>5. ASSUME ui.brightness = 0 PROVE ~ui'.ramp_active /\ timer'["ramp"] = "stopped"
  BY <1>0, <1>2, <1>4, <1>5, TraceExec, BrightParts DEF BrightCore, BrightInv
<1>6. ASSUME ui.brightness = 0, h.op \notin LevelOps, current_node' \in OnNodes
      PROVE  Lights(todo') \/ Lights(isr')
  <2>1. CASE h.op = "enter"
    BY <1>0, <2>1 DEF Lights
  <2>2. CASE h.op # "enter"
    BY <1>0, <1>6, <2>2 DEF BrightCore, BrightInv, Lights, HasOp, LevelOps
  <2> QED BY <2>1, <2>2
<1> QED BY <1>0, <1>3, <1>5, <1>6 DEF BrightCore, BrightInv

(* BrightInv when another timer expires.                                   *)
LEMMA BrightTicks == ASSUME BrightCore, Ticks PROVE BrightInv'
<1>0. DOMAIN ui = UiFields /\ ui.strobe_type \in 1..4 /\ ui.ramp_direction \in {-1, 0, 1}
  BY BrightParts DEF FlagInv
<1>1. /\ ui'.memorized = ui.memorized /\ ui'.ramp_active = ui.ramp_active
      /\ UNCHANGED <<todo, isr, timer, current_node>>
  BY <1>0, UiTicks
<1>2. ui'.brightness = 0 => ui.brightness = 0
  <2>1. CASE RampTicks
    <3> DEFINE next == RampTick(ui.brightness, ui.ramp_direction, ui.style, ui.floor, ui.ceiling,
                                Steps)
    <3>0. /\ ui.brightness \in 0..MaxLevel
          /\ ui.floor \in 1..MaxLevel /\ ui.ceiling \in 1..MaxLevel /\ ui.floor < ui.ceiling
      BY BrightParts, Apart DEF LevelCore, LevelInv
    <3>1. ui.brightness > 0 => next.level > 0
      BY <1>0, <3>0, TickLevel
    <3>2. ui'.brightness \in {next.level, ui.brightness}
      BY <2>1 DEF RampTicks
    <3> HIDE DEF next
    <3> QED BY <3>0, <3>1, <3>2
  <2>2. CASE OtherTicks
    BY <2>2 DEF OtherTicks
  <2> QED BY <1>0, <2>1, <2>2, UiTicks
<1> QED BY <1>1, <1>2 DEF BrightCore, BrightInv

(* BrightInv is inductive.                                                 *)
LEMMA BrightStep == ASSUME BrightCore, [Next]_vars PROVE BrightInv'
<1>1. CASE inactivity_timer_handler
  <2>1. /\ isr = <<>> /\ UNCHANGED <<ui, todo, current_node>>
        /\ timer' = [timer EXCEPT !["inactivity"] = "stopped"]
    BY <1>1 DEF inactivity_timer_handler
  <2>2. timer'["ramp"] = timer["ramp"]
    BY <2>1, BrightParts DEF NavInv, IInv, TimerInv, Timers
  <2> QED BY <2>1, <2>2, LightsEnd DEF BrightCore, BrightInv
<1>2. CASE InactivityPasses
  <2>1. /\ UNCHANGED <<ui, todo, isr, current_node>>
        /\ timer' = [timer EXCEPT !["inactivity"] = "due"]
    BY <1>2 DEF InactivityPasses
  <2>2. timer'["ramp"] = timer["ramp"]
    BY <2>1, BrightParts DEF NavInv, IInv, TimerInv, Timers
  <2> QED BY <2>1, <2>2 DEF BrightCore, BrightInv
<1>3. CASE UNCHANGED vars
  BY <1>3 DEF vars, BrightCore, BrightInv
<1> QED BY <1>1, <1>2, <1>3, BrightTaken, BrightReboot, BrightWorkerCalls, BrightWorkerExecutes,
     BrightIsrCalls, BrightIsrExecutes, BrightTicks DEF Next, Ticks

(* Whatever level is still to be chosen is shown next, and the buzz of a   *)
(* menu is stopped on the way out of the menu only.                        *)
OrderInv == LevelShown(todo) /\ LevelShown(isr)

BuzzInv ==
    /\ ~HasStop(isr, "buzz")
    /\ HasStop(todo, "buzz") => Targets(todo) # {}

(* Lookups, transitions and the shutdown set no LED and stop no buzz.      *)
LEMMA RestPlain ==
    ASSUME NEW o, o \in {Op("arm"), Op("action"), Op("go_home"), Emergency, Stop("inactivity")}
                        \/ o.op \in {"reset", "callback", "map", "transition"}
    PROVE  ~Stops(o, "buzz") /\ o.op \notin LevelOps /\ o.op # "led"
BY Fields, Flags DEF Stops, LevelOps

(* OrderInv and BuzzInv are inductive.                                     *)
LEMMA OrderStep ==
    ASSUME NavInv, FlagInv, OrderInv, BuzzInv, [Next]_vars PROVE OrderInv' /\ BuzzInv'
<1>0. IsSeq(todo) /\ IsSeq(isr) /\ IsSeq(<<>>)
  BY Short DEF NavInv, IInv, WorkerInv, HandlerInv
<1>01. /\ LevelShown(<<>>) /\ ~HasStop(<<>>, "buzz")
  BY OpsShort, ShownNone DEF HasStop
<1>1. CASE Tap \/ HoldStart \/ HoldRelease \/ Shutdown
  <2>1. ASSUME NEW msg, Ops(todo') = {lookup("reset", msg), lookup("callback", msg)}
        PROVE  LevelShown(todo') /\ ~HasStop(todo', "buzz")
    <3>1. \A o \in Ops(todo') : ~Stops(o, "buzz") /\ o.op \notin LevelOps
      BY <2>1, RestPlain, Fields
    <3> QED BY <3>1, ShownNone DEF HasStop
  <2>2. ASSUME Ops(todo') = {Emergency, Stop("inactivity"), Op("go_home"), Op("action")}
        PROVE  LevelShown(todo') /\ ~HasStop(todo', "buzz")
    <3>1. \A o \in Ops(todo') : ~Stops(o, "buzz") /\ o.op \notin LevelOps
      BY <2>2, RestPlain
    <3> QED BY <3>1, ShownNone DEF HasStop
  <2> QED BY <1>01, <1>1, <2>1, <2>2, Inputs DEF Taken, OrderInv, BuzzInv
<1>2. CASE WorkerReboots \/ WorkerCrashes \/ IsrCrashes
  <2>1. PICK flash : Reboot(flash) /\ flash.mode \in Modes
    BY <1>2, Reboots
  <2>2. PICK home \in OffNodes : Ops(todo') = {transition_to(home)} /\ isr' = <<>>
    BY <2>1, Rebooted
  <2>3. \A o \in Ops(todo') : ~Stops(o, "buzz") /\ o.op \notin LevelOps
    BY <2>2, RestPlain, Fields
  <2> QED BY <1>01, <2>2, <2>3, ShownNone DEF OrderInv, BuzzInv, HasStop
<1>3. CASE WorkerCalls
  <2> DEFINE h == Head(todo)
             t == Tail(todo)
  <2>1. /\ isr = <<>> /\ isr' = <<>> /\ h.op \in Calls
        /\ Ops(todo') = Ops(Body(h)) \cup Ops(t)
        /\ h.op = "action" => Ops(t) \subseteq {Op("arm")}
        /\ h.op \in {"callback", "map", "transition"} => Ops(t) = {}
        /\ h.op = "reset" => Ops(t) = {lookup("callback", h.msg)}
        /\ h.op # "transition" => current_node \in Nodes
        /\ h.op = "callback" => h.msg.type \in MessageTypes
    BY <1>3, WorkerCallsOps
  <2>2. todo' = Body(h) \o t /\ todo # <<>>
    BY <1>3 DEF WorkerCalls
  <2>3. LevelShown(t) /\ IsSeq(t)
    BY <1>0, <2>2, ShownTail, Tails DEF OrderInv
  <2> HIDE DEF h, t
  <2>4. IsSeq(Body(h)) /\ LevelShown(Body(h))
    BY <2>1, Bodies, CallShown DEF IsBody
  <2>5. LevelShown(todo')
    BY <2>2, <2>3, <2>4, ShownJoin
  <2>6. \A o \in Ops(t) : ~Stops(o, "buzz")
    BY <2>1, RestPlain, Fields DEF Calls
  <2>7. ASSUME HasStop(todo', "buzz") PROVE Targets(todo') # {}
    <3>1. HasStop(Body(h), "buzz")
      BY <2>1, <2>6, <2>7 DEF HasStop
    <3>2. Targets(Body(h)) # {}
      BY <2>1, <3>1, CallBuzz
    <3> QED BY <2>1, <3>2, Joined
  <2> QED BY <1>01, <2>1, <2>5, <2>7 DEF OrderInv, BuzzInv
<1>4. CASE WorkerExecutes
  <2> DEFINE h == Head(todo)
  <2>1. /\ isr = <<>> /\ isr' = <<>> /\ todo' = Tail(todo) /\ Ops(todo) = {h} \cup Ops(todo')
        /\ h.op \in PlainOps \cup {"enter", "go_home", "arm"}
        /\ h.op \in {"enter", "go_home"} => Ops(todo') \subseteq {Op("action"), Op("arm")}
    BY <1>4, WorkerExecutesOps
  <2>2. LevelShown(todo')
    BY <1>0, <1>4, <2>1, ShownTail DEF OrderInv, WorkerExecutes
  <2> HIDE DEF h
  <2>3. ASSUME HasStop(todo', "buzz") PROVE Targets(todo') # {}
    <3>1. h.op # "enter"
      BY <2>1, <2>3, RestPlain DEF HasStop
    <3>2. Targets(todo) = Targets(todo')
      BY <2>1, <3>1, Unrolled DEF Leads, PlainOps
    <3>3. HasStop(todo, "buzz")
      BY <2>1, <2>3 DEF HasStop
    <3> QED BY <3>2, <3>3 DEF BuzzInv
  <2> QED BY <1>01, <2>1, <2>2, <2>3 DEF OrderInv, BuzzInv
<1>5. CASE IsrCalls
  <2> DEFINE h == Head(isr)
             t == Tail(isr)
  <2>1. /\ h.op \in {"transition", "action"} /\ UNCHANGED todo
        /\ Ops(isr') = Ops(Body(h)) \cup Ops(t)
        /\ h.op = "action" => Ops(t) \subseteq {Op("arm")}
        /\ h.op = "transition" => Ops(t) = {}
        /\ current_node \in Nodes
    BY <1>5, IsrCallsOps
  <2>2. isr' = Body(h) \o t /\ isr # <<>>
    BY <1>5 DEF IsrCalls
  <2>3. LevelShown(t) /\ IsSeq(t)
    BY <1>0, <2>2, ShownTail, Tails DEF OrderInv
  <2> HIDE DEF h, t
  <2>4. IsSeq(Body(h)) /\ LevelShown(Body(h))
    BY <2>1, Bodies, CallShown DEF IsBody, Calls
  <2>5. LevelShown(isr')
    BY <2>2, <2>3, <2>4, ShownJoin
  <2>6. \A o \in Ops(t) : ~Stops(o, "buzz")
    BY <2>1, RestPlain
  <2>7. ~HasStop(Body(h), "buzz")
    BY <2>1, CallBuzz DEF Calls
  <2>8. ~HasStop(isr', "buzz")
    BY <2>1, <2>6, <2>7 DEF HasStop
  <2> QED BY <2>1, <2>5, <2>8 DEF OrderInv, BuzzInv
<1>6. CASE IsrExecutes
  <2>1. /\ UNCHANGED todo /\ isr # <<>> /\ isr' = Tail(isr)
        /\ Ops(isr') \subseteq Ops(isr)
    BY <1>6, IsrExecutesOps
  <2>2. LevelShown(isr')
    BY <1>0, <2>1, ShownTail DEF OrderInv
  <2> QED BY <2>1, <2>2 DEF OrderInv, BuzzInv, HasStop
<1>7. CASE inactivity_timer_handler
  <2>1. PICK node \in Nodes : Ops(isr') = {transition_to(node)} /\ UNCHANGED todo
    BY <1>7, HandlerOps
  <2>2. \A o \in Ops(isr') : ~Stops(o, "buzz") /\ o.op \notin LevelOps
    BY <2>1, RestPlain, Fields
  <2> QED BY <2>1, <2>2, ShownNone DEF OrderInv, BuzzInv, HasStop
<1>8. CASE InactivityPasses \/ UNCHANGED vars
  <2>1. UNCHANGED <<todo, isr>>
    BY <1>8 DEF InactivityPasses, vars
  <2> QED BY <2>1 DEF OrderInv, BuzzInv
<1>9. CASE Ticks
  <2>1. UNCHANGED <<todo, isr>>
    BY <1>9, UiTicks DEF FlagInv
  <2> QED BY <2>1 DEF OrderInv, BuzzInv
<1> QED BY <1>1, <1>2, <1>3, <1>4, <1>5, <1>6, <1>7, <1>8, <1>9 DEF Next, Ticks

(* What the 3C toggle is about to put back is still the level of ON: the   *)
(* only handler that can come between leads out of ON, to home.            *)
Leaving(s) ==
    \E node \in OffNodes : s \in {<<transition_to(node)>>, fsm_transition_to(node), Entering(node)}

LedInv ==
    /\ HasOp(isr, "led") => current_node \notin OnNodes
    /\ HasOp(todo, "led") =>
          /\ isr # <<>> \/ timer["inactivity"] # "stopped" => current_node \in OnNodes \cup OffNodes
          /\ Targets(isr) \subseteq OffNodes
          /\ current_node \in OnNodes =>
                /\ ~holding /\ ui.brightness > 0
                /\ Restoring(todo, Led(ui.brightness))
                /\ isr # <<>> => Leaving(isr)

LitCore == BrightCore /\ OrderInv /\ BuzzInv /\ LedInv

(* An inactivity timer that is not started stays stopped.                  *)
LEMMA IdleExec ==
    ASSUME NavInv, NEW o, Execute(o), ~StartsTimer(o), o.op # "arm",
           timer'["inactivity"] # "stopped"
    PROVE  timer["inactivity"] # "stopped"
<1>1. timer \in [Timers -> {"stopped", "running", "due"}]
  BY DEF NavInv, IInv, TimerInv
<1>2. timer' = TimerAfter(o)
  BY DEF Execute
<1> QED BY <1>1, <1>2 DEF TimerAfter, StartsTimer, Timers

(* LedInv when a message is taken.                                         *)
LEMMA LedTaken ==
    ASSUME LitCore, Tap \/ HoldStart \/ HoldRelease \/ Shutdown PROVE LedInv'
<1>1. isr' = <<>> /\ ~HasOp(todo', "led")
  <2>1. ASSUME NEW msg, Ops(todo') = {lookup("reset", msg), lookup("callback", msg)}
        PROVE  ~HasOp(todo', "led")
    BY <2>1, Fields DEF HasOp
  <2>2. ASSUME Ops(todo') = {Emergency, Stop("inactivity"), Op("go_home"), Op("action")}
        PROVE  ~HasOp(todo', "led")
    BY <2>2, Fields, Flags DEF HasOp
  <2> QED BY <2>1, <2>2, BrightParts, Inputs DEF Taken, LitCore
<1> QED BY <1>1, NotActing DEF LedInv, HasOp

(* LedInv after a reset.                                                   *)
LEMMA LedReboot ==
    ASSUME LitCore, WorkerReboots \/ WorkerCrashes \/ IsrCrashes PROVE LedInv'
<1>1. PICK flash : Reboot(flash) /\ flash.mode \in Modes
  BY BrightParts, Reboots DEF LitCore
<1>2. PICK home \in OffNodes : Ops(todo') = {transition_to(home)} /\ isr' = <<>>
  BY <1>1, Rebooted
<1> QED BY <1>2, NotActing, Fields DEF LedInv, HasOp

(* LedInv when the worker calls.                                           *)
LEMMA LedWorkerCalls == ASSUME LitCore, WorkerCalls PROVE LedInv'
<1> DEFINE h == Head(todo)
           t == Tail(todo)
<1>0. /\ isr = <<>> /\ isr' = <<>> /\ h.op \in Calls /\ h \in Ops(todo)
      /\ UNCHANGED <<current_node, home_node, timer, ui, holding>>
      /\ Ops(todo) = {h} \cup Ops(t) /\ Ops(todo') = Ops(Body(h)) \cup Ops(t)
      /\ h.op = "action" => Acting(todo) /\ Ops(t) \subseteq {Op("arm")}
      /\ h.op # "action" => ~Acting(todo)
      /\ h.op \in {"callback", "map", "transition"} => t = <<>> /\ Ops(t) = {}
      /\ h.op = "reset" => Ops(t) = {lookup("callback", h.msg)}
      /\ h.op # "transition" => current_node \in Nodes
      /\ h.op = "callback" => h.msg.type \in MessageTypes
  BY BrightParts, WorkerCallsOps DEF LitCore
<1>1. todo' = Body(h) \o t
  BY DEF WorkerCalls
<1> HIDE DEF h, t
<1>2. ~HasOp(t, "led")
  BY <1>0, Fields DEF HasOp, Calls
<1> SUFFICES ASSUME HasOp(todo', "led")
             PROVE  /\ timer["inactivity"] # "stopped" => current_node \in OnNodes \cup OffNodes
                    /\ current_node \in OnNodes =>
                          ~holding /\ ui.brightness > 0 /\ Restoring(todo', Led(ui.brightness))
  BY <1>0, AtEnd, NotActing DEF LedInv, HasOp
<1>3. HasOp(Body(h), "led")
  BY <1>0, <1>2 DEF HasOp
<1>4. CASE h.op = "action" /\ current_node \notin OnNodes \cup RampNodes \cup MenuNodes
  <2>1. Undisturbed
    BY <1>0, <1>4, BrightParts DEF LitCore, NavInv, ShapeInv
  <2> QED BY <1>4, <2>1 DEF Undisturbed
<1>5. CASE h.op = "callback" /\ current_node \in LockoutNodes
  <2>1. home_node \in OffNodes /\ (timer["inactivity"] # "stopped" => current_node \in MayRun)
    BY BrightParts DEF LitCore, NavInv, NodeInv, IInv, TimerInv
  <2>2. current_node \notin MayRun
    BY <1>5, <2>1 DEF MayRun, TimedNodes, timeout_node, LockoutNodes, OffNodes, NULL
  <2> QED BY <1>5, <2>1, <2>2 DEF LockoutNodes, OnNodes
<1>6. CASE /\ h.op = "callback" /\ current_node = "adv_on" /\ h.msg.type = "TAP"
           /\ Restoring(Body(h), Led(ui.brightness))
  <2>1. todo' = Body(h)
    BY <1>0, <1>1, <1>6, Bodies, JoinShort DEF IsBody
  <2>2. ~holding
    BY <1>0, <1>6 DEF LitCore, BrightCore, OnRampCore, MenuCore, MsgInv, MsgWell, LookupOps
  <2>3. ui.brightness > 0
    <3>1. ~Lights(todo) /\ ~Lights(isr)
      BY <1>0, <1>6, LightsEnd DEF Lights, HasOp
    <3>2. ui.brightness # 0
      BY <1>6, <3>1 DEF LitCore, BrightCore, BrightInv, OnNodes
    <3> QED BY <3>2, BrightParts DEF LitCore
  <2> QED BY <1>6, <2>1, <2>2, <2>3 DEF OnNodes
<1> QED BY <1>0, <1>3, <1>4, <1>5, <1>6, CallLeds

(* LedInv when the worker executes a statement.                            *)
LEMMA LedWorkerExecutes == ASSUME LitCore, WorkerExecutes PROVE LedInv'
<1> DEFINE h == Head(todo)
<1>0. /\ isr = <<>> /\ isr' = <<>> /\ h \in Ops(todo) /\ Execute(h) /\ todo' = Tail(todo)
      /\ Ops(todo) = {h} \cup Ops(todo') /\ UNCHANGED holding
      /\ h.op \in {"enter", "go_home"} => Ops(todo') \subseteq {Op("action"), Op("arm")}
      /\ h.op \notin {"enter", "go_home"} => UNCHANGED current_node
      /\ h.op = "arm" => todo' = <<>>
      /\ StartsTimer(h) => \E m : todo' = <<lookup("callback", m)>>
  BY BrightParts, WorkerExecutesOps DEF LitCore
<1>1. \A level : Restoring(todo, Led(level)) =>
         \/ h.op \in {"toggle_style", "led", "sleep"} /\ Restoring(todo', Led(level))
         \/ ~HasOp(todo', "led")
  BY <1>0, RestoringStep
<1> HIDE DEF h
<1> SUFFICES ASSUME HasOp(todo', "led")
             PROVE  /\ timer'["inactivity"] # "stopped" => current_node' \in OnNodes \cup OffNodes
                    /\ current_node' \in OnNodes =>
                          ~holding' /\ ui'.brightness > 0 /\ Restoring(todo', Led(ui'.brightness))
  BY <1>0, AtEnd, NotActing DEF LedInv, HasOp
<1>2. HasOp(todo, "led")
  BY <1>0 DEF HasOp
<1>3. h.op \notin {"enter", "go_home", "arm"} /\ ~StartsTimer(h)
  <2>1. PICK o \in Ops(todo') : o.op = "led"
    BY DEF HasOp
  <2>2. \A m : o \notin Ops(<<lookup("callback", m)>>)
    BY <2>1, Fields, OpsShort
  <2>3. o \notin {Op("action"), Op("arm")} /\ o \notin Ops(<<>>)
    BY <2>1, Fields, NotActing
  <2>4. ~StartsTimer(h)
    BY <1>0, <2>1, <2>2
  <2> QED BY <1>0, <2>1, <2>3, <2>4
<1>4. timer'["inactivity"] # "stopped" => current_node' \in OnNodes \cup OffNodes
  BY <1>0, <1>2, <1>3, IdleExec, BrightParts DEF LitCore, LedInv
<1>5. ASSUME current_node' \in OnNodes
      PROVE  ~holding' /\ ui'.brightness > 0 /\ Restoring(todo', Led(ui'.brightness))
  <2>1. ~holding /\ ui.brightness > 0 /\ Restoring(todo, Led(ui.brightness))
    BY <1>0, <1>2, <1>3, <1>5 DEF LitCore, LedInv
  <2>2. h.op \in {"toggle_style", "led", "sleep"} /\ Restoring(todo', Led(ui.brightness))
    BY <1>1, <2>1
  <2>3. ui'.brightness = ui.brightness
    BY <1>0, <2>2, BrightParts, UiExec DEF LitCore, FlagInv, LevelOps
  <2> QED BY <1>0, <2>1, <2>2, <2>3
<1> QED BY <1>4, <1>5

(* LedInv when the inactivity handler starts.                              *)
LEMMA LedHandler == ASSUME LitCore, inactivity_timer_handler PROVE LedInv'
<1>1. PICK node \in Nodes :
        /\ node = IF timeout_node(current_node) # NULL THEN timeout_node(current_node) ELSE home_node
        /\ timer["inactivity"] = "due"
        /\ isr' = <<transition_to(node)>> /\ Ops(isr') = {transition_to(node)}
        /\ UNCHANGED <<current_node, ui, todo, holding>>
  BY BrightParts, HandlerOps DEF LitCore
<1>2. ~HasOp(isr', "led") /\ Targets(isr') = {node}
  BY <1>1, Fields DEF HasOp, Targets, Leads
<1>3. ASSUME HasOp(todo, "led")
      PROVE  current_node \in OnNodes \cup OffNodes /\ node \in OffNodes
  <2>1. current_node \in OnNodes \cup OffNodes
    BY <1>1, <1>3 DEF LitCore, LedInv
  <2>2. timeout_node(current_node) = NULL
    BY <2>1 DEF timeout_node, OnNodes, OffNodes, NULL
  <2> QED BY <1>1, <2>1, <2>2, BrightParts DEF LitCore, NavInv, NodeInv
<1>4. node \in OffNodes => Leaving(isr')
  BY <1>1 DEF Leaving
<1> QED BY <1>1, <1>2, <1>3, <1>4 DEF LitCore, LedInv

(* LedInv when the handler calls.                                          *)
LEMMA LedIsrCalls == ASSUME LitCore, IsrCalls PROVE LedInv'
<1> DEFINE h == Head(isr)
           t == Tail(isr)
<1>0. /\ UNCHANGED <<current_node, timer, ui, todo, holding>> /\ h.op \in {"transition", "action"}
      /\ Ops(isr) = {h} \cup Ops(t) /\ Ops(isr') = Ops(Body(h)) \cup Ops(t)
      /\ h.op = "action" => Ops(t) \subseteq {Op("arm")}
      /\ h.op = "transition" => t = <<>> /\ Ops(t) = {}
      /\ current_node \in Nodes /\ isr # <<>>
      /\ h.op = "transition" => h.node \in Nodes
  BY BrightParts, IsrCallsOps DEF LitCore
<1>1. isr' = Body(h) \o t
  BY DEF IsrCalls
<1>2. Leaving(isr) => \E node \in OffNodes : h = transition_to(node)
  BY <1>0, Short, Fields DEF Leaving, fsm_transition_to, Entering
<1> HIDE DEF h, t
<1>3. HasOp(isr', "led") => current_node \notin OnNodes
  <2>1. ~HasOp(t, "led")
    BY <1>0, Fields DEF HasOp
  <2>2. HasOp(Body(h), "led") => current_node \notin OnNodes
    BY <1>0, CallLeds DEF Calls
  <2> QED BY <1>0, <2>1, <2>2 DEF HasOp
<1>4. Targets(isr') \subseteq Targets(isr)
  <2>1. Targets(Body(h)) \subseteq Targets(isr)
    <3>1. h.op = "transition" => Targets(Body(h)) \subseteq {h.node} /\ h.node \in Targets(isr)
      BY <1>0, CallAdds, Unrolled DEF Calls, Leads
    <3>2. h.op = "action" => Targets(Body(h)) = {}
      BY <1>0, CallAdds DEF Calls
    <3> QED BY <1>0, <3>1, <3>2
  <2>2. Targets(t) \subseteq Targets(isr) /\ Targets(isr') = Targets(Body(h)) \cup Targets(t)
    BY <1>0, Joined, Unrolled
  <2> QED BY <2>1, <2>2
<1>5. ASSUME Leaving(isr) PROVE Leaving(isr')
  <2>1. PICK node \in OffNodes : h = transition_to(node)
    BY <1>2, <1>5
  <2>2. isr' = fsm_transition_to(node)
    <3>1. h.op = "transition" /\ h.node = node
      BY <2>1, Fields
    <3>2. Body(h) = fsm_transition_to(node)
      BY <3>1 DEF Body
    <3>3. IsSeq(fsm_transition_to(node)) /\ t = <<>>
      BY <1>0, <3>1, TransitionBody DEF IsBody
    <3> QED BY <1>1, <3>2, <3>3, JoinShort
  <2> QED BY <2>2 DEF Leaving
<1> QED BY <1>0, <1>3, <1>4, <1>5 DEF LitCore, LedInv

(* LedInv when the handler executes a statement.                           *)
LEMMA LedIsrExecutes == ASSUME LitCore, IsrExecutes PROVE LedInv'
<1> DEFINE h == Head(isr)
<1>0. /\ isr # <<>> /\ isr' = Tail(isr) /\ h \in Ops(isr) /\ Execute(h)
      /\ UNCHANGED <<holding, todo>>
      /\ Ops(isr) = {h} \cup Ops(isr')
      /\ h.op \in PlainOps \cup {"enter", "arm"}
      /\ h.op = "enter" => /\ Ops(isr') \subseteq {Op("action"), Op("arm")}
                           /\ current_node' = h.node
      /\ h.op # "enter" => UNCHANGED current_node
  BY BrightParts, IsrExecutesOps DEF LitCore
<1>1. Leaving(isr) => h.op = "enter" \/ (h.op = "stop" /\ Leaving(isr'))
  <2>1. ASSUME NEW node \in OffNodes, isr = <<transition_to(node)>> PROVE FALSE
    BY <1>0, <2>1, Fields DEF PlainOps
  <2>2. ASSUME NEW node \in OffNodes, isr = fsm_transition_to(node)
        PROVE  h.op = "stop" /\ isr' = Entering(node)
    BY <1>0, <2>2, Short, Fields DEF fsm_transition_to, Entering, Enter
  <2>3. ASSUME NEW node \in OffNodes, isr = Entering(node) PROVE h.op = "enter"
    BY <2>3, Short, Fields DEF Entering
  <2> QED BY <2>1, <2>2, <2>3 DEF Leaving
<1> HIDE DEF h
<1>2. HasOp(isr', "led") => current_node' \notin OnNodes
  <2>1. CASE h.op = "enter"
    BY <1>0, <2>1, Fields DEF HasOp
  <2>2. CASE h.op # "enter"
    BY <1>0, <2>2 DEF LitCore, LedInv, HasOp
  <2> QED BY <2>1, <2>2
<1> SUFFICES ASSUME HasOp(todo, "led")
             PROVE  /\ current_node' \in OnNodes \cup OffNodes
                    /\ Targets(isr') \subseteq OffNodes
                    /\ current_node' \in OnNodes =>
                          /\ ~holding /\ ui'.brightness > 0
                          /\ Restoring(todo, Led(ui'.brightness)) /\ Leaving(isr')
  BY <1>0, <1>2 DEF LedInv
<1>3. /\ current_node \in OnNodes \cup OffNodes /\ Targets(isr) \subseteq OffNodes
      /\ current_node \in OnNodes =>
            /\ ~holding /\ ui.brightness > 0
            /\ Restoring(todo, Led(ui.brightness)) /\ Leaving(isr)
  BY <1>0 DEF LitCore, LedInv
<1>4. Targets(isr') \subseteq OffNodes /\ (h.op = "enter" => h.node \in OffNodes)
  BY <1>0, <1>3, Unrolled DEF Leads
<1>5. CASE h.op = "enter"
  BY <1>0, <1>4, <1>5 DEF OnNodes, OffNodes
<1>6. CASE h.op # "enter"
  <2>1. current_node' \in OnNodes =>
           h.op = "stop" /\ Leaving(isr') /\ ui'.brightness = ui.brightness
    <3>1. current_node' \in OnNodes => h.op = "stop" /\ Leaving(isr')
      BY <1>0, <1>1, <1>3, <1>6
    <3>2. h.op = "stop" => ui'.brightness = ui.brightness
      BY <1>0, BrightParts, UiExec DEF LitCore, FlagInv, LevelOps
    <3> QED BY <3>1, <3>2
  <2> QED BY <1>0, <1>3, <1>4, <1>6, <2>1
<1> QED BY <1>5, <1>6

(* A handler on its way out of ON stops no ramp yet.                       *)
LEMMA LeavingStops ==
    ASSUME isr # <<>> => Leaving(isr)
    PROVE  ~HasStop(isr, "ramp") /\ ~Acting(isr)
<1>1. CASE isr = <<>>
  BY <1>1, NotActing DEF HasStop
<1>2. ASSUME NEW node \in OffNodes, isr = <<transition_to(node)>>
      PROVE  ~HasStop(isr, "ramp") /\ ~Acting(isr)
  BY <1>2, OpsShort, Fields DEF HasStop, Stops, Acting
<1>3. ASSUME NEW node \in OffNodes, isr = fsm_transition_to(node)
      PROVE  ~HasStop(isr, "ramp") /\ ~Acting(isr)
  BY <1>3, OpsShort, Fields DEF HasStop, Stops, Acting, fsm_transition_to, Enter
<1>4. ASSUME NEW node \in OffNodes, isr = Entering(node)
      PROVE  ~HasStop(isr, "ramp") /\ ~Acting(isr)
  BY <1>4, OpsShort, Fields DEF HasStop, Stops, Acting, Entering, Enter
<1> QED BY <1>1, <1>2, <1>3, <1>4 DEF Leaving

(* LedInv when another timer expires.                                      *)
LEMMA LedTicks == ASSUME LitCore, Ticks PROVE LedInv'
<1>1. RampTicks \/ OtherTicks
  BY BrightParts, UiTicks DEF LitCore, FlagInv
<1>2. UNCHANGED <<current_node, timer, todo, isr, holding>>
  BY BrightParts, UiTicks DEF LitCore, FlagInv
<1>3. ASSUME HasOp(todo, "led"), current_node \in OnNodes PROVE ui'.brightness = ui.brightness
  <2>1. ~holding /\ Restoring(todo, Led(ui.brightness)) /\ (isr # <<>> => Leaving(isr))
    BY <1>3 DEF LitCore, LedInv
  <2>2. timer["ramp"] = "stopped"
    <3>1. /\ Targets(todo) = {}
          /\ \A o \in Ops(todo) : o.op \in {"toggle_style", "led", "sleep", "map"}
      BY <2>1, RestoringStep
    <3>2. ~HasStop(todo, "ramp") /\ ~HasOp(todo, "go_home") /\ ~Acting(todo)
      <4>1. \A o \in Ops(todo) : o.op \notin {"stop", "go_home", "action"}
        BY <3>1
      <4>2. ~Acting(todo)
        BY <4>1, OpsShort, Fields DEF Acting
      <4> QED BY <4>1, <4>2 DEF HasStop, Stops, HasOp
    <3>3. ~LooksUpHold(todo)
      BY <2>1 DEF LooksUpHold, LitCore, BrightCore, OnRampCore, MenuCore, MsgInv, MsgWell, LookupOps
    <3>4. ~HasStop(isr, "ramp") /\ ~Acting(isr)
      BY <2>1, LeavingStops
    <3> QED BY <1>3, <3>1, <3>2, <3>3, <3>4 DEF RampEnds, LitCore, BrightCore, OnRampCore, OnRampInv
  <2> QED BY <1>1, <2>2 DEF RampTicks, OtherTicks
<1> QED BY <1>2, <1>3 DEF LitCore, LedInv

(* LedInv is inductive.                                                    *)
LEMMA LedStep == ASSUME LitCore, [Next]_vars PROVE LedInv'
<1>1. CASE InactivityPasses
  <2>1. /\ UNCHANGED <<ui, todo, isr, current_node, holding>> /\ timer["inactivity"] = "running"
    BY <1>1 DEF InactivityPasses
  <2> QED BY <2>1 DEF LitCore, LedInv
<1>2. CASE UNCHANGED vars
  BY <1>2 DEF vars, LitCore, LedInv
<1> QED BY <1>1, <1>2, LedTaken, LedReboot, LedWorkerCalls, LedWorkerExecutes, LedHandler,
     LedIsrCalls, LedIsrExecutes, LedTicks DEF Next, Ticks

(* While ON does not show its level, something pending is about to: the    *)
(* routine that enters it, a level to show, the way out of ON, or the end  *)
(* of a blink.                                                             *)
Astray ==
    /\ current_node \in OnNodes /\ timer["buzz"] = "stopped"
    /\ ~(ui.led = ui.brightness /\ ui.brightness > 0)

Showing ==
    \/ Acting(todo) \/ Acting(isr)
    \/ HasOp(todo, "led_brightness") \/ HasOp(isr, "led_brightness")
    \/ Targets(todo) # {} \/ HasOp(todo, "led")

OnInv == Astray => Showing

OnCore == LitCore /\ OnInv

(* What OnCore contains.                                                   *)
LEMMA OnParts ==
    ASSUME OnCore
    PROVE  /\ LitCore /\ BrightCore /\ CoreInv /\ NavInv /\ FlagInv
           /\ IsSeq(todo) /\ IsSeq(isr) /\ LevelShown(todo) /\ LevelShown(isr)
           /\ DOMAIN ui = UiFields /\ ui.brightness \in 0..MaxLevel
BY BrightParts DEF OnCore, LitCore, OrderInv, NavInv, IInv, WorkerInv, HandlerInv, FlagInv

(* A light that was never lit has a level still to choose, hence to show.  *)
LEMMA ChosenIsShown ==
    ASSUME OnCore, current_node \in OnNodes, ui.brightness = 0
    PROVE  \/ Acting(todo) \/ Acting(isr)
           \/ HasOp(todo, "level_on") /\ HasOp(todo, "led_brightness")
           \/ HasOp(isr, "level_on") /\ HasOp(isr, "led_brightness")
<1>1. Lights(todo) \/ Lights(isr)
  BY DEF OnCore, LitCore, BrightCore, BrightInv
<1>2. ASSUME NEW s, IsSeq(s), LevelShown(s), HasOp(s, "level_on")
      PROVE  HasOp(s, "led_brightness")
  BY <1>2, ShownPending DEF LevelOps
<1> QED BY <1>1, <1>2, OnParts DEF Lights

(* A statement that does not touch what ON shows.                          *)
LEMMA AstrayExec ==
    ASSUME OnCore, NEW o, SetWell(o), Execute(o), UNCHANGED current_node,
           o.op \notin LevelOps \cup {"led", "led_brightness"}, ~Stops(o, "buzz"), Astray'
    PROVE  Astray
<1>1. ui'.brightness = ui.brightness /\ ui'.led = ui.led
  BY OnParts, UiExec DEF SetWell
<1>2. timer["buzz"] = "stopped"
  BY OnParts, TimerExec DEF Astray, Timers
<1> QED BY <1>1, <1>2 DEF Astray

(* What still puts back the LED still sets it.                             *)
LEMMA RestoringLed == ASSUME NEW s, NEW level, Restoring(s, Led(level)) PROVE HasOp(s, "led")
<1> DEFINE b == Led(level)
<1>0. b.op = "led"
  BY Fields
<1> HIDE DEF b
<1>1. PICK u \in Blinking(b) : \E m : s = u \o <<m>> /\ m.op = "map"
  BY DEF Restoring, b
<1>2. b \in Ops(u) /\ IsSeq(u)
  BY OpsShort, Short DEF Blinking
<1>3. b \in Ops(s)
  BY <1>1, <1>2, OpsJoin, Short
<1> QED BY <1>0, <1>3 DEF HasOp

(* OnInv when the worker calls.                                            *)
LEMMA OnWorkerCalls == ASSUME OnCore, WorkerCalls PROVE OnInv'
<1> DEFINE h == Head(todo)
           t == Tail(todo)
<1>0. /\ isr = <<>> /\ isr' = <<>> /\ h.op \in Calls
      /\ UNCHANGED <<current_node, timer, ui>>
      /\ Ops(todo) = {h} \cup Ops(t) /\ Ops(todo') = Ops(Body(h)) \cup Ops(t)
      /\ h.op # "action" => ~Acting(todo)
      /\ h.op # "transition" => current_node \in Nodes
      /\ h.op = "callback" => h.msg.type \in MessageTypes
  BY OnParts, WorkerCallsOps
<1> HIDE DEF h, t
<1> SUFFICES ASSUME Astray PROVE Showing'
  BY <1>0 DEF OnInv, Astray
<1>1. Showing
  BY DEF OnCore, OnInv
<1>2. CASE Acting(todo)
  <2>1. HasOp(Body(h), "led_brightness")
    BY <1>0, <1>2, RoutineTable, CallsOps DEF Astray
  <2> QED BY <1>0, <2>1 DEF HasOp, Showing
<1>3. CASE Targets(todo) # {}
  <2>1. h.op = "transition" => Targets(Body(h)) = {h.node}
    BY <1>0, CallBegins
  <2>2. h.op # "transition" => Targets(todo) = Targets(t)
    BY <1>0, Unrolled DEF Leads, Calls
  <2>3. Targets(todo') = Targets(Body(h)) \cup Targets(t)
    BY <1>0, Joined
  <2>4. Targets(todo') # {}
    BY <1>3, <2>1, <2>2, <2>3
  <2> QED BY <2>4 DEF Showing
<1>4. CASE HasOp(todo, "led_brightness") \/ HasOp(todo, "led")
  <2>1. \/ HasOp(todo, "led_brightness") /\ HasOp(todo', "led_brightness")
        \/ HasOp(todo, "led") /\ HasOp(todo', "led")
    BY <1>0, <1>4 DEF HasOp, Calls
  <2> QED BY <2>1 DEF Showing
<1>5. ~Acting(isr) /\ ~HasOp(isr, "led_brightness")
  BY <1>0, NotActing DEF HasOp
<1> QED BY <1>1, <1>2, <1>3, <1>4, <1>5 DEF Showing

(* OnInv when the worker executes a statement.                             *)
LEMMA OnWorkerExecutes == ASSUME OnCore, WorkerExecutes PROVE OnInv'
<1> DEFINE h == Head(todo)
<1>0. /\ isr = <<>> /\ isr' = <<>> /\ h \in Ops(todo) /\ Execute(h) /\ todo' = Tail(todo)
      /\ todo # <<>>
      /\ Ops(todo) = {h} \cup Ops(todo') /\ ~Acting(todo)
      /\ h.op \in PlainOps \cup {"enter", "go_home", "arm"}
      /\ Acting(todo') <=> h.op \in {"enter", "go_home"}
      /\ h.op \notin {"enter", "go_home"} => UNCHANGED current_node
  BY OnParts, WorkerExecutesOps DEF WorkerExecutes
<1>1. /\ LevelShown(todo') /\ IsSeq(todo')
      /\ h.op \in LevelOps => HasOp(todo', "led_brightness")
  BY <1>0, OnParts, ShownTail, Tails
<1>2. \A level : Restoring(todo, Led(level)) =>
         Restoring(todo', Led(level)) \/ h = Led(level)
  BY <1>0, RestoringStep
<1> HIDE DEF h
<1> SUFFICES ASSUME Astray' PROVE Showing'
  BY DEF OnInv
<1>3. SetWell(h)
  BY <1>0, OnParts DEF FlagInv
<1>4. CASE h.op \in {"enter", "go_home"}
  BY <1>0, <1>4 DEF Showing
<1>5. CASE h.op \in LevelOps
  BY <1>1, <1>5 DEF Showing
<1>6. CASE h.op = "led_brightness"
  <2>1. ui'.led = ui.brightness /\ ui'.brightness = ui.brightness /\ UNCHANGED current_node
    BY <1>0, <1>3, <1>6, OnParts, UiExec DEF SetWell, LevelOps
  <2>2. ui.brightness = 0 /\ current_node \in OnNodes
    BY <2>1, OnParts DEF Astray
  <2>3. HasOp(todo, "level_on")
    BY <1>0, <2>2, ChosenIsShown, NotActing DEF HasOp
  <2>4. HasOp(todo', "level_on")
    BY <1>0, <1>6, <2>3 DEF HasOp
  <2>5. HasOp(todo', "led_brightness")
    BY <1>1, <2>4, ShownPending DEF LevelOps
  <2> QED BY <2>5 DEF Showing
<1>7. CASE h.op = "led"
  <2>1. UNCHANGED current_node /\ ui'.led = h.level /\ ui'.brightness = ui.brightness
    BY <1>0, <1>3, <1>7, OnParts, UiExec DEF SetWell, LevelOps
  <2>2. ui.brightness > 0 /\ Restoring(todo, Led(ui.brightness))
    BY <1>0, <1>7, <2>1 DEF OnCore, LitCore, LedInv, HasOp, Astray
  <2>3. h # Led(ui.brightness)
    BY <2>1, <2>2, Fields DEF Astray
  <2>4. Restoring(todo', Led(ui.brightness))
    BY <1>2, <2>2, <2>3
  <2>5. HasOp(todo', "led")
    BY <2>4, RestoringLed
  <2> QED BY <2>5 DEF Showing
<1>8. CASE Stops(h, "buzz")
  <2>1. Targets(todo) # {}
    BY <1>0, <1>8 DEF OnCore, LitCore, BuzzInv, HasStop
  <2>2. ~Leads(h)
    BY <1>8 DEF Leads, Stops
  <2>3. Targets(todo) = Targets(todo')
    BY <1>0, <2>2, Unrolled
  <2> QED BY <2>1, <2>3 DEF Showing
<1>9. CASE h.op \notin LevelOps \cup {"led", "led_brightness", "enter", "go_home"} /\ ~Stops(h, "buzz")
  <2>1. Astray
    BY <1>0, <1>3, <1>9, AstrayExec
  <2>2. Showing
    BY <2>1 DEF OnCore, OnInv
  <2>3. ~Acting(todo) /\ ~Acting(isr) /\ ~HasOp(isr, "led_brightness")
    BY <1>0, NotActing DEF HasOp
  <2>4. Targets(todo) = Targets(todo')
    BY <1>0, <1>9, Unrolled DEF Leads, PlainOps
  <2>5. /\ HasOp(todo, "led_brightness") => HasOp(todo', "led_brightness")
        /\ HasOp(todo, "led") => HasOp(todo', "led")
    BY <1>0, <1>9 DEF HasOp
  <2> QED BY <2>2, <2>3, <2>4, <2>5 DEF Showing
<1> QED BY <1>4, <1>5, <1>6, <1>7, <1>8, <1>9

(* OnInv when the handler calls.                                           *)
LEMMA OnIsrCalls == ASSUME OnCore, IsrCalls PROVE OnInv'
<1> DEFINE h == Head(isr)
           t == Tail(isr)
<1>0. /\ UNCHANGED <<current_node, timer, ui, todo>> /\ h.op \in {"transition", "action"}
      /\ Ops(isr) = {h} \cup Ops(t) /\ Ops(isr') = Ops(Body(h)) \cup Ops(t)
      /\ h.op = "transition" => ~Acting(isr)
      /\ current_node \in Nodes
  BY OnParts, IsrCallsOps
<1> HIDE DEF h, t
<1> SUFFICES ASSUME Astray PROVE Showing'
  BY <1>0 DEF OnInv, Astray
<1>1. Showing
  BY DEF OnCore, OnInv
<1>2. CASE Acting(isr)
  <2>1. HasOp(Body(h), "led_brightness")
    BY <1>0, <1>2, RoutineTable, CallsOps DEF Astray
  <2> QED BY <1>0, <2>1 DEF HasOp, Showing
<1>3. CASE HasOp(isr, "led_brightness")
  BY <1>0, <1>3 DEF HasOp, Showing
<1> QED BY <1>0, <1>1, <1>2, <1>3 DEF Showing

(* OnInv when the handler executes a statement.                            *)
LEMMA OnIsrExecutes == ASSUME OnCore, IsrExecutes PROVE OnInv'
<1> DEFINE h == Head(isr)
<1>0. /\ isr # <<>> /\ isr' = Tail(isr) /\ h \in Ops(isr) /\ Execute(h) /\ UNCHANGED todo
      /\ Ops(isr) = {h} \cup Ops(isr') /\ ~Acting(isr) /\ ~Acting(todo)
      /\ h.op \in PlainOps \cup {"enter", "arm"}
      /\ Acting(isr') <=> h.op = "enter"
      /\ h.op # "enter" => UNCHANGED current_node
  BY OnParts, IsrExecutesOps
<1>1. /\ LevelShown(isr') /\ IsSeq(isr')
      /\ h.op \in LevelOps => HasOp(isr', "led_brightness")
  BY <1>0, OnParts, ShownTail, Tails
<1> HIDE DEF h
<1> SUFFICES ASSUME Astray' PROVE Showing'
  BY DEF OnInv
<1>3. SetWell(h)
  BY <1>0, OnParts DEF FlagInv
<1>4. CASE h.op = "enter"
  BY <1>0, <1>4 DEF Showing
<1>5. CASE h.op \in LevelOps
  BY <1>1, <1>5 DEF Showing
<1>6. CASE h.op = "led_brightness"
  <2>1. ui'.led = ui.brightness /\ ui'.brightness = ui.brightness /\ UNCHANGED current_node
    BY <1>0, <1>3, <1>6, OnParts, UiExec DEF SetWell, LevelOps
  <2>2. ui.brightness = 0 /\ current_node \in OnNodes
    BY <2>1, OnParts DEF Astray
  <2>3. \/ HasOp(todo, "led_brightness")
        \/ HasOp(isr, "level_on")
    BY <1>0, <2>2, ChosenIsShown
  <2>4. HasOp(isr, "level_on") => HasOp(isr', "level_on")
    BY <1>0, <1>6 DEF HasOp
  <2>5. HasOp(isr', "level_on") => HasOp(isr', "led_brightness")
    BY <1>1, ShownPending DEF LevelOps
  <2> QED BY <1>0, <2>3, <2>4, <2>5 DEF Showing
<1>7. h.op # "led"
  <2>1. CASE h.op = "led"
    <3>1. current_node \notin OnNodes /\ UNCHANGED current_node
      BY <1>0, <2>1 DEF OnCore, LitCore, LedInv, HasOp
    <3> QED BY <3>1 DEF Astray
  <2> QED BY <2>1
<1>8. ~Stops(h, "buzz")
  BY <1>0 DEF OnCore, LitCore, BuzzInv, HasStop
<1>9. CASE h.op \notin LevelOps \cup {"led", "led_brightness", "enter"}
  <2>1. Astray
    BY <1>0, <1>3, <1>8, <1>9, AstrayExec
  <2>2. Showing
    BY <2>1 DEF OnCore, OnInv
  <2>3. HasOp(isr, "led_brightness") => HasOp(isr', "led_brightness")
    BY <1>0, <1>9 DEF HasOp
  <2> QED BY <1>0, <2>2, <2>3 DEF Showing
<1> QED BY <1>4, <1>5, <1>6, <1>7, <1>9

(* OnInv when another timer expires.                                       *)
LEMMA OnTicks == ASSUME OnCore, BrightInv', Ticks PROVE OnInv'
<1>0. ui.strobe_type \in 1..4
  BY OnParts DEF FlagInv
<1>1. /\ RampTicks \/ OtherTicks
      /\ UNCHANGED <<current_node, timer, todo, isr>>
  BY <1>0, OnParts, UiTicks
<1>2. Showing' <=> Showing
  BY <1>1 DEF Showing
<1> SUFFICES ASSUME Astray' PROVE Showing
  BY <1>2 DEF OnInv
<1>3. ASSUME ui'.brightness = ui.brightness, ui'.led = ui.led PROVE Showing
  BY <1>1, <1>3 DEF OnCore, OnInv, Astray
<1>4. CASE RampTicks
  <2>1. ui'.led = ui'.brightness \/ (ui'.brightness = ui.brightness /\ ui'.led = ui.led)
    BY <1>4 DEF RampTicks
  <2>2. ui'.brightness # 0
    BY <1>1, <1>4 DEF RampTicks, BrightInv
  <2>3. ui'.brightness \in 0..MaxLevel
    <3>1. LevelCore /\ [Next]_vars
      BY OnParts, BrightParts DEF Ticks, Next
    <3>2. LevelInv'
      BY <3>1, LevelStep
    <3> QED BY <3>2 DEF LevelInv, Level
  <2> QED BY <1>3, <2>1, <2>2, <2>3, LevelsAssumption DEF Astray
<1>5. CASE OtherTicks
  <2>1. timer["strobe"] = "stopped"
    BY <1>1 DEF Astray, OnCore, LitCore, BrightCore, OnRampCore, MenuCore, QuietCore, QuietInv, StrobeInv,
                OnNodes, OffNodes
  <2>2. ui'.led = ui.brightness /\ ui'.brightness = ui.brightness
    BY <1>1, <1>5, <2>1 DEF OtherTicks, Astray
  <2>3. ui.brightness = 0 /\ current_node \in OnNodes
    BY <1>1, <2>2, OnParts DEF Astray
  <2> QED BY <2>3, ChosenIsShown DEF Showing
<1> QED BY <1>1, <1>4, <1>5

(* OnInv is inductive.                                                     *)
LEMMA OnStep == ASSUME OnCore, BrightInv', [Next]_vars PROVE OnInv'
<1>1. CASE Tap \/ HoldStart \/ HoldRelease \/ Shutdown
  <2>1. /\ todo = <<>> /\ isr = <<>> /\ UNCHANGED <<current_node, timer, ui>>
    BY <1>1, OnParts, Inputs DEF Taken
  <2>2. ~Showing
    BY <2>1, NotActing, AtEnd DEF Showing, HasOp
  <2> QED BY <2>1, <2>2 DEF OnCore, OnInv, Astray
<1>2. CASE WorkerReboots \/ WorkerCrashes \/ IsrCrashes
  <2>1. current_node' = NULL
    BY <1>2, OnParts, Reboots DEF Reboot
  <2> QED BY <2>1 DEF OnInv, Astray, OnNodes, NULL
<1>3. CASE inactivity_timer_handler
  <2>1. /\ isr = <<>> /\ UNCHANGED <<current_node, ui, todo>> /\ timer'["buzz"] = timer["buzz"]
    BY <1>3, OnParts DEF inactivity_timer_handler, NavInv, IInv, TimerInv, Timers
  <2>2. ~Acting(isr) /\ ~HasOp(isr, "led_brightness")
    BY <2>1, NotActing DEF HasOp
  <2> QED BY <2>1, <2>2 DEF OnCore, OnInv, Astray, Showing
<1>4. CASE InactivityPasses
  <2>1. /\ UNCHANGED <<current_node, ui, todo, isr>> /\ timer'["buzz"] = timer["buzz"]
    BY <1>4, OnParts DEF InactivityPasses, NavInv, IInv, TimerInv, Timers
  <2> QED BY <2>1 DEF OnCore, OnInv, Astray, Showing
<1>5. CASE UNCHANGED vars
  BY <1>5 DEF vars, OnCore, OnInv, Astray, Showing
<1> QED BY <1>1, <1>2, <1>3, <1>4, <1>5, OnWorkerCalls, OnWorkerExecutes, OnIsrCalls, OnIsrExecutes,
     OnTicks DEF Next, Ticks

(* OnCore always holds.                                                    *)
LEMMA OnInvariance == Spec => []OnCore
<1> DEFINE Rest == LevelInv /\ BrightInv /\ OrderInv /\ BuzzInv /\ LedInv /\ OnInv
<1>1. Init => BrightInv /\ OrderInv /\ BuzzInv /\ LedInv /\ OnInv
  <2> SUFFICES ASSUME Init PROVE BrightInv /\ OrderInv /\ BuzzInv /\ LedInv /\ OnInv
    OBVIOUS
  <2>1. PICK mode \in StartModes :
        /\ current_node = NULL /\ todo = <<transition_to(home_node)>> /\ isr = <<>>
        /\ timer["ramp"] = "stopped" /\ ui = BootUi(Defaults(mode))
    BY DEF Init, Timers
  <2>2. ui.ramp_active = FALSE /\ ui.memorized = DefaultMemory
    BY <2>1 DEF BootUi, Defaults
  <2>3. ui.memorized > 0
    BY <2>2, LevelsAssumption
  <2>4. \A o \in Ops(todo) \cup Ops(isr) :
           /\ ~BeginsRamp(o) /\ ~Stops(o, "buzz") /\ o.op \notin LevelOps /\ o.op # "led"
    BY <2>1, OpsShort, Fields DEF BeginsRamp, Starts, Writes, Stops, LevelOps
  <2>5. current_node \notin OnNodes
    BY <2>1 DEF OnNodes, NULL
  <2>6. BrightInv
    BY <2>1, <2>2, <2>3, <2>4, <2>5 DEF BrightInv, HasRamp
  <2>7. OrderInv /\ BuzzInv /\ LedInv /\ OnInv
    BY <2>4, <2>5, ShownNone DEF OrderInv, BuzzInv, HasStop, LedInv, HasOp, OnInv, Astray
  <2> QED BY <2>6, <2>7
<1>2. OnRampCore /\ LevelCore /\ Rest /\ [Next]_vars => BrightInv' /\ OrderInv' /\ BuzzInv' /\ LedInv' /\ OnInv'
  <2> SUFFICES ASSUME OnRampCore, LevelCore, Rest, [Next]_vars
               PROVE  BrightInv' /\ OrderInv' /\ BuzzInv' /\ LedInv' /\ OnInv'
    OBVIOUS
  <2>1. BrightCore /\ LitCore /\ OnCore
    BY DEF BrightCore, LitCore, OnCore
  <2>2. BrightInv'
    BY <2>1, BrightStep
  <2>3. OrderInv' /\ BuzzInv'
    BY <2>1, OnParts, OrderStep
  <2>4. LedInv'
    BY <2>1, LedStep
  <2>5. OnInv'
    BY <2>1, <2>2, OnStep
  <2> QED BY <2>2, <2>3, <2>4, <2>5
<1>3. LevelCore => LevelInv
  BY DEF LevelCore
<1>4. OnRampCore /\ Rest => OnCore
  BY DEF BrightCore, LitCore, OnCore
<1> QED BY <1>1, <1>2, <1>3, <1>4, OnRampInvariance, LevelInvariance, PTL DEF Spec

(* ON shows the level the light has chosen, and that level is not zero,    *)
(* whichever statement of the worker the handlers came in after: at rest,  *)
(* the LED is at current_brightness unless the buzz of a menu that timed   *)
(* out still runs.                                                         *)
THEOREM OnCorrect == Spec => []OnShowsItsLevel
<1>1. OnCore => OnShowsItsLevel
  <2> SUFFICES ASSUME OnCore, AtRest PROVE Astray => FALSE
    BY DEF OnShowsItsLevel, Astray
  <2>1. ~Showing
    BY NotActing, AtEnd DEF AtRest, Showing, HasOp
  <2> QED BY <2>1 DEF OnCore, OnInv
<1> QED BY <1>1, OnInvariance, PTL

=============================================================================
