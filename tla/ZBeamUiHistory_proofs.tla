------------------------- MODULE ZBeamUiHistory_proofs -------------------------
(***************************************************************************)
(* Theorems about ZBeamUiHistory, for every range of levels, every set of  *)
(* click counts and every memory mode: how a ramp ends, and what it leaves *)
(* behind.                                                                 *)
(*                                                                         *)
(* A ramp's timer and its flag are each on their way to an end (RampInv)   *)
(* as long as no handler comes in under the lookup of a hold.  When one    *)
(* does the light is torn, and nothing is claimed until it has settled;    *)
(* a settled light has no trace of a ramp left, so that the invariant      *)
(* holds again of whatever the user does next.                             *)
(*                                                                         *)
(* The level a ramp is released at is followed from the hold to the        *)
(* statement of action_on that chooses the level (LockInv): between the    *)
(* save of the memory and that choice, memory and brightness are equal.    *)
(***************************************************************************)
EXTENDS ZBeamUiHistory, ZBeamUi_proofs

-----------------------------------------------------------------------------
(* The history decides nothing: what ZBeamUi keeps is kept.                *)
LEMMA HistoryStep ==
    ASSUME [HNext]_hvars
    PROVE  /\ [Next]_vars
           /\ Records \/ UNCHANGED hvars
BY DEF HNext, Next, hvars

(* Every behaviour with the history is one of ZBeamUi.                     *)
LEMMA HistoryKeeps == HSpec => Spec
<1>1. HInit => Init
  BY DEF HInit
<1>2. [HNext]_hvars => [Next]_vars
  BY HistoryStep
<1> QED BY <1>1, <1>2, PTL DEF HSpec, Spec

-----------------------------------------------------------------------------
(* A ramp is always on its way to an end.                                  *)

(* Until a handler comes in under a hold: the worker is alone with it.     *)
NoTear == holding /\ todo # <<>> => isr = <<>>

(* A hold that is still to be looked up in the map, and leads to a ramp.   *)
MapsToRamp(msg) ==
    /\ msg.type = "HOLD_START"
    /\ \/ msg.count = 1 /\ current_node \in OffNodes \cup OnNodes
       \/ msg.count = 2 /\ current_node \in OnNodes

ToRamp == holding /\ \E o \in Ops(todo) : o.op = "map" /\ MapsToRamp(o.msg)

(* A trace is about to be removed, or will be when the button is released: *)
(* the ramp has been or will be entered, or the light goes home.           *)
Finishing(trace) ==
    /\ holding \/ current_node \in RampNodes
    /\ \/ Finished(todo, trace) \/ Finished(isr, trace)
       \/ (Acting(todo) \/ Acting(isr)) /\ current_node \in Stopping

Entered == current_node \in RampNodes /\ Ops(todo) \subseteq {Op("action"), Op("arm")}

Held == holding /\ (ToRamp \/ Targets(todo) \cap RampNodes # {} \/ HasOp(todo, "go_home") \/ Entered)

Released ==
    /\ current_node \in RampNodes
    /\ \E o \in Ops(todo) : o.op = "callback" /\ o.msg.type = "HOLD_RELEASE"

OnItsWay(trace) == Finishing(trace) \/ Held \/ Released

RampInv ==
    /\ timer["ramp"] # "stopped" => OnItsWay("timer")
    /\ ui.ramp_active => OnItsWay("flag")
    /\ HasRamp(todo) => ToRamp
    /\ ~HasRamp(isr)
    /\ current_node \in RampNodes => Targets(todo) \cap RampNodes = {}

RampCore == MenuCore /\ NoTear /\ RampInv

(* A call keeps what ends a trace.                                         *)
LEMMA EndingCalls ==
    ASSUME MenuCore, WorkerCalls, NEW trace \in Traces, OnItsWay(trace)
    PROVE  OnItsWay(trace)'
<1> DEFINE h == Head(todo)
           t == Tail(todo)
           b == Body(h)
<1>1. /\ isr = <<>> /\ isr' = <<>> /\ h.op \in Calls
      /\ UNCHANGED <<current_node, timer, holding>>
      /\ Ops(todo) = {h} \cup Ops(t) /\ Ops(todo') = Ops(b) \cup Ops(t)
      /\ h.op = "action" => Ops(t) \subseteq {Op("arm")}
      /\ h.op # "action" => ~Acting(todo)
      /\ h.op # "transition" => current_node \in Nodes
      /\ h.op = "callback" => h.msg.type \in MessageTypes
  BY WorkerCallsOps DEF MenuCore, QuietCore, CoreInv
<1> HIDE DEF h, t, b
<1>2. /\ h.op = "action" /\ current_node \in Stopping => Finished(b, trace)
      /\ h.op = "action" /\ current_node \in RampNodes => Ops(b) = {}
      /\ h.op = "transition" => Targets(b) = {h.node}
  BY <1>1, CallBegins, TraceStops DEF b
<1>3. ~Finishes(h, trace)
  BY <1>1 DEF Finishes, Stops, Calls
<1>4. /\ Finished(todo', trace) <=> Finished(b, trace) \/ Finished(t, trace)
      /\ Finished(todo, trace) => Finished(t, trace)
      /\ HasOp(todo, "go_home") => HasOp(t, "go_home")
      /\ HasOp(t, "go_home") => HasOp(todo', "go_home")
      /\ Targets(todo') = Targets(b) \cup Targets(t)
      /\ ~Leads(h) => Targets(todo) = Targets(t)
  <2>1. Finished(todo', trace) <=> Finished(b, trace) \/ Finished(t, trace)
    BY <1>1, FinishedJoin
  <2>2. HasOp(t, "go_home") => HasOp(todo', "go_home")
    BY <1>1 DEF HasOp
  <2>3. h.op # "go_home"
    BY <1>1 DEF Calls
  <2> QED BY <1>1, <1>3, <2>1, <2>2, <2>3, FinishedRest, Joined, Unrolled
<1>5. ~Finished(isr, trace) /\ ~Acting(isr)
  BY <1>1, NotActing DEF Finished
<1>6. CASE Finishing(trace)
  BY <1>1, <1>2, <1>4, <1>5, <1>6 DEF Finishing, OnItsWay
<1>7. CASE Held
  <2>1. CASE ToRamp
    <3>1. PICK o \in Ops(todo) : o.op = "map" /\ MapsToRamp(o.msg)
      BY <2>1 DEF ToRamp
    <3>2. CASE o \in Ops(t)
      <4>1. ToRamp'
        BY <1>1, <2>1, <3>1, <3>2 DEF ToRamp, MapsToRamp
      <4> QED BY <1>1, <1>7, <4>1 DEF Held, OnItsWay
    <3>3. CASE o = h
      <4>1. MapFor(h.msg) \in RampNodes
        BY <1>1, <3>1, <3>3, MapTable DEF MapsToRamp
      <4>2. MapFor(h.msg) \in Targets(b)
        BY <1>1, <3>1, <3>3, <4>1, MapBegins DEF b, RampNodes, NULL
      <4> QED BY <1>1, <1>4, <1>7, <4>1, <4>2 DEF Held, OnItsWay
    <3> QED BY <1>1, <3>1, <3>2, <3>3
  <2>2. CASE Targets(todo) \cap RampNodes # {}
    <3>1. Targets(todo) \subseteq Targets(todo')
      <4>1. CASE h.op = "transition"
        BY <1>1, <1>2, <1>4, <4>1 DEF Targets
      <4>2. CASE h.op # "transition"
        BY <1>1, <1>4, <4>2 DEF Leads, Calls
      <4> QED BY <4>1, <4>2
    <3> QED BY <1>1, <1>7, <2>2, <3>1 DEF Held, OnItsWay
  <2>3. CASE HasOp(todo, "go_home")
    BY <1>1, <1>4, <1>7, <2>3 DEF Held, OnItsWay
  <2>4. CASE Entered
    <3>1. h.op = "action"
      BY <1>1, <2>4, Fields DEF Entered, Calls
    <3> QED BY <1>1, <1>2, <1>7, <2>4, <3>1 DEF Held, Entered, OnItsWay
  <2> QED BY <1>7, <2>1, <2>2, <2>3, <2>4 DEF Held
<1>8. CASE Released
  <2>1. PICK o \in Ops(todo) : o.op = "callback" /\ o.msg.type = "HOLD_RELEASE"
    BY <1>8 DEF Released
  <2>2. CASE o \in Ops(t)
    BY <1>1, <1>8, <2>1, <2>2 DEF Released, OnItsWay
  <2>3. CASE o = h
    <3>1. Finished(b, trace)
      BY <1>1, <1>8, <2>1, <2>3, CallbackBegins, TraceStops DEF Released, b
    <3> QED BY <1>1, <1>4, <1>8, <3>1 DEF Released, Finishing, OnItsWay
  <2> QED BY <1>1, <2>1, <2>2, <2>3
<1> QED BY <1>6, <1>7, <1>8 DEF OnItsWay

(* A ramp about to be started is in the map still to be looked up.         *)
LEMMA ToRampLeft ==
    ASSUME NavInv, WorkerExecutes, ToRamp
    PROVE  ToRamp' /\ Held' /\ Head(todo).op \notin {"enter", "go_home"}
<1> DEFINE h == Head(todo)
<1>1. /\ UNCHANGED holding
      /\ Ops(todo) = {h} \cup Ops(todo')
      /\ h.op \in PlainOps \cup {"enter", "go_home", "arm"}
      /\ h.op \in {"enter", "go_home"} => Ops(todo') \subseteq {Op("action"), Op("arm")}
      /\ h.op \notin {"enter", "go_home"} => UNCHANGED current_node
  BY WorkerExecutesOps
<1> HIDE DEF h
<1>2. PICK o \in Ops(todo) : o.op = "map" /\ MapsToRamp(o.msg)
  BY DEF ToRamp
<1>3. o \in Ops(todo')
  BY <1>1, <1>2 DEF PlainOps
<1>4. h.op \notin {"enter", "go_home"}
  BY <1>1, <1>2, <1>3, Fields
<1>5. ToRamp'
  BY <1>1, <1>2, <1>3, <1>4 DEF ToRamp, MapsToRamp
<1> QED BY <1>4, <1>5 DEF Held, ToRamp, h

(* A statement of the worker keeps it or ends the trace.                   *)
LEMMA EndingExecutes ==
    ASSUME MenuCore, WorkerExecutes, NEW trace \in Traces, OnItsWay(trace),
           ~Finishes(Head(todo), trace)
    PROVE  OnItsWay(trace)'
<1> DEFINE h == Head(todo)
<1>1. /\ isr = <<>> /\ isr' = <<>> /\ UNCHANGED holding
      /\ Ops(todo) = {h} \cup Ops(todo') /\ ~Acting(todo)
      /\ h.op \in PlainOps \cup {"enter", "go_home", "arm"}
      /\ Acting(todo') <=> h.op \in {"enter", "go_home"}
      /\ h.op \in {"enter", "go_home"} => Ops(todo') \subseteq {Op("action"), Op("arm")}
      /\ h.op = "enter" => current_node' = h.node
      /\ h.op = "go_home" => current_node' = home_node
      /\ h.op \notin {"enter", "go_home"} => UNCHANGED current_node
  BY WorkerExecutesOps DEF MenuCore, QuietCore, CoreInv
<1>2. NavInv /\ home_node \in OffNodes
  BY DEF MenuCore, QuietCore, CoreInv, NavInv, NodeInv
<1> HIDE DEF h
<1>3. /\ Finished(todo, trace) => Finished(todo', trace)
      /\ HasOp(todo, "go_home") => h.op = "go_home" \/ HasOp(todo', "go_home")
      /\ Targets(todo) \subseteq Targets(todo') \cup (IF h.op = "enter" THEN {h.node} ELSE {})
  <2>1. Targets(todo) \subseteq Targets(todo') \cup (IF Leads(h) THEN {h.node} ELSE {})
    BY <1>1 DEF Targets
  <2>2. ~Finishes(h, trace)
    BY DEF h
  <2> QED BY <1>1, <2>1, <2>2, FinishedRest DEF Leads, PlainOps
<1>4. h.op \in {"enter", "go_home"} =>
        /\ ~Finished(todo', trace) /\ ~HasOp(todo', "go_home") /\ Targets(todo') = {}
        /\ \A o \in Ops(todo') : o.op # "callback"
  <2> SUFFICES ASSUME h.op \in {"enter", "go_home"}
               PROVE  /\ ~Finished(todo', trace) /\ ~HasOp(todo', "go_home") /\ Targets(todo') = {}
                      /\ \A o \in Ops(todo') : o.op # "callback"
    OBVIOUS
  <2>1. \A o \in Ops(todo') : o.op \in {"action", "arm"}
    BY <1>1, Fields
  <2> QED BY <2>1 DEF Finished, Finishes, Stops, HasOp, Targets, Leads
<1>5. ~Finished(isr, trace) /\ ~Acting(isr)
  BY <1>1, NotActing DEF Finished
<1>6. CASE Finishing(trace)
  BY <1>1, <1>3, <1>4, <1>5, <1>6 DEF Finishing, OnItsWay
<1>7. CASE Held
  <2>1. CASE ToRamp
    BY <1>2, <2>1, ToRampLeft DEF OnItsWay
  <2>2. CASE Targets(todo) \cap RampNodes # {}
    <3>1. CASE Targets(todo') \cap RampNodes # {}
      BY <1>1, <1>7, <3>1 DEF Held, OnItsWay
    <3>2. CASE h.op = "enter" /\ h.node \in RampNodes
      BY <1>1, <1>7, <3>2 DEF Held, Entered, OnItsWay
    <3> QED BY <1>3, <2>2, <3>1, <3>2
  <2>3. CASE HasOp(todo, "go_home")
    <3>1. CASE h.op = "go_home"
      <4>1. current_node' \in Stopping
        BY <1>1, <1>2, <3>1 DEF Stopping, OffNodes, RampNodes, MenuNodes, Nodes, SimpleNodes,
                                AdvancedNodes
      <4> QED BY <1>1, <1>7, <3>1, <4>1 DEF Held, Finishing, OnItsWay
    <3>2. CASE h.op # "go_home"
      BY <1>1, <1>3, <1>7, <2>3, <3>2 DEF Held, OnItsWay
    <3> QED BY <3>1, <3>2
  <2>4. CASE Entered
    <3>1. h.op \notin {"enter", "go_home"}
      <4>1. h = Op("action") \/ h = Op("arm")
        BY <1>1, <2>4 DEF Entered
      <4>2. Op("action").op = "action" /\ Op("arm").op = "arm"
        BY Fields
      <4> QED BY <4>1, <4>2
    <3> QED BY <1>1, <1>7, <2>4, <3>1 DEF Held, Entered, OnItsWay
  <2> QED BY <1>7, <2>1, <2>2, <2>3, <2>4 DEF Held
<1>8. CASE Released
  <2>1. PICK o \in Ops(todo) : o.op = "callback" /\ o.msg.type = "HOLD_RELEASE"
    BY <1>8 DEF Released
  <2>2. o \in Ops(todo')
    BY <1>1, <2>1 DEF PlainOps
  <2>3. h.op \notin {"enter", "go_home"}
    BY <1>4, <2>1, <2>2
  <2> QED BY <1>1, <1>8, <2>1, <2>2, <2>3 DEF Released, OnItsWay
<1> QED BY <1>6, <1>7, <1>8 DEF OnItsWay

(* The inactivity handler keeps it.                                        *)
LEMMA EndingHandler ==
    ASSUME NavInv, inactivity_timer_handler, NEW trace, OnItsWay(trace)
    PROVE  OnItsWay(trace)'
<1>1. /\ isr = <<>> /\ UNCHANGED <<current_node, todo, holding>>
  BY HandlerOps
<1>2. ~Finished(isr, trace) /\ ~Acting(isr)
  BY <1>1, NotActing DEF Finished
<1> QED BY <1>1, <1>2 DEF OnItsWay, Finishing, Held, Released, ToRamp, MapsToRamp, Entered

(* A call of the handler keeps it.                                         *)
LEMMA EndingIsrCalls ==
    ASSUME NavInv, IsrCalls, NEW trace \in Traces, OnItsWay(trace)
    PROVE  OnItsWay(trace)'
<1> DEFINE h == Head(isr)
           t == Tail(isr)
           b == Body(h)
<1>1. /\ isr # <<>> /\ h.op \in {"transition", "action"}
      /\ UNCHANGED <<current_node, timer, todo, holding>>
      /\ Ops(isr) = {h} \cup Ops(t) /\ Ops(isr') = Ops(b) \cup Ops(t)
      /\ h.op = "transition" => ~Acting(isr)
      /\ current_node \in Nodes /\ ~Acting(todo)
  BY IsrCallsOps
<1> HIDE DEF h, t, b
<1>2. h.op = "action" /\ current_node \in Stopping => Finished(b, trace)
  BY <1>1, CallBegins, TraceStops DEF b, Calls
<1>3. ~Finishes(h, trace)
  BY <1>1 DEF Finishes, Stops
<1>4. /\ Finished(isr', trace) <=> Finished(b, trace) \/ Finished(t, trace)
      /\ Finished(isr, trace) => Finished(t, trace)
  BY <1>1, <1>3, FinishedJoin, FinishedRest
<1>5. Finishing(trace) => Finishing(trace)'
  BY <1>1, <1>2, <1>4 DEF Finishing
<1>6. (Held => Held') /\ (Released => Released')
  BY <1>1 DEF Held, Released, ToRamp, MapsToRamp, Entered
<1> QED BY <1>5, <1>6 DEF OnItsWay

(* A handler in progress leaves no hold to be looked up.                   *)
LEMMA ToRampAlone == ASSUME NoTear, isr # <<>>, holding PROVE todo = <<>> /\ Ops(todo) = {}
BY NotActing DEF NoTear

(* A statement of the handler keeps it or ends the trace.                  *)
LEMMA EndingIsrExecutes ==
    ASSUME MenuCore, NoTear, IsrExecutes, NEW trace \in Traces, OnItsWay(trace),
           ~Finishes(Head(isr), trace)
    PROVE  OnItsWay(trace)'
<1> DEFINE h == Head(isr)
<1>1. /\ isr # <<>> /\ UNCHANGED <<todo, holding>>
      /\ Ops(isr) = {h} \cup Ops(isr') /\ ~Acting(isr) /\ ~Acting(todo)
  BY IsrExecutesOps DEF MenuCore, QuietCore, CoreInv
<1>2. ~Finishes(h, trace)
  OBVIOUS
<1> HIDE DEF h
<1>3. Finished(isr, trace) => Finished(isr', trace)
  BY <1>1, <1>2, FinishedRest
<1>4. current_node \notin RampNodes
  BY <1>1, HandlersNode DEF MenuCore, QuietCore, CoreInv
<1>5. Finishing(trace) => Finishing(trace)'
  BY <1>1, <1>3, <1>4 DEF Finishing
<1>6. ~Held
  BY <1>1, <1>4, ToRampAlone, AtEnd DEF Held, Entered, ToRamp, HasOp
<1> QED BY <1>4, <1>5, <1>6 DEF OnItsWay, Released

(* RampInv after a reset.                                                  *)
LEMMA RampReboot ==
    ASSUME RampCore, WorkerReboots \/ WorkerCrashes \/ IsrCrashes PROVE RampInv'
<1>1. PICK flash : /\ Reboot(flash) /\ flash.mode \in Modes
                   /\ DOMAIN flash = {"mode", "memorized", "floor", "ceiling", "style"}
  BY Reboots DEF RampCore, MenuCore, QuietCore, CoreInv
<1>2. PICK home \in OffNodes :
        /\ current_node' = NULL /\ Ops(todo') = {transition_to(home)} /\ isr' = <<>>
        /\ timer' = [t \in Timers |-> "stopped"] /\ ui' = BootUi(flash)
  BY <1>1, Rebooted
<1>3. timer'["ramp"] = "stopped" /\ current_node' \notin RampNodes
  BY <1>2 DEF Timers, RampNodes, NULL
<1>4. ui'.ramp_active = FALSE
  BY <1>1, <1>2, UiBoot
<1>5. ~HasRamp(todo') /\ ~HasRamp(isr')
  BY <1>2, Fields, OpsShort DEF HasRamp, BeginsRamp, Starts, Writes
<1> QED BY <1>3, <1>4, <1>5 DEF RampInv

(* RampInv when a message is taken.                                        *)
LEMMA RampTaken ==
    ASSUME RampCore, Tap \/ HoldStart \/ HoldRelease \/ Shutdown PROVE RampInv'
<1>1. NavInv
  BY DEF RampCore, MenuCore, QuietCore, CoreInv
<1>2. \A trace : OnItsWay(trace) /\ todo = <<>> /\ isr = <<>> =>
        holding /\ current_node \in RampNodes
  BY NotActing, AtEnd DEF OnItsWay, Finishing, Finished, Held, ToRamp, HasOp, Entered, Released
<1>3. CASE \E msg : /\ Taken(<<lookup("reset", msg), lookup("callback", msg)>>)
                    /\ TakenMessage(msg)
                    /\ Ops(todo') = {lookup("reset", msg), lookup("callback", msg)}
  <2>1. PICK msg : /\ Taken(<<lookup("reset", msg), lookup("callback", msg)>>)
                   /\ TakenMessage(msg)
                   /\ Ops(todo') = {lookup("reset", msg), lookup("callback", msg)}
    BY <1>3
  <2>2. /\ lookup("reset", msg).op = "reset" /\ lookup("callback", msg).op = "callback"
        /\ lookup("callback", msg).msg = msg
    BY Fields
  <2>3. ~HasRamp(todo') /\ ~HasRamp(isr') /\ Targets(todo') = {}
    BY <2>1, <2>2, OpsShort DEF HasRamp, BeginsRamp, Starts, Writes, Targets, Leads, Taken
  <2>4. holding /\ current_node \in RampNodes => \A trace : OnItsWay(trace)'
    <3> SUFFICES ASSUME holding, current_node \in RampNodes PROVE Released'
      BY DEF OnItsWay
    <3>1. msg.type = "HOLD_RELEASE"
      BY <2>1 DEF TakenMessage, MessageTypes
    <3> QED BY <2>1, <2>2, <3>1 DEF Released, Taken
  <2>5. /\ todo = <<>> /\ isr = <<>> /\ UNCHANGED timer
    BY <2>1 DEF Taken
  <2>6. timer'["ramp"] # "stopped" => OnItsWay("timer")'
    BY <1>2, <2>4, <2>5 DEF RampCore, RampInv
  <2>7. ui'.ramp_active => OnItsWay("flag")'
    <3>1. ui' = ui
      BY <2>1 DEF Taken
    <3> QED BY <1>2, <2>4, <2>5, <3>1 DEF RampCore, RampInv
  <2> QED BY <2>3, <2>6, <2>7 DEF RampInv
<1>4. CASE /\ Taken(fsm_emergency_off) /\ holding' = holding
           /\ Ops(todo') = {Emergency, Stop("inactivity"), Op("go_home"), Op("action")}
  <2>1. /\ Emergency.op = "set" /\ Emergency.var = "emergency" /\ Stop("inactivity").op = "stop"
        /\ Op("go_home").op = "go_home" /\ Op("action").op = "action"
    BY Fields, Flags
  <2>2. ~HasRamp(todo') /\ ~HasRamp(isr') /\ Targets(todo') = {} /\ HasOp(todo', "go_home")
    BY <1>4, <2>1, OpsShort DEF HasRamp, BeginsRamp, Starts, Writes, Targets, Leads, HasOp, Taken
  <2>3. holding => \A trace : OnItsWay(trace)'
    BY <1>4, <2>2 DEF OnItsWay, Held
  <2>5. /\ todo = <<>> /\ isr = <<>> /\ UNCHANGED timer
    BY <1>4 DEF Taken
  <2>6. timer'["ramp"] # "stopped" => OnItsWay("timer")'
    BY <1>2, <2>3, <2>5 DEF RampCore, RampInv
  <2>7. ui'.ramp_active => OnItsWay("flag")'
    <3>1. ui' = ui
      BY <1>4 DEF Taken
    <3> QED BY <1>2, <2>3, <2>5, <3>1 DEF RampCore, RampInv
  <2> QED BY <2>2, <2>6, <2>7 DEF RampInv
<1> QED BY <1>1, <1>3, <1>4, Inputs

(* RampInv when the worker calls.                                          *)
LEMMA RampWorkerCalls ==
    ASSUME RampCore, WorkerCalls PROVE RampInv'
<1> DEFINE h == Head(todo)
           t == Tail(todo)
           b == Body(h)
<1>1. /\ isr' = isr /\ h \in Ops(todo) /\ h.op \in Calls
      /\ UNCHANGED <<current_node, timer, holding>>
      /\ Ops(todo) = {h} \cup Ops(t) /\ Ops(todo') = Ops(b) \cup Ops(t)
      /\ h.op \in {"callback", "map", "transition"} => Ops(t) = {}
      /\ h.op # "transition" => current_node \in Nodes
      /\ h.op = "transition" => h.node \in Nodes
      /\ h.op = "callback" => h.msg.type \in MessageTypes
  BY WorkerCallsOps DEF RampCore, MenuCore, QuietCore, CoreInv
<1>2. ui' = ui
  BY WorkerCallsOps DEF RampCore, MenuCore, QuietCore, CoreInv
<1> HIDE DEF h, t, b
<1>3. /\ timer'["ramp"] # "stopped" => OnItsWay("timer")'
      /\ ui'.ramp_active => OnItsWay("flag")'
  BY <1>1, <1>2, EndingCalls DEF RampCore, RampInv, Traces
<1>4. HasRamp(todo') => ToRamp'
  <2>1. CASE HasRamp(t)
    <3>1. PICK o \in Ops(todo) : o.op = "map" /\ MapsToRamp(o.msg)
      BY <1>1, <2>1, FinishedRest DEF RampCore, RampInv, ToRamp
    <3>2. o \in Ops(t)
      BY <1>1, <2>1, <3>1 DEF HasRamp
    <3> QED BY <1>1, <2>1, <3>1, <3>2, FinishedRest DEF RampCore, RampInv, ToRamp, MapsToRamp
  <2>2. CASE HasRamp(b)
    <3>1. h.op = "callback"
      BY <1>1, <2>2, CallBegins DEF b
    <3>2. /\ h.msg.type = "HOLD_START" /\ lookup("map", h.msg) \in Ops(b)
          /\ \/ h.msg.count = 1 /\ current_node \in OffNodes \cup OnNodes
             \/ h.msg.count = 2 /\ current_node \in OnNodes
      BY <1>1, <2>2, <3>1, CallbackBegins DEF b
    <3>3. holding /\ h.msg.count \in Holds
      BY <1>1, <3>1, <3>2 DEF RampCore, MenuCore, MsgInv, MsgWell, LookupOps
    <3>4. MapsToRamp(h.msg)
      BY <3>2, <3>3 DEF MapsToRamp
    <3>5. lookup("map", h.msg).op = "map" /\ lookup("map", h.msg).msg = h.msg
      BY Fields
    <3> QED BY <1>1, <3>2, <3>3, <3>4, <3>5 DEF ToRamp, MapsToRamp
  <2> QED BY <1>1, <2>1, <2>2, FinishedJoin
<1>5. current_node \in RampNodes => Targets(todo') \cap RampNodes = {}
  <2> SUFFICES ASSUME current_node \in RampNodes PROVE Targets(todo') \cap RampNodes = {}
    OBVIOUS
  <2>1. Targets(todo) \cap RampNodes = {}
    BY DEF RampCore, RampInv
  <2>2. Targets(todo') = Targets(b) \cup Targets(t) /\ Targets(t) \subseteq Targets(todo)
        /\ (Leads(h) => h.node \in Targets(todo))
    BY <1>1, Joined, Unrolled
  <2>3. CASE h.op = "transition"
    BY <1>1, <2>1, <2>2, <2>3, CallBegins DEF b, Leads
  <2>4. CASE h.op = "callback"
    BY <1>1, <2>1, <2>2, <2>4, CallbackBegins DEF b
  <2>5. CASE h.op = "map"
    BY <1>1, <2>1, <2>2, <2>5, MapBegins DEF b
  <2>6. CASE h.op \in {"action", "reset"}
    BY <1>1, <2>1, <2>2, <2>6, CallAdds DEF b
  <2> QED BY <1>1, <2>3, <2>4, <2>5, <2>6 DEF Calls
<1>6. ~HasRamp(isr')
  BY <1>1 DEF RampCore, RampInv
<1> QED BY <1>1, <1>3, <1>4, <1>5, <1>6 DEF RampInv

(* What an executed statement does to the traces.                          *)
(* RampInv when the worker executes a statement.                           *)
LEMMA RampWorkerExecutes == ASSUME RampCore, WorkerExecutes PROVE RampInv'
<1> DEFINE h == Head(todo)
<1>1. /\ isr' = isr /\ h \in Ops(todo) /\ Execute(h)
      /\ Ops(todo) = {h} \cup Ops(todo')
      /\ h.op \in {"enter", "go_home"} => Ops(todo') \subseteq {Op("action"), Op("arm")}
      /\ h.op = "go_home" => current_node' = home_node
      /\ h.op \notin {"enter", "go_home"} => UNCHANGED current_node
  BY WorkerExecutesOps DEF RampCore, MenuCore, QuietCore, CoreInv
<1>2. CoreInv /\ NavInv /\ home_node \in OffNodes /\ SetWell(h)
  BY <1>1 DEF RampCore, MenuCore, QuietCore, CoreInv, NavInv, NodeInv, FlagInv
<1>3. ASSUME NEW trace \in Traces, OnItsWay(trace), ~Finishes(h, trace) PROVE OnItsWay(trace)'
  BY <1>3, EndingExecutes DEF RampCore
<1>4. ToRamp => ToRamp' /\ Held'
  BY <1>2, ToRampLeft
<1> HIDE DEF h
<1>5. BeginsRamp(h) \/ HasRamp(todo') => ToRamp
  BY <1>1, FinishedRest DEF RampCore, RampInv
<1>6. timer'["ramp"] # "stopped" => OnItsWay("timer")'
  BY <1>1, <1>2, <1>3, <1>4, <1>5, TraceExec DEF RampCore, RampInv, Traces, OnItsWay
<1>7. ui'.ramp_active => OnItsWay("flag")'
  BY <1>1, <1>2, <1>3, <1>4, <1>5, TraceExec DEF RampCore, RampInv, Traces, OnItsWay
<1>8. current_node' \in RampNodes => Targets(todo') \cap RampNodes = {}
  <2>1. CASE h.op \in {"enter", "go_home"}
    <3>1. \A o \in Ops(todo') : ~Leads(o)
      BY <1>1, <2>1, Fields DEF Leads
    <3> QED BY <3>1 DEF Targets
  <2>2. CASE h.op \notin {"enter", "go_home"}
    BY <1>1, <2>2, Unrolled DEF RampCore, RampInv
  <2> QED BY <2>1, <2>2
<1>9. ~HasRamp(isr')
  BY <1>1 DEF RampCore, RampInv
<1> QED BY <1>4, <1>5, <1>6, <1>7, <1>8, <1>9 DEF RampInv

(* RampInv when the handler executes a statement.                          *)
LEMMA RampIsrExecutes == ASSUME RampCore, IsrExecutes PROVE RampInv'
<1> DEFINE h == Head(isr)
<1>1. /\ isr # <<>> /\ h \in Ops(isr) /\ Execute(h) /\ UNCHANGED todo
      /\ Ops(isr) = {h} \cup Ops(isr')
      /\ h.op = "enter" => h.node \in MayRun /\ current_node' = h.node
      /\ h.op # "enter" => UNCHANGED current_node
  BY IsrExecutesOps DEF RampCore, MenuCore, QuietCore, CoreInv
<1>2. CoreInv /\ NavInv /\ SetWell(h)
  BY <1>1 DEF RampCore, MenuCore, QuietCore, CoreInv, FlagInv
<1>3. ASSUME NEW trace \in Traces, OnItsWay(trace), ~Finishes(h, trace) PROVE OnItsWay(trace)'
  BY <1>3, EndingIsrExecutes DEF RampCore
<1>4. ~ToRamp
  BY <1>1, ToRampAlone DEF RampCore, ToRamp
<1> HIDE DEF h
<1>5. ~BeginsRamp(h) /\ ~HasRamp(isr')
  BY <1>1, FinishedRest DEF RampCore, RampInv
<1>6. timer'["ramp"] # "stopped" => OnItsWay("timer")'
  BY <1>2, <1>1, <1>3, <1>5, TraceExec DEF RampCore, RampInv, Traces
<1>7. ui'.ramp_active => OnItsWay("flag")'
  BY <1>2, <1>1, <1>3, <1>5, TraceExec DEF RampCore, RampInv, Traces
<1>8. current_node' \notin RampNodes
  BY <1>1, <1>2, HandlersNode
<1> QED BY <1>1, <1>4, <1>5, <1>6, <1>7, <1>8 DEF RampInv, RampCore

(* RampInv when the handler calls.                                         *)
LEMMA RampIsrCalls == ASSUME RampCore, IsrCalls PROVE RampInv'
<1> DEFINE h == Head(isr)
           t == Tail(isr)
           b == Body(h)
<1>1. /\ isr # <<>> /\ h.op \in {"transition", "action"} /\ current_node \in Nodes
      /\ UNCHANGED <<current_node, timer, todo, holding>>
      /\ Ops(isr) = {h} \cup Ops(t) /\ Ops(isr') = Ops(b) \cup Ops(t)
  BY IsrCallsOps DEF RampCore, MenuCore, QuietCore, CoreInv
<1>2. ui' = ui
  BY IsrCallsOps DEF RampCore, MenuCore, QuietCore, CoreInv
<1> HIDE DEF h, t, b
<1>3. ASSUME NEW trace \in Traces, OnItsWay(trace) PROVE OnItsWay(trace)'
  BY <1>3, EndingIsrCalls DEF RampCore, MenuCore, QuietCore, CoreInv
<1>4. ~HasRamp(isr')
  <2>1. ~HasRamp(b)
    BY <1>1, CallBegins DEF b, Calls
  <2> QED BY <1>1, <2>1, FinishedJoin, FinishedRest DEF RampCore, RampInv
<1>5. ui'.ramp_active => OnItsWay("flag")'
  BY <1>2, <1>3 DEF RampCore, RampInv, Traces
<1> QED BY <1>1, <1>3, <1>4, <1>5 DEF RampCore, RampInv, Traces, ToRamp, MapsToRamp

(* RampInv when the inactivity handler starts.                             *)
LEMMA RampHandler == ASSUME RampCore, inactivity_timer_handler PROVE RampInv'
<1>1. NavInv
  BY DEF RampCore, MenuCore, QuietCore, CoreInv
<1>2. PICK node \in Nodes :
              /\ Ops(isr') = {transition_to(node)}
              /\ timer' = [timer EXCEPT !["inactivity"] = "stopped"]
              /\ UNCHANGED <<current_node, todo, holding>>
  BY <1>1, HandlerOps
<1>3. ui' = ui
  BY <1>1, HandlerOps
<1>4. ASSUME NEW trace \in Traces, OnItsWay(trace) PROVE OnItsWay(trace)'
  BY <1>1, <1>4, EndingHandler
<1>5. ~HasRamp(isr')
  BY <1>2, Fields DEF HasRamp, BeginsRamp, Starts, Writes
<1>6. timer'["ramp"] = timer["ramp"]
  BY <1>1, <1>2 DEF NavInv, IInv, TimerInv, Timers
<1>7. ui'.ramp_active => OnItsWay("flag")'
  BY <1>3, <1>4 DEF RampCore, RampInv, Traces
<1> QED BY <1>2, <1>4, <1>5, <1>6, <1>7 DEF RampCore, RampInv, Traces, ToRamp, MapsToRamp

(* RampInv is inductive as long as the worker is alone with a hold.        *)
LEMMA RampKept == ASSUME RampCore, [Next]_vars PROVE RampInv'
<1>1. CASE InactivityPasses
  <2>1. /\ UNCHANGED <<current_node, todo, isr, holding>>
        /\ timer'["ramp"] = timer["ramp"]
    BY <1>1 DEF InactivityPasses, RampCore, MenuCore, QuietCore, CoreInv, NavInv, IInv, TimerInv,
                Timers
  <2>2. ui' = ui
    BY <1>1 DEF InactivityPasses
  <2> QED BY <2>1, <2>2 DEF RampCore, RampInv, OnItsWay, Finishing, Held, ToRamp, MapsToRamp, Entered,
                       Released
<1>2. CASE Ticks \/ UNCHANGED vars
  <2>1. UNCHANGED <<current_node, timer, todo, isr, holding>>
    BY <1>2, UiTicks DEF vars, RampCore, MenuCore, QuietCore, CoreInv, FlagInv
  <2>2. ui'.ramp_active = ui.ramp_active
    BY <1>2, UiTicks DEF vars, RampCore, MenuCore, QuietCore, CoreInv, FlagInv
  <2> QED BY <2>1, <2>2 DEF RampCore, RampInv, OnItsWay, Finishing, Held, ToRamp, MapsToRamp, Entered,
                       Released
<1> QED
  BY <1>1, <1>2, RampTaken, RampReboot, RampWorkerCalls, RampWorkerExecutes, RampHandler,
     RampIsrCalls, RampIsrExecutes DEF Next, Ticks

(* The worker stays alone with a hold unless it is interrupted.            *)
LEMMA NoTearKept ==
    ASSUME NavInv, FlagInv, NoTear, ~Interrupted, [Next]_vars PROVE NoTear'
<1>1. CASE Tap \/ HoldStart \/ HoldRelease \/ Shutdown
  BY <1>1, Inputs DEF Taken, NoTear
<1>2. CASE WorkerReboots \/ WorkerCrashes \/ IsrCrashes
  BY <1>2, Reboots DEF Reboot, NoTear
<1>3. CASE WorkerCalls
  BY <1>3, WorkerCallsOps DEF NoTear
<1>4. CASE WorkerExecutes
  BY <1>4, WorkerExecutesOps DEF NoTear
<1>5. CASE IsrCalls
  BY <1>5, IsrCallsOps DEF NoTear
<1>6. CASE IsrExecutes
  BY <1>6, IsrExecutesOps DEF NoTear
<1>7. CASE inactivity_timer_handler
  BY <1>7, HandlerOps DEF NoTear, Interrupted
<1>8. CASE InactivityPasses \/ UNCHANGED vars
  BY <1>8 DEF InactivityPasses, vars, NoTear
<1>9. CASE Ticks
  BY <1>9, UiTicks DEF FlagInv, NoTear
<1> QED BY <1>1, <1>2, <1>3, <1>4, <1>5, <1>6, <1>7, <1>8, <1>9 DEF Next, Ticks

(* What holds of every light that is not torn.                             *)
LEMMA RampStep ==
    ASSUME RampCore, ~Interrupted, [Next]_vars PROVE NoTear' /\ RampInv'
BY RampKept, NoTearKept DEF RampCore, MenuCore, QuietCore, CoreInv

(* A settled light is as good as one that was never torn.                  *)
LEMMA SettledRamp == ASSUME MenuCore, Settled PROVE RampCore /\ ~Interrupted
<1>1. /\ todo = <<>> /\ isr = <<>> /\ timer["ramp"] = "stopped" /\ ~ui.ramp_active
      /\ current_node \notin RampNodes
  BY DEF Settled, AtRest
<1>2. ~HasRamp(todo) /\ ~HasRamp(isr)
  BY <1>1, NotActing DEF HasRamp
<1> QED BY <1>1, <1>2 DEF RampCore, RampInv, NoTear, Interrupted

(* Whole is the light that is not torn, and then RampCore holds.           *)
WholeInv == torn \in BOOLEAN /\ (~torn => NoTear /\ RampInv)

(* WholeInv is inductive.                                                  *)
LEMMA WholeStep == ASSUME MenuCore, WholeInv, [HNext]_hvars PROVE WholeInv'
<1>1. [Next]_vars /\ (Records \/ UNCHANGED hvars)
  BY HistoryStep
<1>2. CASE UNCHANGED hvars
  <2>1. UNCHANGED <<vars, torn>> /\ ~Interrupted
    BY <1>2 DEF hvars, vars, Interrupted
  <2> QED BY <1>1, <2>1, RampStep DEF WholeInv, RampCore
<1>3. CASE Records
  <2>1. torn' \in BOOLEAN /\ (~torn' => ~Interrupted /\ (torn => Settled))
    BY <1>3 DEF Records, WholeInv
  <2>2. ~torn' => RampCore
    BY <2>1, SettledRamp DEF WholeInv, RampCore
  <2> QED BY <1>1, <2>1, <2>2, RampStep DEF WholeInv
<1> QED BY <1>1, <1>2, <1>3

(* RampCore holds whenever the light is not torn.                          *)
LEMMA WholeInvariance == HSpec => [](MenuCore /\ WholeInv)
<1>1. HInit /\ MenuCore => WholeInv
  <2> SUFFICES ASSUME HInit, MenuCore PROVE WholeInv
    OBVIOUS
  <2>1. PICK mode \in StartModes :
        /\ current_node = NULL /\ todo = <<transition_to(home_node)>> /\ isr = <<>>
        /\ timer["ramp"] = "stopped" /\ ui = BootUi(Defaults(mode))
    BY DEF HInit, Init, Timers
  <2>2. ui.ramp_active = FALSE
    BY <2>1, UiBoot, Flashes
  <2>3. ~HasRamp(todo) /\ ~HasRamp(isr)
    BY <2>1, OpsShort, Fields DEF HasRamp, BeginsRamp, Starts, Writes
  <2>4. current_node \notin RampNodes
    BY <2>1 DEF RampNodes, NULL
  <2> QED BY <2>1, <2>2, <2>3, <2>4 DEF HInit, WholeInv, NoTear, RampInv
<1>2. MenuCore /\ WholeInv /\ [HNext]_hvars => WholeInv'
  BY WholeStep
<1> QED BY <1>1, <1>2, HistoryKeeps, MenuInvariance, PTL DEF HSpec

(* What the two say together.                                              *)
LEMMA Whole == ASSUME MenuCore, WholeInv, ~torn PROVE RampCore
BY DEF WholeInv, RampCore

(* At rest what is on its way has arrived in a ramp.                       *)
LEMMA AtRestHeld ==
    ASSUME AtRest, NEW trace, OnItsWay(trace)
    PROVE  holding /\ current_node \in RampNodes
BY NotActing, AtEnd DEF OnItsWay, Finishing, Finished, Held, ToRamp, HasOp, Entered, Released, AtRest

(* However a ramp ends (its release, a shutdown, a reset, in any order     *)
(* with the interrupts), the brightness moves at rest only while the user  *)
(* holds the button in the ramp, unless the light is torn: for every user, *)
(* whatever menus time out.                                                *)
THEOREM RampCorrect == HSpec => []RampOnlyWhileHeld
<1>1. MenuCore /\ WholeInv => RampOnlyWhileHeld
  BY Whole, AtRestHeld DEF RampCore, RampInv, RampOnlyWhileHeld
<1> QED BY <1>1, WholeInvariance, PTL

(* In OFF nothing is left running that would light the beam again: at rest *)
(* the regulation and the strobe are stopped, whether a click, a timeout   *)
(* in the interrupt or a shutdown led there, and so is the ramp unless it  *)
(* began torn.                                                             *)
THEOREM OffCorrect == HSpec => []OffIsQuiet
<1>1. MenuCore /\ WholeInv => OffIsQuiet
  <2> SUFFICES ASSUME MenuCore, WholeInv, AtRest, current_node \in OffNodes
               PROVE  /\ timer["thermal"] = "stopped" /\ timer["strobe"] = "stopped"
                      /\ torn \/ timer["ramp"] = "stopped"
    BY DEF OffIsQuiet
  <2>1. timer["thermal"] = "stopped" /\ timer["strobe"] = "stopped"
    BY AtEnd DEF MenuCore, QuietCore, QuietInv, ThermalInv, StrobeInv, AtRest, OffNodes
  <2>2. torn \/ timer["ramp"] = "stopped"
    BY Whole, AtRestHeld DEF RampCore, RampInv, OffNodes, RampNodes
  <2> QED BY <2>1, <2>2
<1> QED BY <1>1, WholeInvariance, PTL

(* A statement writes the memory only in a ramp or while one is held.      *)
LEMMA OnTheWay ==
    ASSUME NEW trace, OnItsWay(trace) PROVE holding \/ current_node \in RampNodes
BY DEF OnItsWay, Finishing, Held, Released

(* Which statement writes the memory, and when.                            *)
LEMMA Remembers ==
    ASSUME RampCore, NEW o, SetWell(o), Execute(o), ui'.memorized # ui.memorized
    PROVE  current_node \in RampNodes \/ holding
<1>1. ui.ramp_active
  <2>1. o.op = "save_memory"
    BY UiExec DEF RampCore, MenuCore, QuietCore, CoreInv, FlagInv, SetWell
  <2> QED BY <2>1, UiExec DEF RampCore, MenuCore, QuietCore, CoreInv, FlagInv, SetWell
<1> QED BY <1>1, OnTheWay DEF RampCore, RampInv

(* Only a ramp is remembered: whichever step writes memorized_brightness   *)
(* (other than a reset, which loads it), the light is in a ramp or the     *)
(* button is held; the level of a turbo, a moon or an override is not      *)
(* saved on whatever path its node is left.                                *)
THEOREM MemoryCorrect == HSpec => OnlyRampsAreRemembered
<1> DEFINE Remembered == ui'.memorized # ui.memorized =>
                             current_node \in RampNodes \/ holding \/ torn \/ current_node' = NULL
<1>1. MenuCore /\ WholeInv /\ [HNext]_hvars => [Remembered]_hvars
  <2> SUFFICES ASSUME RampCore, ~torn, [Next]_vars PROVE Remembered
    BY Whole, HistoryStep
  <2> HIDE DEF Remembered
  <2>0. CoreInv /\ NavInv /\ FlagInv
    BY DEF RampCore, MenuCore, QuietCore, CoreInv
  <2>1. CASE ui' = ui
    BY <2>1 DEF Remembered
  <2>2. CASE Tap \/ HoldStart \/ HoldRelease \/ Shutdown
    BY <2>0, <2>1, <2>2, Inputs DEF Taken
  <2>3. CASE WorkerCalls \/ IsrCalls \/ InactivityPasses \/ inactivity_timer_handler
    BY <2>1, <2>3 DEF WorkerCalls, IsrCalls, InactivityPasses, inactivity_timer_handler
  <2>4. CASE WorkerExecutes
    <3>1. Head(todo) \in Ops(todo) /\ Execute(Head(todo))
      BY <2>0, <2>4, WorkerExecutesOps
    <3>2. SetWell(Head(todo))
      BY <2>0, <3>1 DEF FlagInv
    <3> QED BY <3>1, <3>2, Remembers DEF Remembered
  <2>5. CASE IsrExecutes
    <3>1. Head(isr) \in Ops(isr) /\ Execute(Head(isr))
      BY <2>0, <2>5, IsrExecutesOps
    <3>2. SetWell(Head(isr))
      BY <2>0, <3>1 DEF FlagInv
    <3> QED BY <3>1, <3>2, Remembers DEF Remembered
  <2>6. CASE WorkerReboots \/ WorkerCrashes \/ IsrCrashes
    BY <2>0, <2>6, Reboots DEF Reboot, Remembered
  <2>7. CASE Ticks
    BY <2>0, <2>7, UiTicks DEF Remembered, FlagInv
  <2> QED BY <2>1, <2>2, <2>3, <2>4, <2>5, <2>6, <2>7 DEF Next, Ticks, vars
<1> QED BY <1>1, WholeInvariance, PTL DEF HSpec, OnlyRampsAreRemembered

(* What the user relies on between two inputs holds together.              *)
THEOREM SaneCorrect == HSpec => []SaneAtRest
<1>1. TypeOK /\ RampOnlyWhileHeld /\ OffIsQuiet /\ TimeoutHasItsNode /\ OnShowsItsLevel => SaneAtRest
  BY DEF SaneAtRest
<1> QED BY <1>1, HistoryKeeps, UiTypeCorrect, RampCorrect, OffCorrect, TimeoutCorrect, OnCorrect, PTL

-----------------------------------------------------------------------------
(* Releasing the ramp.  While a ramp is entered the flag is set and stays  *)
(* so; the way out to ON stops the ramp's timer and saves the brightness,  *)
(* and nothing changes either of the two until ON has chosen its level: no *)
(* tick, no override, and no handler, for a ramp has no period of          *)
(* inactivity and ON has none before it has chosen.                        *)
Locked ==
    /\ ui.ramp_active = FALSE /\ timer["ramp"] = "stopped"
    /\ ui.active_param = "BRIGHTNESS" => ui.memorized = ui.brightness

(* The flag is set before the node is entered, and not cleared on the way. *)
WayIn ==
    /\ \A o \in Ops(todo) : Writes(o, "ramp_active") => o.val = TRUE
    /\ \A o \in Ops(todo) : o.op = "map" /\ MapsToRamp(o.msg) =>
          (ui.ramp_active = TRUE \/ RampOn \in Ops(todo)) /\ ~HasOp(todo, "save_memory")
    /\ Targets(todo) \cap RampNodes # {} =>
          holding /\ ui.ramp_active = TRUE /\ ~HasOp(todo, "save_memory")

(* In a ramp it is cleared on the way to ON only, or to OFF.               *)
InRamp ==
    current_node \in RampNodes =>
        /\ Targets(todo) = {} /\ ~HasOp(todo, "go_home") => ui.ramp_active = TRUE
        /\ HasOp(todo, "save_memory") => Targets(todo) \cap OnNodes # {}

(* cb_simple_ramp_release, cb_adv_ramp_release and the transition after it.*)
Releasing(node) ==
    \/ todo = stop_ramping \o <<transition_to(node)>> /\ ui.ramp_active = TRUE
    \/ /\ todo = <<Op("save_memory"), transition_to(node)>>
       /\ ui.ramp_active = TRUE /\ timer["ramp"] = "stopped"
    \/ todo \in {<<transition_to(node)>>, fsm_transition_to(node), Entering(node)} /\ Locked

WayOut ==
    current_node \in RampNodes /\ Targets(todo) \cap OnNodes # {} =>
        \E node \in OnNodes : Releasing(node)

(* ON has still to choose its level.                                       *)
Choosing == Acting(todo) \/ HasOp(todo, "level_on")

(* action_on, the arming of the timer after it, and what is left of them   *)
(* as long as no level is chosen.                                          *)
Choices ==
    {<<Op("action"), Op("arm")>>,
     <<Resume, Start("thermal"), Stop("ramp"), Op("save_memory"), Op("level_on"),
       LedBrightness, Op("arm")>>,
     <<Start("thermal"), Stop("ramp"), Op("save_memory"), Op("level_on"), LedBrightness, Op("arm")>>,
     <<Stop("ramp"), Op("save_memory"), Op("level_on"), LedBrightness, Op("arm")>>,
     <<Op("save_memory"), Op("level_on"), LedBrightness, Op("arm")>>,
     <<Op("level_on"), LedBrightness, Op("arm")>>}

Kept ==
    current_node \in OnNodes /\ previous_node \in RampNodes /\ Choosing =>
        /\ todo \in Choices /\ Locked /\ ui.override = 0
        /\ isr = <<>> /\ timer["inactivity"] = "stopped"

LockInv == WayIn /\ InRamp /\ WayOut /\ Kept

(* The one-shot override waits only on the way from the lockout to ON.     *)
OneShot ==
    /\ ~HasOp(isr, "override_floor")
    /\ ui.override # 0 \/ HasOp(todo, "override_floor") =>
          \/ current_node = "simple_lockout" /\ Targets(todo) = {"simple_on"}
          \/ /\ current_node = "simple_on" /\ previous_node \notin RampNodes
             /\ Choosing /\ ~HasOp(todo, "override_floor")

LockCore == RampCore /\ OneShot /\ LockInv

(* What MenuCore and LockCore contain.                                     *)
LEMMA MenuParts ==
    ASSUME MenuCore
    PROVE  NavInv /\ FlagInv /\ MsgInv /\ IsSeq(todo) /\ IsSeq(isr) /\ DOMAIN ui = UiFields
BY DEF MenuCore, QuietCore, CoreInv, NavInv, IInv, WorkerInv, HandlerInv, FlagInv

LEMMA LockParts ==
    ASSUME LockCore
    PROVE  /\ RampCore /\ MenuCore /\ NavInv /\ FlagInv /\ MsgInv /\ NoTear
           /\ IsSeq(todo) /\ DOMAIN ui = UiFields
BY MenuParts DEF LockCore, RampCore

(* Two and two and two statements and one more.                            *)
LEMMA JoinSeven ==
    ASSUME NEW a, NEW b, NEW c, NEW d, NEW e, NEW f, NEW g
    PROVE  ((<<a, b>> \o <<c, d>>) \o <<e, f>>) \o <<g>> = <<a, b, c, d, e, f, g>>
<1> DEFINE S == {a, b, c, d, e, f, g}
           u == <<a, b>> \o <<c, d>>
           v == u \o <<e, f>>
           w == v \o <<g>>
           all == <<a, b, c, d, e, f, g>>
<1>1. /\ <<a, b>> \in Seq(S) /\ <<c, d>> \in Seq(S) /\ <<e, f>> \in Seq(S) /\ <<g>> \in Seq(S)
      /\ all \in Seq(S)
      /\ Len(<<e, f>>) = 2 /\ <<e, f>>[1] = e /\ <<e, f>>[2] = f
      /\ Len(<<g>>) = 1 /\ <<g>>[1] = g
  OBVIOUS
<1>2. u \in Seq(S) /\ Len(u) = 4 /\ u[1] = a /\ u[2] = b /\ u[3] = c /\ u[4] = d
  BY <1>1
<1> HIDE DEF S, u
<1>3. /\ v \in Seq(S) /\ Len(v) = 6
      /\ v[1] = a /\ v[2] = b /\ v[3] = c /\ v[4] = d /\ v[5] = e /\ v[6] = f
  <2> DEFINE p == <<e, f>>
  <2>1. p \in Seq(S) /\ Len(p) = 2 /\ p[1] = e /\ p[2] = f
    BY <1>1
  <2> HIDE DEF p
  <2>2. /\ u \o p \in Seq(S) /\ Len(u \o p) = Len(u) + Len(p)
        /\ \A i \in 1..(Len(u) + Len(p)) :
              (u \o p)[i] = IF i <= Len(u) THEN u[i] ELSE p[i - Len(u)]
    BY <1>2, <2>1, ConcatProperties
  <2> QED BY <1>2, <2>1, <2>2 DEF p
<1> HIDE DEF v
<1>4. /\ w \in Seq(S) /\ Len(w) = 7 /\ w[1] = a /\ w[2] = b /\ w[3] = c /\ w[4] = d
      /\ w[5] = e /\ w[6] = f /\ w[7] = g
  <2> DEFINE p == <<g>>
  <2>1. p \in Seq(S) /\ Len(p) = 1 /\ p[1] = g
    BY <1>1
  <2> HIDE DEF p
  <2>2. /\ v \o p \in Seq(S) /\ Len(v \o p) = Len(v) + Len(p)
        /\ \A i \in 1..(Len(v) + Len(p)) :
              (v \o p)[i] = IF i <= Len(v) THEN v[i] ELSE p[i - Len(v)]
    BY <1>3, <2>1, ConcatProperties
  <2> QED BY <1>3, <2>1, <2>2 DEF p
<1>5. /\ Len(all) = 7 /\ all[1] = a /\ all[2] = b /\ all[3] = c /\ all[4] = d
      /\ all[5] = e /\ all[6] = f /\ all[7] = g
  OBVIOUS
<1> HIDE DEF w, all
<1>6. \A i \in 1..Len(w) : w[i] = all[i]
  BY <1>4, <1>5
<1>7. w = all
  BY <1>1, <1>4, <1>5, <1>6, SeqEqual
<1> QED BY <1>7 DEF u, v, w, all
(* action_on, and what follows it in fsm_transition_to.                    *)
LEMMA OnStatements ==
    action_on \o <<Op("arm")>> =
        <<Resume, Start("thermal"), Stop("ramp"), Op("save_memory"), Op("level_on"),
          LedBrightness, Op("arm")>>
BY JoinSeven DEF action_on, stop_ramping

(* The next statement of such a rest, and what is left after it.           *)
LEMMA ChoicesStep ==
    ASSUME NEW s \in Choices, Head(s).op # "action"
    PROVE  /\ Head(s) \in {Resume, Start("thermal"), Stop("ramp"), Op("save_memory"), Op("level_on")}
           /\ \/ Head(s) # Op("level_on") /\ Tail(s) \in Choices
              \/ Head(s) = Op("level_on") /\ Tail(s) = <<LedBrightness, Op("arm")>>
<1>1. s # <<Op("action"), Op("arm")>>
  BY Short, Fields
<1>2. \A a, b, c, d, e, f, g :
         /\ Head(<<a, b, c, d, e, f, g>>) = a /\ Tail(<<a, b, c, d, e, f, g>>) = <<b, c, d, e, f, g>>
         /\ Head(<<a, b, c, d, e, f>>) = a /\ Tail(<<a, b, c, d, e, f>>) = <<b, c, d, e, f>>
         /\ Head(<<a, b, c, d, e>>) = a /\ Tail(<<a, b, c, d, e>>) = <<b, c, d, e>>
         /\ Head(<<a, b, c, d>>) = a /\ Tail(<<a, b, c, d>>) = <<b, c, d>>
         /\ Head(<<a, b, c>>) = a /\ Tail(<<a, b, c>>) = <<b, c>>
  OBVIOUS
<1>3. /\ Resume.op # "level_on" /\ Start("thermal").op # "level_on" /\ Stop("ramp").op # "level_on"
      /\ Op("save_memory").op # "level_on" /\ Op("level_on").op = "level_on"
  BY Fields, Flags
<1>4. s = <<Resume, Start("thermal"), Stop("ramp"), Op("save_memory"), Op("level_on"),
            LedBrightness, Op("arm")>> =>
         /\ Head(s) = Resume
         /\ Tail(s) = <<Start("thermal"), Stop("ramp"), Op("save_memory"), Op("level_on"),
                        LedBrightness, Op("arm")>>
  BY <1>2
<1>5. s = <<Start("thermal"), Stop("ramp"), Op("save_memory"), Op("level_on"), LedBrightness,
            Op("arm")>> =>
         /\ Head(s) = Start("thermal")
         /\ Tail(s) = <<Stop("ramp"), Op("save_memory"), Op("level_on"), LedBrightness, Op("arm")>>
  BY <1>2
<1>6. s = <<Stop("ramp"), Op("save_memory"), Op("level_on"), LedBrightness, Op("arm")>> =>
         /\ Head(s) = Stop("ramp")
         /\ Tail(s) = <<Op("save_memory"), Op("level_on"), LedBrightness, Op("arm")>>
  BY <1>2
<1>7. s = <<Op("save_memory"), Op("level_on"), LedBrightness, Op("arm")>> =>
         /\ Head(s) = Op("save_memory")
         /\ Tail(s) = <<Op("level_on"), LedBrightness, Op("arm")>>
  BY <1>2
<1>8. s = <<Op("level_on"), LedBrightness, Op("arm")>> =>
         /\ Head(s) = Op("level_on") /\ Tail(s) = <<LedBrightness, Op("arm")>>
  BY <1>2
<1> QED BY <1>1, <1>3, <1>4, <1>5, <1>6, <1>7, <1>8, Zenon DEF Choices

(* A hold that a map takes to a ramp has set the flag in its callback.     *)
LEMMA RampCallback ==
    ASSUME NEW msg, MapsToRamp(msg)
    PROVE  /\ CallbackOf(msg).next = NULL /\ RampOn \in Ops(CallbackOf(msg).ops)
           /\ ~HasOp(CallbackOf(msg).ops, "save_memory")
<1> DEFINE name == CallbackFor(msg)
           cb == CallbackOf(msg)
<1>1. name \in {"hold_from_off", "hold_ramp_up", "hold_ramp_down"}
  BY DEF MapsToRamp, CallbackFor, hold_callback, OffNodes, OnNodes, LockoutNodes, NULL
<1>2. \A dir : /\ RampOn \in Ops(start_ramping(dir)) /\ ~HasOp(start_ramping(dir), "save_memory")
               /\ ~HasOp(action_moon, "save_memory")
  BY RoutineOps, Fields, Flags DEF HasOp
<1>3. \A dir : IsSeq(start_ramping(dir)) /\ IsSeq(action_moon)
  BY Short DEF start_ramping, action_moon
<1>4. \A dir : Ops(action_moon \o start_ramping(dir)) = Ops(action_moon) \cup Ops(start_ramping(dir))
  BY <1>3, OpsJoin
<1>5. /\ cb.next = NULL
      /\ cb.ops \in {action_moon \o start_ramping(1), start_ramping(1), start_ramping(-1)}
  BY <1>1, CallbackOps DEF CallbackOf
<1> HIDE DEF cb, name
<1>6. RampOn \in Ops(cb.ops) /\ ~HasOp(cb.ops, "save_memory")
  <2>1. CASE cb.ops = action_moon \o start_ramping(1)
    <3>1. Ops(cb.ops) = Ops(action_moon) \cup Ops(start_ramping(1))
      BY <1>4, <2>1
    <3> QED BY <1>2, <3>1 DEF HasOp
  <2>2. CASE cb.ops \in {start_ramping(1), start_ramping(-1)}
    BY <1>2, <2>2
  <2> QED BY <1>5, <2>1, <2>2
<1> QED BY <1>5, <1>6 DEF cb

(* Only those callbacks set the flag, only the unlock sets the override,   *)
(* and in a ramp only the release leads to ON.                             *)
LEMMA CallbackLocks ==
    ASSUME NEW msg, msg.type \in MessageTypes
    PROVE  LET cb == CallbackOf(msg)
           IN  /\ \A o \in Ops(cb.ops) : Writes(o, "ramp_active") => o.val = TRUE
               /\ HasOp(cb.ops, "override_floor") =>
                     current_node = "simple_lockout" /\ cb.next = "simple_on"
               /\ ~HasOp(cb.ops, "level_on")
               /\ current_node \in RampNodes =>
                     \/ cb.ops = <<>> /\ cb.next = NULL
                     \/ cb.ops = stop_ramping /\ cb.next = OnNode(current_node)
<1> DEFINE name == CallbackFor(msg)
           cb == CallbackOf(msg)
           Fine(s) == /\ \A o \in Ops(s) : Writes(o, "ramp_active") => o.val = TRUE
                      /\ ~HasOp(s, "override_floor") /\ ~HasOp(s, "level_on")
<1>1. CallbackWhere(name, msg)
  BY WhichCallback
<1>2. RampOn.val = TRUE
  BY DEF RampOn, Set
<1>3. Fine(<<>>) /\ Fine(stop_ramping) /\ Fine(action_off)
  <2>1. \A o \in Ops(<<>>) \cup Ops(stop_ramping) \cup Ops(action_off) :
            ~Writes(o, "ramp_active") /\ o.op \notin {"override_floor", "level_on"}
    BY RoutineOps, OpsShort, Fields, Flags DEF Writes
  <2> QED BY <2>1 DEF HasOp
<1>4. Fine(action_strobe_next) /\ Fine(action_toggle_ramp_style) /\ Fine(action_moon)
  <2>1. \A o \in Ops(action_strobe_next) \cup Ops(action_toggle_ramp_style) \cup Ops(action_moon) :
            ~Writes(o, "ramp_active") /\ o.op \notin {"override_floor", "level_on"}
    BY RoutineOps, Fields, Flags DEF Writes
  <2> QED BY <2>1 DEF HasOp
<1>5. \A mode : Fine(<<Set("mode", mode)>>)
  <2>1. \A mode : \A o \in Ops(<<Set("mode", mode)>>) :
            ~Writes(o, "ramp_active") /\ o.op \notin {"override_floor", "level_on"}
    BY OpsShort, Fields DEF Writes
  <2> QED BY <2>1 DEF HasOp
<1>6. \A dir : Fine(start_ramping(dir))
  <2> TAKE dir
  <2>1. \A o \in Ops(start_ramping(dir)) :
            /\ Writes(o, "ramp_active") => o = RampOn
            /\ o.op \notin {"override_floor", "level_on"}
    BY RoutineOps, Fields, Flags DEF Writes
  <2> QED BY <1>2, <2>1 DEF HasOp
<1>7. Fine(action_moon \o start_ramping(1))
  <2>1. IsSeq(start_ramping(1)) /\ IsSeq(action_moon)
    BY Short DEF start_ramping, action_moon
  <2>2. Ops(action_moon \o start_ramping(1)) = Ops(action_moon) \cup Ops(start_ramping(1))
    BY <2>1, OpsJoin
  <2> QED BY <1>4, <1>6, <2>2 DEF HasOp
<1>8. /\ name = NULL => cb.ops = <<>> /\ cb.next = NULL
      /\ name = "ramp_release" => cb.ops = stop_ramping /\ cb.next = OnNode(current_node)
      /\ name = "unlock_floor" => cb.ops = <<Op("override_floor")>> /\ cb.next = "simple_on"
      /\ name \notin {"unlock_floor"} =>
            \/ cb.ops \in {<<>>, stop_ramping, action_off, action_strobe_next, action_moon,
                           action_toggle_ramp_style, start_ramping(1), start_ramping(-1),
                           action_moon \o start_ramping(1)}
            \/ \E mode : cb.ops = <<Set("mode", mode)>>
  BY <1>1, CallbackOps DEF CallbackOf, CallbackWhere
<1>9. name \in {"unlock_floor"} => current_node = "simple_lockout"
  BY <1>1 DEF CallbackWhere, NULL
<1>10. current_node \in RampNodes => name \in {NULL, "ramp_release"}
  BY <1>1 DEF CallbackWhere, RampNodes, OnNodes, OffNodes, LockoutNodes
<1> HIDE DEF cb, name
<1>11. CASE name = "unlock_floor"
  <2>1. Ops(cb.ops) = {Op("override_floor")}
    BY <1>8, <1>11, OpsShort
  <2>2. \A o \in Ops(cb.ops) : ~Writes(o, "ramp_active") /\ o.op # "level_on"
    BY <2>1, Fields DEF Writes
  <2> QED BY <1>8, <1>9, <1>10, <1>11, <2>2 DEF HasOp, cb, NULL
<1>12. CASE name # "unlock_floor"
  <2>1. Fine(cb.ops)
    <3>1. CASE \E mode : cb.ops = <<Set("mode", mode)>>
      BY <1>5, <3>1
    <3>2. CASE cb.ops \in {<<>>, stop_ramping, action_off}
      BY <1>3, <3>2
    <3>3. CASE cb.ops \in {action_strobe_next, action_moon, action_toggle_ramp_style}
      BY <1>4, <3>3
    <3>4. CASE cb.ops \in {start_ramping(1), start_ramping(-1)}
      BY <1>6, <3>4
    <3>5. CASE cb.ops = action_moon \o start_ramping(1)
      BY <1>7, <3>5
    <3> QED BY <1>8, <1>12, <3>1, <3>2, <3>3, <3>4, <3>5
  <2>2. current_node \in RampNodes => \/ cb.ops = <<>> /\ cb.next = NULL
                                      \/ cb.ops = stop_ramping /\ cb.next = OnNode(current_node)
    BY <1>8, <1>10
  <2> QED BY <2>1, <2>2 DEF cb
<1> QED BY <1>11, <1>12

(* What a call adds to LockInv.                                            *)
LocksWell(h) ==
    LET b == Body(h)
    IN  /\ \A o \in Ops(b) : Writes(o, "ramp_active") => o.val = TRUE
        /\ HasOp(b, "override_floor") =>
              current_node = "simple_lockout" /\ Targets(b) = {"simple_on"}
        /\ HasOp(b, "level_on") => h.op = "action"
        /\ Targets(b) \cap RampNodes # {} /\ h.op # "transition" =>
              h.op = "map" /\ MapsToRamp(h.msg) /\ ~HasOp(b, "save_memory")
        /\ current_node \in RampNodes /\ HasOp(b, "save_memory") =>
              Targets(b) \cap OnNodes # {}
        /\ current_node \in RampNodes /\ Targets(b) \cap OnNodes # {} /\ h.op # "transition" =>
              h.op = "callback" /\ \E node \in OnNodes : b = stop_ramping \o <<transition_to(node)>>

(* What a callback adds.                                                   *)
LEMMA CallbackLocksWell ==
    ASSUME NEW h, h.op = "callback", h.msg.type \in MessageTypes, current_node \in Nodes
    PROVE  LocksWell(h)
<1> DEFINE b == Body(h)
           cb == CallbackOf(h.msg)
           rest == IF cb.next # NULL THEN OpsThen(cb.next)
                   ELSE IF h.msg.type = "HOLD_RELEASE" THEN {} ELSE {lookup("map", h.msg)}
<1>1. Ops(b) = Ops(cb.ops) \cup rest
  BY CallsOps DEF Calls
<1>2. \A o \in rest : ~Writes(o, "ramp_active") /\ o.op \notin {"override_floor", "level_on", "save_memory"}
  BY Fields DEF OpsThen, Writes
<1>3. /\ \A o \in Ops(cb.ops) : Writes(o, "ramp_active") => o.val = TRUE
      /\ HasOp(cb.ops, "override_floor") =>
            current_node = "simple_lockout" /\ cb.next = "simple_on"
      /\ ~HasOp(cb.ops, "level_on")
      /\ current_node \in RampNodes => \/ cb.ops = <<>> /\ cb.next = NULL
                                       \/ cb.ops = stop_ramping /\ cb.next = OnNode(current_node)
  BY CallbackLocks
<1>4. Targets(b) \subseteq {cb.next} \ {NULL} /\ Targets(b) \cap RampNodes = {}
  BY CallbackAdds, CallbackBegins
<1>5. cb.next # NULL => Targets(b) = {cb.next}
  <2>1. cb.next # NULL => transition_to(cb.next) \in Ops(b)
    BY <1>1 DEF OpsThen
  <2> HIDE DEF b, cb
  <2> QED BY <1>4, <2>1, Fields DEF Targets, Leads
<1>6. OnNode(current_node) \in OnNodes /\ OnNode(current_node) # NULL /\ "simple_on" # NULL
  BY DEF OnNode, OnNodes, NULL
<1>7. cb.ops = stop_ramping /\ cb.next = OnNode(current_node) =>
         b = stop_ramping \o <<transition_to(OnNode(current_node))>>
  BY <1>6 DEF Body, TryCallback, CallbackOf, Then
<1>8. ~HasOp(<<>>, "save_memory")
  BY OpsShort DEF HasOp
<1> HIDE DEF b, cb, rest
<1>9. /\ \A o \in Ops(b) : Writes(o, "ramp_active") => o.val = TRUE
      /\ ~HasOp(b, "level_on")
  BY <1>1, <1>2, <1>3 DEF HasOp
<1>10. HasOp(b, "override_floor") =>
          current_node = "simple_lockout" /\ Targets(b) = {"simple_on"}
  BY <1>1, <1>2, <1>3, <1>5, <1>6 DEF HasOp
<1>11. current_node \in RampNodes /\ HasOp(b, "save_memory") => Targets(b) \cap OnNodes # {}
  BY <1>1, <1>2, <1>3, <1>5, <1>6, <1>8 DEF HasOp
<1>12. current_node \in RampNodes /\ Targets(b) \cap OnNodes # {} =>
          \E node \in OnNodes : b = stop_ramping \o <<transition_to(node)>>
  BY <1>3, <1>4, <1>6, <1>7
<1> QED BY <1>4, <1>9, <1>10, <1>11, <1>12 DEF LocksWell, b

(* Only the first hold, or the second in ON, is a ramp.                    *)
LEMMA RampSlots ==
    ASSUME NEW node, NEW n
    PROVE  At(hold_map(node), n) \in RampNodes =>
              \/ n = 1 /\ node \in OnNodes \cup OffNodes
              \/ n = 2 /\ node \in OnNodes
<1> USE DEF At, hold_map, simple_hold_map, adv_hold_map, NULL, RampNodes, OnNodes, OffNodes, SimpleNodes
<1>1. CASE node = "simple_off"
  BY <1>1
<1>2. CASE node = "simple_on"
  BY <1>2
<1>3. CASE node = "adv_off"
  BY <1>3
<1>4. CASE node = "adv_on"
  BY <1>4
<1>5. CASE node \in {"adv_battcheck", "adv_tempcheck"}
  BY <1>5
<1>6. CASE node \notin {"simple_off", "simple_on", "adv_off", "adv_on", "adv_battcheck",
                        "adv_tempcheck"}
  BY <1>6
<1> QED BY <1>1, <1>2, <1>3, <1>4, <1>5, <1>6

(* What a map adds: only such a hold leads to a ramp.                      *)
LEMMA MapLocksWell ==
    ASSUME NEW h, h.op = "map", h.msg.type \in MessageTypes, h.msg.type # "HOLD_RELEASE",
           current_node \in Nodes
    PROVE  LocksWell(h)
<1> DEFINE b == Body(h)
           node == MapFor(h.msg)
           any == AnyClick(h.msg)
<1>1. /\ \A o \in Ops(any.ops) : o = Stop("buzz") \/ Writes(o, "floor") \/ Writes(o, "ceiling")
      /\ any.next # NULL => any.next \notin RampNodes
      /\ current_node \in RampNodes => any.next = NULL
  <2>1. /\ current_node \notin MenuNodes => any.ops = <<>> /\ any.next = NULL
        /\ current_node \in MenuNodes =>
              /\ any.next \notin RampNodes
              /\ \/ any.ops = <<Stop("buzz")>> \o <<>>
                 \/ \E n : any.ops = <<Stop("buzz")>> \o <<Set("floor", n)>>
                 \/ \E n : any.ops = <<Stop("buzz")>> \o <<Set("ceiling", n)>>
    BY MenuOps DEF AnyClick, RampNodes
  <2>2. \A v, n : Ops(<<Stop("buzz")>> \o <<Set(v, n)>>) = {Stop("buzz"), Set(v, n)}
    <3> TAKE v, n
    <3>1. <<Stop("buzz")>> \o <<Set(v, n)>> = <<Stop("buzz"), Set(v, n)>>
      BY JoinTwo
    <3> QED BY <3>1, OpsShort
  <2>3. Ops(<<Stop("buzz")>> \o <<>>) = {Stop("buzz")}
    BY JoinShort, Short, OpsShort
  <2>4. current_node \in RampNodes => current_node \notin MenuNodes
    BY DEF RampNodes, MenuNodes
  <2> HIDE DEF any
  <2>5. \A o \in Ops(any.ops) : o = Stop("buzz") \/ Writes(o, "floor") \/ Writes(o, "ceiling")
    <3>1. CASE current_node \notin MenuNodes
      BY <2>1, <3>1, OpsShort
    <3>2. CASE any.ops = <<Stop("buzz")>> \o <<>>
      BY <2>3, <3>2
    <3>3. ASSUME NEW n, any.ops = <<Stop("buzz")>> \o <<Set("floor", n)>>
          PROVE  \A o \in Ops(any.ops) : o = Stop("buzz") \/ Writes(o, "floor")
      BY <2>2, <3>3, Fields DEF Writes
    <3>4. ASSUME NEW n, any.ops = <<Stop("buzz")>> \o <<Set("ceiling", n)>>
          PROVE  \A o \in Ops(any.ops) : o = Stop("buzz") \/ Writes(o, "ceiling")
      BY <2>2, <3>4, Fields DEF Writes
    <3> QED BY <2>1, <3>1, <3>2, <3>3, <3>4
  <2>6. NULL \notin RampNodes
    BY DEF RampNodes, NULL
  <2> QED BY <2>1, <2>4, <2>5, <2>6
<1>2. Targets(b) \subseteq {node, any.next} \ {NULL}
  BY MapAdds
<1>3. node \in RampNodes => MapsToRamp(h.msg)
  <2>1. node \in RampNodes => h.msg.type = "HOLD_START"
    BY MapTable DEF MessageTypes
  <2>2. h.msg.type = "HOLD_START" => node = At(hold_map(current_node), h.msg.count)
    BY DEF MapFor
  <2> HIDE DEF node
  <2> QED BY <2>1, <2>2, RampSlots DEF MapsToRamp
<1>4. current_node \in RampNodes => node \notin OnNodes
  BY DEF MapFor, At, click_map, hold_map, simple_click_map, adv_click_map, RampNodes, OnNodes,
         SimpleNodes, simple_hold_map, adv_hold_map, NULL
<1>5. \A o \in Ops(b) : \/ o \in Ops(any.ops)
                         \/ o.op = "transition"
  BY CallsOps, Fields DEF OpsThen
<1> HIDE DEF b, node, any
<1>6. \A o \in Ops(b) : /\ ~Writes(o, "ramp_active")
                        /\ o.op \notin {"override_floor", "level_on", "save_memory"}
  BY <1>1, <1>5, Fields DEF Writes
<1>7. Targets(b) \cap RampNodes # {} => MapsToRamp(h.msg)
  BY <1>1, <1>2, <1>3
<1>8. current_node \in RampNodes => Targets(b) \cap OnNodes = {}
  BY <1>1, <1>2, <1>4
<1> QED BY <1>6, <1>7, <1>8 DEF LocksWell, HasOp, b

(* What any call adds.                                                     *)
LEMMA CallLocksWell ==
    ASSUME NEW h, h.op \in Calls, MsgWell(h),
           h.op # "transition" => current_node \in Nodes
    PROVE  LocksWell(h)
<1> DEFINE b == Body(h)
<1>1. CASE h.op = "transition"
  <2>1. Ops(b) = {Stop("inactivity"), Enter(h.node), Op("action"), Op("arm")}
    BY <1>1, CallsOps
  <2>2. \A o \in Ops(b) : /\ ~Writes(o, "ramp_active")
                          /\ o.op \notin {"override_floor", "level_on", "save_memory"}
    BY <2>1, Fields DEF Writes
  <2> HIDE DEF b
  <2> QED BY <1>1, <2>2 DEF HasOp, LocksWell, b
<1>2. CASE h.op = "reset"
  <2>1. Ops(b) \subseteq {Start("inactivity")} /\ Targets(b) = {}
    BY <1>2, CallsOps, CallAdds
  <2>2. \A o \in Ops(b) : o.op = "start"
    BY <2>1, Fields
  <2> HIDE DEF b
  <2> QED BY <1>2, <2>1, <2>2 DEF HasOp, Writes, LocksWell, b
<1>3. CASE h.op = "action"
  <2>1. b = Action(action_routine(current_node)) /\ Targets(b) = {}
    BY <1>3, CallsOps, CallAdds
  <2>2. \A o \in Ops(b) : ~Writes(o, "ramp_active")
    BY <1>3, <2>1, RoutineTable
  <2>3. \A o \in Ops(b) : o.op # "override_floor"
    <3>1. b \in {action_off, action_on, <<>>, action_lockout, action_turbo, action_battcheck,
                 action_factory_reset, action_strobe, action_aux_config, action_config_floor}
      BY <1>3, <2>1, ActionOps, NodeKinds
    <3> HIDE DEF b
    <3> QED BY <3>1, RoutineOps, NotActing, Fields, Flags
  <2>4. current_node \in RampNodes => Ops(b) = {}
    BY <1>3, CallBegins DEF Calls
  <2> HIDE DEF b
  <2> QED BY <1>3, <2>1, <2>2, <2>3, <2>4 DEF HasOp, LocksWell, b
<1> QED BY <1>1, <1>2, <1>3, CallbackLocksWell, MapLocksWell DEF Calls, MsgWell, LookupOps

(* What one statement does to what the release relies on.                  *)
LEMMA LockExec ==
    ASSUME NavInv, DOMAIN ui = UiFields, NEW o, SetWell(o), Execute(o),
           Writes(o, "ramp_active") => o.val = TRUE
    PROVE  /\ ui.ramp_active = TRUE /\ o.op # "save_memory" => ui'.ramp_active = TRUE
           /\ Writes(o, "ramp_active") => ui'.ramp_active = TRUE
           /\ /\ o.op = "save_memory" /\ ui.ramp_active = TRUE /\ timer["ramp"] = "stopped"
              => Locked'
           /\ /\ Locked /\ ~BeginsRamp(o) /\ ~Writes(o, "active_param") /\ o.op \notin LevelOps
              => Locked'
<1>0. "ramp_active" \in SetFields /\ (o.op = "set" => o.var \in SetFields)
  BY DEF SetFields, SetWell
<1>1. /\ ~Writes(o, "ramp_active") /\ o.op # "save_memory" => ui'.ramp_active = ui.ramp_active
      /\ Writes(o, "ramp_active") => ui'.ramp_active = o.val
      /\ ~Writes(o, "active_param") => ui'.active_param = ui.active_param
      /\ o.op = "save_memory" => ui'.ramp_active = FALSE
      /\ o.op \notin LevelOps => ui'.brightness = ui.brightness
      /\ o.op # "save_memory" => ui'.memorized = ui.memorized
      /\ o.op = "save_memory" =>
            ui'.memorized = ui.memorized \/ (ui.ramp_active /\ ui'.memorized = ui.brightness)
  BY <1>0, UiExec
<1>2. ui.ramp_active = TRUE /\ o.op # "save_memory" => ui'.ramp_active = TRUE
  <2>1. CASE Writes(o, "ramp_active")
    BY <1>1, <2>1
  <2>2. CASE ~Writes(o, "ramp_active")
    BY <1>1, <2>2
  <2> QED BY <2>1, <2>2
<1>3. ASSUME o.op = "save_memory", ui.ramp_active = TRUE, timer["ramp"] = "stopped" PROVE Locked'
  <2>1. ui' = SaveMemory /\ timer' = timer
    BY <1>3 DEF Execute, UiAfter, TimerAfter
  <2>2. ui.active_param = "BRIGHTNESS" => ui'.memorized = ui.brightness
    BY <1>3, <2>1 DEF SaveMemory, UiFields
  <2>3. ui'.brightness = ui.brightness /\ ui'.active_param = ui.active_param
    BY <1>1, <1>3 DEF LevelOps, Writes
  <2> QED BY <1>1, <1>3, <2>1, <2>2, <2>3 DEF Locked
<1>4. ASSUME Locked, ~BeginsRamp(o), ~Writes(o, "active_param"), o.op \notin LevelOps
      PROVE  Locked'
  <2>1. ui'.brightness = ui.brightness /\ ui'.active_param = ui.active_param
    BY <1>1, <1>4
  <2>2. ui'.ramp_active = FALSE /\ ui'.memorized = ui.memorized
    BY <1>1, <1>4 DEF Locked, BeginsRamp
  <2>3. timer'["ramp"] = "stopped"
    BY <1>4, TimerExec DEF Locked, BeginsRamp, Timers
  <2> QED BY <1>4, <2>1, <2>2, <2>3 DEF Locked
<1> QED BY <1>1, <1>2, <1>3, <1>4

-----------------------------------------------------------------------------
(* The override.                                                           *)

(* OneShot when the worker calls.                                          *)
LEMMA OneShotWorkerCalls == ASSUME MenuCore, OneShot, WorkerCalls PROVE OneShot'
<1> DEFINE h == Head(todo)
           t == Tail(todo)
           b == Body(h)
<1>0. /\ h \in Ops(todo) /\ h.op \in Calls /\ UNCHANGED <<current_node, previous_node, ui>>
      /\ Ops(todo) = {h} \cup Ops(t) /\ Ops(todo') = Ops(b) \cup Ops(t)
      /\ ~Acting(todo') /\ isr = <<>> /\ isr' = <<>>
      /\ h.op = "action" => Ops(t) \subseteq {Op("arm")}
      /\ h.op # "action" => ~Acting(todo)
      /\ h.op \in {"callback", "map", "transition"} => Ops(t) = {}
      /\ h.op = "reset" => Ops(t) = {lookup("callback", h.msg)}
      /\ h.op # "transition" => current_node \in Nodes
  BY MenuParts, WorkerCallsOps
<1>01. LocksWell(h)
  BY <1>0, MenuParts, CallLocksWell DEF MsgInv
<1>02. Targets(todo') = Targets(b) \cup Targets(t)
  BY <1>0, Joined
<1>03. \A o \in Ops(t) : o.op \in {"arm", "callback"}
  BY <1>0, Fields DEF Calls
<1>04. Targets(t) = {}
  BY <1>03 DEF Targets, Leads
<1>05. h.op # "transition" => Targets(todo) = {}
  <2>1. h.op # "transition" => ~Leads(h)
    BY <1>0 DEF Leads, Calls
  <2> QED BY <1>0, <1>04, <2>1, Unrolled
<1>06. h.op = "transition" => Targets(b) = {h.node} /\ h.node \in Targets(todo)
  <2>1. h.op = "transition" => Targets(b) = {h.node}
    BY CallBegins DEF Calls
  <2> QED BY <1>0, <2>1, Unrolled DEF Leads
<1> HIDE DEF t, b
<1>1. ~HasOp(isr', "override_floor")
  BY <1>0, NotActing DEF HasOp
<1>2. ASSUME HasOp(todo', "override_floor")
      PROVE  current_node = "simple_lockout" /\ Targets(todo') = {"simple_on"}
  <2>1. HasOp(b, "override_floor")
    BY <1>0, <1>03, <1>2 DEF HasOp
  <2>2. current_node = "simple_lockout" /\ Targets(b) = {"simple_on"}
    BY <1>01, <2>1 DEF LocksWell, b
  <2> QED BY <1>02, <1>04, <2>2
<1>3. ASSUME ui.override # 0, ~HasOp(todo', "override_floor")
      PROVE  \/ current_node = "simple_lockout" /\ Targets(todo') = {"simple_on"}
             \/ /\ current_node = "simple_on" /\ previous_node \notin RampNodes
                /\ Choosing'
  <2>1. CASE current_node = "simple_lockout" /\ Targets(todo) = {"simple_on"}
    BY <1>02, <1>04, <1>05, <1>06, <2>1
  <2>2. CASE current_node = "simple_on" /\ previous_node \notin RampNodes /\ Choosing
    <3>1. h.op = "action"
      BY <1>0, <1>03, <2>2 DEF Choosing, HasOp, Calls
    <3>2. HasOp(b, "level_on")
      <4>1. b = Action(action_routine(current_node))
        BY <3>1, CallsOps DEF b
      <4> QED BY <1>0, <2>2, <3>1, <4>1, RoutineTable DEF OnNodes
    <3>3. HasOp(todo', "level_on")
      BY <1>0, <3>2 DEF HasOp
    <3> QED BY <2>2, <3>3 DEF Choosing
  <2> QED BY <1>3, <2>1, <2>2 DEF OneShot
<1> QED BY <1>0, <1>1, <1>2, <1>3 DEF OneShot

(* OneShot when the worker executes a statement.                           *)
LEMMA OneShotWorkerExecutes == ASSUME MenuCore, OneShot, WorkerExecutes PROVE OneShot'
<1> DEFINE h == Head(todo)
<1>0. /\ h \in Ops(todo) /\ Execute(h) /\ Ops(todo) = {h} \cup Ops(todo') /\ ~Acting(todo)
      /\ isr' = <<>>
      /\ h.op \in PlainOps \cup {"enter", "go_home", "arm"}
      /\ Acting(todo') <=> h.op \in {"enter", "go_home"}
      /\ h.op \in {"enter", "go_home"} => Ops(todo') \subseteq {Op("action"), Op("arm")}
      /\ h.op = "enter" => current_node' = h.node
      /\ h.op \notin {"enter", "go_home"} => UNCHANGED current_node
  BY MenuParts, WorkerExecutesOps
<1>01. todo # <<>> /\ h.op \notin Calls
  BY DEF WorkerExecutes
<1>02. SetWell(h)
  BY <1>0, MenuParts DEF FlagInv
<1> HIDE DEF h
<1>03. /\ h.op = "enter" => previous_node' = current_node
       /\ h.op # "enter" => previous_node' = previous_node
  BY <1>0, NodesAfter
<1>04. /\ h.op # "enter" => Targets(todo') = Targets(todo)
       /\ h.op = "enter" => h.node \in Targets(todo)
  BY <1>0, <1>01, Unrolled DEF Leads, Calls
<1>05. h.op \in {"enter", "go_home"} => \A o \in Ops(todo') : o.op \in {"action", "arm"}
  BY <1>0, Fields
<1>06. h.op \in {"enter", "go_home"} => Targets(todo') = {}
  BY <1>05 DEF Targets, Leads
<1>07. /\ h.op \notin {"override_floor", "level_on"} => ui'.override = ui.override
       /\ h.op = "level_on" => ui'.override = 0
  BY <1>0, <1>02, MenuParts, UiExec DEF SetWell
<1>1. ~HasOp(isr', "override_floor")
  BY <1>0, NotActing DEF HasOp
<1> SUFFICES ASSUME ui'.override # 0 \/ HasOp(todo', "override_floor")
             PROVE  \/ current_node' = "simple_lockout" /\ Targets(todo') = {"simple_on"}
                    \/ /\ current_node' = "simple_on" /\ previous_node' \notin RampNodes
                       /\ Choosing' /\ ~HasOp(todo', "override_floor")
  BY <1>1 DEF OneShot
<1>2. ui.override # 0 \/ HasOp(todo, "override_floor")
  BY <1>0, <1>07 DEF HasOp
<1>3. CASE current_node = "simple_lockout" /\ Targets(todo) = {"simple_on"}
  <2>1. h.op # "go_home"
    BY <1>04, <1>06, <1>3
  <2>2. CASE h.op = "enter"
    <3>1. current_node' = "simple_on" /\ previous_node' = "simple_lockout"
      BY <1>0, <1>03, <1>04, <1>3, <2>2
    <3>2. Choosing' /\ ~HasOp(todo', "override_floor")
      BY <1>0, <1>05, <2>2 DEF Choosing, HasOp
    <3> QED BY <3>1, <3>2 DEF RampNodes
  <2>3. CASE h.op # "enter"
    BY <1>0, <1>04, <1>3, <2>1, <2>3
  <2> QED BY <2>2, <2>3
<1>4. CASE /\ current_node = "simple_on" /\ previous_node \notin RampNodes
           /\ Choosing /\ ~HasOp(todo, "override_floor")
  <2>1. HasOp(todo, "level_on") /\ ~HasOp(todo', "override_floor")
    BY <1>0, <1>4 DEF Choosing, HasOp
  <2>2. h.op # "level_on"
    BY <1>07, <2>1
  <2>3. HasOp(todo', "level_on")
    BY <1>0, <2>1, <2>2 DEF HasOp
  <2>4. h.op \notin {"enter", "go_home"}
    BY <1>05, <2>3 DEF HasOp
  <2> QED BY <1>0, <1>03, <1>4, <2>1, <2>3, <2>4 DEF Choosing
<1> QED BY <1>2, <1>3, <1>4 DEF OneShot

(* The handler finds no override: it runs in neither of the two nodes.     *)
LEMMA OneShotAlone ==
    ASSUME NavInv, OneShot, isr # <<>> \/ timer["inactivity"] # "stopped"
    PROVE  ui.override = 0 /\ ~HasOp(todo, "override_floor")
<1>1. current_node \in MayRun /\ "simple_on" \notin MayRun
  BY HandlersNode
<1>2. "simple_lockout" \notin MayRun
  BY DEF MayRun, TimedNodes, timeout_node, NavInv, NodeInv, OffNodes, NULL
<1> QED BY <1>1, <1>2 DEF OneShot

(* OneShot when the inactivity handler runs.                               *)
LEMMA OneShotHandler ==
    ASSUME MenuCore, OneShot, inactivity_timer_handler \/ IsrCalls \/ IsrExecutes
    PROVE  OneShot'
<1>1. ui.override = 0 /\ ~HasOp(todo, "override_floor") /\ todo' = todo
  BY MenuParts, OneShotAlone DEF inactivity_timer_handler, IsrCalls, IsrExecutes
<1>2. CASE inactivity_timer_handler
  <2>1. PICK node : Ops(isr') = {transition_to(node)} /\ ui' = ui
    BY <1>2, MenuParts, HandlerOps
  <2> QED BY <1>1, <2>1, Fields DEF OneShot, HasOp
<1>3. CASE IsrCalls
  <2> DEFINE h == Head(isr)
  <2>1. /\ ui' = ui /\ current_node \in MayRun /\ h.op \in {"transition", "action"}
        /\ current_node \in Nodes /\ h \in Ops(isr)
        /\ Ops(isr) = {h} \cup Ops(Tail(isr)) /\ Ops(isr') = Ops(Body(h)) \cup Ops(Tail(isr))
    BY <1>3, MenuParts, IsrCallsOps, HandlersNode
  <2>2. MsgWell(h)
    BY <2>1 DEF MsgWell, LookupOps
  <2>3. LocksWell(h) /\ "simple_lockout" \notin MayRun
    <3>1. "simple_lockout" \notin MayRun
      BY MenuParts DEF MayRun, TimedNodes, timeout_node, NavInv, NodeInv, OffNodes, NULL
    <3> QED BY <2>1, <2>2, <3>1, CallLocksWell DEF Calls
  <2>4. ~HasOp(Body(h), "override_floor")
    BY <2>1, <2>3 DEF LocksWell
  <2> QED BY <1>1, <2>1, <2>4 DEF OneShot, HasOp
<1>4. CASE IsrExecutes
  <2> DEFINE h == Head(isr)
  <2>1. h \in Ops(isr) /\ Execute(h) /\ Ops(isr) = {h} \cup Ops(isr')
    BY <1>4, MenuParts, IsrExecutesOps
  <2>2. ui'.override = 0
    <3>1. SetWell(h) /\ h.op # "override_floor"
      BY <2>1, MenuParts DEF FlagInv, OneShot, HasOp
    <3> QED BY <1>1, <2>1, <3>1, MenuParts, UiExec DEF SetWell
  <2> QED BY <1>1, <2>1, <2>2 DEF OneShot, HasOp
<1> QED BY <1>2, <1>3, <1>4

(* OneShot is inductive.                                                   *)
LEMMA OneShotStep == ASSUME MenuCore, OneShot, [Next]_vars PROVE OneShot'
<1>1. CASE Tap \/ HoldStart \/ HoldRelease \/ Shutdown
  <2>1. /\ todo = <<>> /\ isr = <<>> /\ isr' = <<>> /\ UNCHANGED <<current_node, previous_node, ui>>
        /\ \/ \E msg : Ops(todo') = {lookup("reset", msg), lookup("callback", msg)}
           \/ Ops(todo') = {Emergency, Stop("inactivity"), Op("go_home"), Op("action")}
    BY <1>1, MenuParts, Inputs DEF Taken
  <2>2. ui.override = 0
    BY <2>1, AtEnd, NotActing DEF OneShot, Choosing, HasOp
  <2>3. \A o \in Ops(todo') : o.op # "override_floor"
    BY <2>1, Fields, Flags
  <2> QED BY <2>1, <2>2, <2>3, NotActing DEF OneShot, HasOp
<1>2. CASE WorkerReboots \/ WorkerCrashes \/ IsrCrashes
  <2>1. PICK flash : /\ Reboot(flash) /\ flash.mode \in Modes
                     /\ DOMAIN flash = {"mode", "memorized", "floor", "ceiling", "style"}
    BY <1>2, MenuParts, Reboots
  <2>2. PICK home \in OffNodes :
          Ops(todo') = {transition_to(home)} /\ Ops(isr') = {} /\ ui' = BootUi(flash)
    BY <2>1, Rebooted
  <2>3. ui'.override = 0
    BY <2>1, <2>2, UiBoot
  <2> QED BY <2>2, <2>3, Fields DEF OneShot, HasOp
<1>3. CASE Ticks
  <2>1. ui'.override = ui.override /\ UNCHANGED <<current_node, previous_node, todo, isr>>
    BY <1>3, MenuParts, UiTicks DEF FlagInv
  <2> QED BY <2>1 DEF OneShot, Choosing
<1>4. CASE InactivityPasses \/ UNCHANGED vars
  BY <1>4 DEF InactivityPasses, vars, OneShot, Choosing
<1> QED BY <1>1, <1>2, <1>3, <1>4, OneShotWorkerCalls, OneShotWorkerExecutes, OneShotHandler
        DEF Next, Ticks

-----------------------------------------------------------------------------
(* The release.                                                            *)

(* The heads of the rests of action_on.                                    *)
LEMMA SevenHeads ==
    \A a, b, c, d, e, f, g :
        /\ Head(<<a, b, c, d, e, f, g>>) = a /\ Head(<<a, b, c, d, e, f>>) = a
        /\ Head(<<a, b, c, d, e>>) = a /\ Head(<<a, b, c, d>>) = a /\ Head(<<a, b, c>>) = a
        /\ Head(<<a, b>>) = a
OBVIOUS

(* LockInv when the worker calls.                                          *)
LEMMA LockWorkerCalls == ASSUME LockCore, WorkerCalls PROVE LockInv'
<1> DEFINE h == Head(todo)
           t == Tail(todo)
           b == Body(h)
<1>0. /\ h \in Ops(todo) /\ h.op \in Calls /\ UNCHANGED <<current_node, previous_node, timer, ui, holding>>
      /\ Ops(todo) = {h} \cup Ops(t) /\ Ops(todo') = Ops(b) \cup Ops(t)
      /\ ~Acting(todo') /\ isr = <<>> /\ isr' = <<>>
      /\ h.op = "action" => Ops(t) \subseteq {Op("arm")}
      /\ h.op # "action" => ~Acting(todo)
      /\ h.op \in {"callback", "map", "transition"} => t = <<>> /\ Ops(t) = {}
      /\ h.op = "reset" => Ops(t) = {lookup("callback", h.msg)}
      /\ h.op # "transition" => current_node \in Nodes
      /\ h.op = "callback" => h.msg.type \in MessageTypes
  BY LockParts, WorkerCallsOps
<1>01. todo' = b \o t /\ IsSeq(b)
  BY <1>0, Bodies DEF WorkerCalls, IsBody
<1>02. LocksWell(h)
  BY <1>0, LockParts, CallLocksWell DEF MsgInv
<1>03. Targets(todo') = Targets(b) \cup Targets(t) /\ Targets(t) \subseteq Targets(todo)
  BY <1>0, Joined, Unrolled
<1>04. \A o \in Ops(t) : o.op \in {"arm", "callback"}
  BY <1>0, Fields DEF Calls
<1>05. Targets(t) = {}
  BY <1>04 DEF Targets, Leads
<1>06. h.op # "transition" => Targets(todo) = {}
  <2>1. h.op # "transition" => ~Leads(h)
    BY <1>0 DEF Leads, Calls
  <2> QED BY <1>0, <1>05, <2>1, Unrolled
<1>07. h.op = "transition" => Targets(b) = {h.node} /\ h.node \in Targets(todo)
  <2>1. h.op = "transition" => Targets(b) = {h.node}
    BY CallBegins DEF Calls
  <2> QED BY <1>0, <2>1, Unrolled DEF Leads
<1>08. LockInv
  BY DEF LockCore
<1> HIDE DEF t, b
<1>1. WayIn'
  <2>1. \A o \in Ops(todo') : Writes(o, "ramp_active") => o.val = TRUE
    BY <1>0, <1>02, <1>08 DEF LockInv, WayIn, LocksWell, b
  <2>2. ASSUME NEW o \in Ops(todo'), o.op = "map", MapsToRamp(o.msg)
        PROVE  RampOn \in Ops(todo') /\ ~HasOp(todo', "save_memory")
    <3>1. h.op = "callback" /\ o = lookup("map", h.msg)
      <4>1. o \in Ops(b)
        BY <1>0, <1>04, <2>2
      <4> QED BY <1>0, <2>2, <4>1, CallBegins DEF LookupOps, b
    <3>2. MapsToRamp(h.msg) /\ h.msg.type # "HOLD_RELEASE"
      <4>1. MapsToRamp(h.msg)
        BY <2>2, <3>1, Fields
      <4> QED BY <4>1 DEF MapsToRamp
    <3> DEFINE cb == CallbackOf(h.msg)
    <3>3. cb.next = NULL /\ RampOn \in Ops(cb.ops) /\ ~HasOp(cb.ops, "save_memory")
      BY <3>2, RampCallback
    <3>4. Ops(b) = Ops(cb.ops) \cup {lookup("map", h.msg)}
      BY <1>0, <3>1, <3>2, <3>3, CallsOps DEF b
    <3> HIDE DEF cb
    <3>5. lookup("map", h.msg).op = "map"
      BY Fields
    <3> QED BY <1>0, <3>1, <3>3, <3>4, <3>5 DEF HasOp
  <2>3. ASSUME Targets(todo') \cap RampNodes # {}
        PROVE  holding /\ ui.ramp_active = TRUE /\ ~HasOp(todo', "save_memory")
    <3>1. CASE h.op = "transition"
      <4>1. holding /\ ui.ramp_active = TRUE
        BY <1>03, <1>05, <1>07, <1>08, <2>3, <3>1 DEF LockInv, WayIn
      <4>2. Ops(todo') = {Stop("inactivity"), Enter(h.node), Op("action"), Op("arm")}
        BY <1>0, <3>1, CallsOps DEF b
      <4>3. ~HasOp(todo', "save_memory")
        BY <4>2, Fields DEF HasOp
      <4> QED BY <4>1, <4>3
    <3>2. CASE h.op # "transition"
      <4>1. h.op = "map" /\ MapsToRamp(h.msg) /\ ~HasOp(b, "save_memory")
        BY <1>02, <1>03, <1>05, <2>3, <3>2 DEF LocksWell, b
      <4>2. Ops(todo) = {h} /\ Ops(todo') = Ops(b)
        BY <1>0, <4>1
      <4>3. RampOn \notin Ops(todo)
        BY <4>1, <4>2, Flags
      <4>4. ui.ramp_active = TRUE
        BY <1>0, <1>08, <4>1, <4>3 DEF LockInv, WayIn
      <4>5. holding
        BY <1>0, <4>1, LockParts DEF MsgInv, MsgWell, LookupOps, MapsToRamp
      <4> QED BY <4>1, <4>2, <4>4, <4>5 DEF HasOp
    <3> QED BY <3>1, <3>2
  <2>4. \A o : MapsToRamp(o.msg)' <=> MapsToRamp(o.msg)
    BY <1>0 DEF MapsToRamp
  <2> QED BY <1>0, <2>1, <2>2, <2>3, <2>4 DEF WayIn
<1>2. InRamp'
  <2> SUFFICES ASSUME current_node \in RampNodes
               PROVE  /\ Targets(todo') = {} /\ ~HasOp(todo', "go_home") => ui.ramp_active = TRUE
                      /\ HasOp(todo', "save_memory") => Targets(todo') \cap OnNodes # {}
    BY <1>0 DEF InRamp
  <2>1. ASSUME Targets(todo') = {}, ~HasOp(todo', "go_home") PROVE ui.ramp_active = TRUE
    <3>1. Targets(todo) = {}
      BY <1>03, <1>06, <1>07, <2>1
    <3>2. ~HasOp(todo, "go_home")
      BY <1>0, <2>1 DEF HasOp, Calls
    <3> QED BY <1>08, <3>1, <3>2 DEF LockInv, InRamp
  <2>2. ASSUME HasOp(todo', "save_memory") PROVE Targets(todo') \cap OnNodes # {}
    <3>1. HasOp(b, "save_memory")
      BY <1>0, <1>04, <2>2 DEF HasOp
    <3> QED BY <1>02, <1>03, <3>1 DEF LocksWell, b
  <2> QED BY <2>1, <2>2
<1>3. WayOut'
  <2> SUFFICES ASSUME current_node \in RampNodes, Targets(todo') \cap OnNodes # {}
               PROVE  \E node \in OnNodes : Releasing(node)'
    BY <1>0 DEF WayOut
  <2>1. Targets(b) \cap OnNodes # {}
    BY <1>03, <1>05
  <2>2. CASE h.op = "transition"
    <3>1. PICK node \in OnNodes : Releasing(node)
      BY <1>07, <1>08, <2>1, <2>2 DEF LockInv, WayOut
    <3>2. Head(todo).op = "transition" /\ todo # <<>>
      BY <2>2 DEF WorkerCalls, h
    <3>3. \A n : Head(stop_ramping \o <<transition_to(n)>>) = Stop("ramp")
      BY TailJoin, Short DEF stop_ramping
    <3>4. todo = <<transition_to(node)>> /\ Locked
      <4>1. todo # stop_ramping \o <<transition_to(node)>>
        BY <3>2, <3>3, Fields
      <4>2. todo # <<Op("save_memory"), transition_to(node)>>
        BY <3>2, Short, Fields
      <4>3. todo # fsm_transition_to(node) /\ todo # Entering(node)
        BY <3>2, Short, Fields DEF fsm_transition_to, Entering
      <4> QED BY <3>1, <4>1, <4>2, <4>3 DEF Releasing
    <3>5. h = transition_to(node) /\ t = <<>>
      BY <3>4, Short DEF h, t
    <3>6. todo' = fsm_transition_to(node)
      <4>1. b = fsm_transition_to(node)
        BY <3>5, Fields DEF Body, b
      <4> QED BY <1>01, <3>5, <4>1, JoinShort
    <3>7. Locked'
      BY <1>0, <3>4 DEF Locked
    <3> QED BY <3>6, <3>7 DEF Releasing
  <2>3. CASE h.op # "transition"
    <3>1. h.op = "callback" /\ \E node \in OnNodes : b = stop_ramping \o <<transition_to(node)>>
      BY <1>02, <2>1, <2>3 DEF LocksWell, b
    <3>2. PICK node \in OnNodes : todo' = stop_ramping \o <<transition_to(node)>>
      BY <1>0, <1>01, <3>1, JoinShort
    <3>3. Ops(todo) = {h}
      BY <1>0, <3>1
    <3>4. ~HasOp(todo, "go_home")
      BY <3>1, <3>3 DEF HasOp
    <3>5. ui.ramp_active = TRUE
      BY <1>06, <1>08, <2>3, <3>4 DEF LockInv, InRamp
    <3> QED BY <1>0, <3>2, <3>5 DEF Releasing
  <2> QED BY <2>2, <2>3
<1>4. Kept'
  <2> SUFFICES ASSUME current_node \in OnNodes, previous_node \in RampNodes, Choosing'
               PROVE  /\ todo' \in Choices /\ Locked /\ ui.override = 0
                      /\ isr' = <<>> /\ timer["inactivity"] = "stopped"
    BY <1>0 DEF Kept, Locked
  <2>1. h.op = "action"
    BY <1>0, <1>02, <1>04 DEF Choosing, HasOp, LocksWell, b
  <2>2. Choosing
    BY <2>1, LockParts, WorkerCallsOps DEF Choosing, h
  <2>3. /\ Locked /\ ui.override = 0 /\ timer["inactivity"] = "stopped"
        /\ todo \in Choices
    BY <1>08, <2>2 DEF LockInv, Kept
  <2>4. b = action_on
    BY <1>0, <2>1, CallsOps, ActionOps DEF b
  <2>5. t = <<Op("arm")>>
    <3>1. todo = <<Op("action"), Op("arm")>>
      <4>1. Head(todo).op = "action"
        BY <2>1
      <4>2. Resume.op # "action" /\ Start("thermal").op # "action" /\ Stop("ramp").op # "action"
        BY Fields, Flags
      <4>3. Op("save_memory").op # "action" /\ Op("level_on").op # "action"
        BY Fields
      <4> QED BY <2>3, <4>1, <4>2, <4>3, SevenHeads DEF Choices
    <3> QED BY <3>1, Short DEF t
  <2>6. todo' \in Choices
    BY <1>01, <2>4, <2>5, OnStatements DEF Choices
  <2> QED BY <1>0, <2>3, <2>6
<1> QED BY <1>1, <1>2, <1>3, <1>4 DEF LockInv

(* LockInv when the worker executes a statement.                           *)
LEMMA LockWorkerExecutes ==
    ASSUME LockCore, WorkerExecutes PROVE LockInv'
<1> DEFINE h == Head(todo)
           t == Tail(todo)
<1>0. /\ todo' = t /\ h \in Ops(todo) /\ Execute(h) /\ Ops(todo) = {h} \cup Ops(todo') /\ ~Acting(todo)
      /\ isr = <<>> /\ isr' = <<>> /\ holding' = holding
      /\ h.op \in PlainOps \cup {"enter", "go_home", "arm"}
      /\ Acting(todo') <=> h.op \in {"enter", "go_home"}
      /\ h.op \in {"enter", "go_home"} => Ops(todo') \subseteq {Op("action"), Op("arm")}
      /\ h.op = "enter" => current_node' = h.node
      /\ h.op = "go_home" => current_node' = home_node
      /\ h.op \notin {"enter", "go_home"} => UNCHANGED current_node
  BY LockParts, WorkerExecutesOps
<1>01. todo # <<>> /\ h.op \notin Calls
  BY DEF WorkerExecutes
<1> HIDE DEF h, t
<1>02. /\ h.op = "enter" => previous_node' = current_node
       /\ h.op # "enter" => previous_node' = previous_node
  BY <1>0, NodesAfter
<1>03. LockInv /\ SetWell(h) /\ NavInv /\ DOMAIN ui = UiFields
  BY <1>0, LockParts DEF LockCore, FlagInv
<1>04. Writes(h, "ramp_active") => h.val = TRUE
  BY <1>0, <1>03 DEF LockInv, WayIn
<1>05. /\ h.op # "enter" => Targets(todo') = Targets(todo)
       /\ h.op = "enter" => h.node \in Targets(todo)
       /\ Targets(todo') \subseteq Targets(todo)
  BY <1>0, <1>01, Unrolled DEF Leads, Calls
<1>06. h.op \in {"enter", "go_home"} =>
          \A o \in Ops(todo') : o.op \in {"action", "arm"}
  BY <1>0, Fields
<1>07. h.op \in {"enter", "go_home"} => Targets(todo') = {}
  BY <1>06 DEF Targets, Leads
<1>08. h.op = "enter" => Locked' = Locked /\ ui'.override = ui.override
                         /\ ui'.ramp_active = ui.ramp_active
  <2>1. h.op = "enter" => ui' = ui /\ timer' = timer
    BY <1>0 DEF Execute, UiAfter, TimerAfter
  <2> QED BY <2>1 DEF Locked
<1>09. home_node \in OffNodes
  BY LockParts DEF NavInv, NodeInv
<1>1. WayIn'
  <2>1. \A o \in Ops(todo') : Writes(o, "ramp_active") => o.val = TRUE
    BY <1>0, <1>03 DEF LockInv, WayIn
  <2>2. ASSUME NEW o \in Ops(todo'), o.op = "map", MapsToRamp(o.msg)'
        PROVE  /\ ui'.ramp_active = TRUE \/ RampOn \in Ops(todo')
               /\ ~HasOp(todo', "save_memory")
    <3>1. h.op \notin {"enter", "go_home"}
      BY <1>06, <2>2
    <3>2. MapsToRamp(o.msg)
      BY <1>0, <2>2, <3>1 DEF MapsToRamp
    <3>3. (ui.ramp_active = TRUE \/ RampOn \in Ops(todo)) /\ ~HasOp(todo, "save_memory")
      BY <1>0, <1>03, <2>2, <3>2 DEF LockInv, WayIn
    <3>4. h.op # "save_memory" /\ ~HasOp(todo', "save_memory")
      BY <1>0, <3>3 DEF HasOp
    <3>5. CASE ui.ramp_active = TRUE
      BY <1>0, <1>03, <1>04, <3>4, <3>5, LockExec
    <3>6. CASE RampOn \in Ops(todo')
      BY <3>4, <3>6
    <3>7. CASE h = RampOn
      <4>1. Writes(h, "ramp_active")
        BY <3>7, Flags DEF Writes
      <4> QED BY <1>0, <1>03, <1>04, <3>4, <4>1, LockExec
    <3> QED BY <1>0, <3>3, <3>5, <3>6, <3>7
  <2>3. ASSUME Targets(todo') \cap RampNodes # {}
        PROVE  holding /\ ui'.ramp_active = TRUE /\ ~HasOp(todo', "save_memory")
    <3>1. holding /\ ui.ramp_active = TRUE /\ ~HasOp(todo, "save_memory")
      BY <1>03, <1>05, <2>3 DEF LockInv, WayIn
    <3>2. h.op # "save_memory" /\ ~HasOp(todo', "save_memory")
      BY <1>0, <3>1 DEF HasOp
    <3> QED BY <1>0, <1>03, <1>04, <3>1, <3>2, LockExec
  <2> QED BY <1>0, <2>1, <2>2, <2>3 DEF WayIn
<1>2. InRamp'
  <2> SUFFICES ASSUME current_node' \in RampNodes
               PROVE  /\ Targets(todo') = {} /\ ~HasOp(todo', "go_home") => ui'.ramp_active = TRUE
                      /\ HasOp(todo', "save_memory") => Targets(todo') \cap OnNodes # {}
    BY DEF InRamp
  <2>0. h.op # "go_home"
    BY <1>0, <1>09 DEF RampNodes, OffNodes
  <2>1. CASE h.op = "enter"
    <3>1. ui.ramp_active = TRUE
      BY <1>0, <1>03, <1>05, <2>1 DEF LockInv, WayIn
    <3>2. ~HasOp(todo', "save_memory")
      BY <1>06, <2>1 DEF HasOp
    <3> QED BY <1>08, <2>1, <3>1, <3>2
  <2>2. CASE h.op # "enter"
    <3>1. current_node \in RampNodes /\ Targets(todo') = Targets(todo)
      BY <1>0, <1>05, <2>0, <2>2
    <3>2. HasOp(todo', "save_memory") => Targets(todo') \cap OnNodes # {}
      BY <1>0, <1>03, <3>1 DEF LockInv, InRamp, HasOp
    <3>3. ASSUME Targets(todo') = {}, ~HasOp(todo', "go_home") PROVE ui'.ramp_active = TRUE
      <4>1. ~HasOp(todo, "save_memory") /\ ~HasOp(todo, "go_home")
        BY <1>0, <1>03, <2>0, <3>1, <3>3 DEF LockInv, InRamp, HasOp
      <4>2. ui.ramp_active = TRUE
        BY <1>03, <3>1, <3>3, <4>1 DEF LockInv, InRamp
      <4>3. h.op # "save_memory"
        BY <1>0, <4>1 DEF HasOp
      <4> QED BY <1>0, <1>03, <1>04, <4>2, <4>3, LockExec
    <3> QED BY <3>2, <3>3
  <2> QED BY <2>1, <2>2
<1>3. WayOut'
  <2> SUFFICES ASSUME current_node' \in RampNodes, Targets(todo') \cap OnNodes # {}
               PROVE  \E node \in OnNodes : Releasing(node)'
    BY DEF WayOut
  <2>1. h.op \notin {"enter", "go_home"}
    BY <1>07
  <2>2. current_node \in RampNodes /\ Targets(todo) \cap OnNodes # {}
    BY <1>0, <1>05, <2>1
  <2>3. PICK node \in OnNodes : Releasing(node)
    BY <1>03, <2>2 DEF LockInv, WayOut
  <2>4. CASE todo = stop_ramping \o <<transition_to(node)>> /\ ui.ramp_active = TRUE
    <3>1. h = Stop("ramp") /\ t = <<Op("save_memory")>> \o <<transition_to(node)>>
      BY <2>4, TailJoin, Short DEF stop_ramping, h, t
    <3>2. todo' = <<Op("save_memory"), transition_to(node)>>
      BY <1>0, <3>1, JoinTwo
    <3>3. timer'["ramp"] = "stopped"
      BY <1>0, <3>1, LockParts, TimerExec, Fields DEF Stops, Timers
    <3>4. h.op # "save_memory"
      BY <3>1, Fields
    <3>5. ui'.ramp_active = TRUE
      BY <1>0, <1>03, <1>04, <2>4, <3>4, LockExec
    <3> QED BY <3>2, <3>3, <3>5 DEF Releasing
  <2>5. CASE /\ todo = <<Op("save_memory"), transition_to(node)>>
             /\ ui.ramp_active = TRUE /\ timer["ramp"] = "stopped"
    <3>1. h = Op("save_memory") /\ todo' = <<transition_to(node)>>
      BY <1>0, <2>5, Short DEF h, t
    <3>2. h.op = "save_memory"
      BY <3>1, Fields
    <3>3. Locked'
      BY <1>0, <1>03, <1>04, <2>5, <3>2, LockExec
    <3> QED BY <3>1, <3>3 DEF Releasing
  <2>6. CASE todo \in {<<transition_to(node)>>, fsm_transition_to(node), Entering(node)} /\ Locked
    <3>1. todo # <<transition_to(node)>>
      BY <1>01, Short, Fields DEF h, Calls
    <3>2. todo # Entering(node)
      BY <2>1, Short, Fields DEF h, Entering
    <3>3. h = Stop("inactivity") /\ todo' = Entering(node)
      <4>1. todo = <<Stop("inactivity"), Enter(node), Op("action"), Op("arm")>>
        BY <2>6, <3>1, <3>2 DEF fsm_transition_to, Enter
      <4>2. h = Stop("inactivity") /\ t = <<Enter(node), Op("action"), Op("arm")>>
        BY <4>1, Short DEF h, t
      <4> QED BY <1>0, <4>2 DEF Entering
    <3>4. ~BeginsRamp(h) /\ ~Writes(h, "active_param") /\ h.op \notin LevelOps
      BY <3>3, Fields DEF BeginsRamp, Starts, Writes, LevelOps
    <3>5. Locked'
      BY <1>0, <1>03, <1>04, <2>6, <3>4, LockExec
    <3> QED BY <3>3, <3>5 DEF Releasing
  <2> QED BY <2>3, <2>4, <2>5, <2>6 DEF Releasing
<1>4. Kept'
  <2> SUFFICES ASSUME current_node' \in OnNodes, previous_node' \in RampNodes, Choosing'
               PROVE  /\ todo' \in Choices /\ Locked' /\ ui'.override = 0
                      /\ isr' = <<>> /\ timer'["inactivity"] = "stopped"
    BY DEF Kept
  <2>0. h.op # "go_home"
    BY <1>0, <1>09 DEF OnNodes, OffNodes
  <2>1. CASE h.op = "enter"
    <3>1. current_node \in RampNodes /\ Targets(todo) \cap OnNodes # {}
      BY <1>0, <1>02, <1>05, <2>1
    <3>2. PICK node \in OnNodes : Releasing(node)
      BY <1>03, <3>1 DEF LockInv, WayOut
    <3>3. Locked /\ todo = Entering(node)
      <4>1. todo # stop_ramping \o <<transition_to(node)>>
        <5>1. Head(stop_ramping \o <<transition_to(node)>>) = Stop("ramp")
          BY TailJoin, Short DEF stop_ramping
        <5> QED BY <2>1, <5>1, Fields DEF h
      <4>2. todo # <<Op("save_memory"), transition_to(node)>> /\ todo # <<transition_to(node)>>
        BY <2>1, Short, Fields DEF h
      <4>3. todo # fsm_transition_to(node)
        BY <2>1, Short, Fields DEF h, fsm_transition_to, Enter
      <4> QED BY <3>2, <4>1, <4>2, <4>3 DEF Releasing
    <3>4. ui.override = 0
      BY <3>1 DEF LockCore, OneShot, RampNodes
    <3>5. todo' \in Choices
      <4>1. t = <<Op("action"), Op("arm")>>
        BY <3>3, Short DEF t, Entering
      <4> QED BY <1>0, <4>1 DEF Choices
    <3>6. timer["inactivity"] = "stopped"
      BY <1>03, <3>1, HandlersNode
    <3>7. timer' = timer
      BY <1>0, <2>1 DEF Execute, TimerAfter
    <3> QED BY <1>0, <1>08, <2>1, <3>3, <3>4, <3>5, <3>6, <3>7
  <2>2. CASE h.op # "enter"
    <3>1. /\ current_node \in OnNodes /\ previous_node \in RampNodes
          /\ Choosing
      BY <1>0, <1>02, <2>0, <2>2 DEF Choosing, HasOp
    <3>2. todo \in Choices /\ Locked /\ ui.override = 0 /\ timer["inactivity"] = "stopped"
      BY <1>03, <3>1 DEF LockInv, Kept
    <3>3. /\ h \in {Resume, Start("thermal"), Stop("ramp"), Op("save_memory"), Op("level_on")}
          /\ \/ h # Op("level_on") /\ todo' \in Choices
             \/ h = Op("level_on") /\ todo' = <<LedBrightness, Op("arm")>>
      <4>1. Head(todo).op # "action"
        BY <1>01 DEF Calls, h
      <4>2. h = Head(todo) /\ todo' = Tail(todo)
        BY <1>0 DEF h, t
      <4> QED BY <3>2, <4>1, <4>2, ChoicesStep
    <3>4. h # Op("level_on") /\ todo' \in Choices
      <4>1. ASSUME todo' = <<LedBrightness, Op("arm")>> PROVE FALSE
        <5>1. Ops(todo') = {LedBrightness, Op("arm")}
          BY <4>1, OpsShort
        <5>2. ~HasOp(todo', "level_on")
          BY <5>1, Fields DEF HasOp
        <5>3. ~Acting(todo')
          BY <1>0, <2>0, <2>2
        <5> QED BY <5>2, <5>3 DEF Choosing
      <4> QED BY <3>3, <4>1
    <3>5. /\ h.op \in {"set", "start", "stop", "save_memory"} /\ h.op \notin LevelOps
          /\ ~BeginsRamp(h) /\ ~Writes(h, "active_param")
      BY <3>3, <3>4, Fields, Flags DEF BeginsRamp, Starts, Writes, LevelOps
    <3>6. Locked'
      BY <1>0, <1>03, <1>04, <3>2, <3>5, LockExec
    <3>7. ui'.override = 0
      BY <1>0, <1>03, <3>2, <3>5, UiExec DEF SetWell
    <3>8. timer'["inactivity"] = "stopped"
      <4>1. timer \in [Timers -> {"stopped", "running", "due"}] /\ timer' = TimerAfter(h)
        BY <1>0, <1>03 DEF Execute, NavInv, IInv, TimerInv
      <4>2. h.op = "start" => h.timer = "thermal"
        BY <3>3, Fields, Flags
      <4> QED BY <3>2, <3>5, <4>1, <4>2 DEF TimerAfter, Timers
    <3> QED BY <1>0, <3>4, <3>6, <3>7, <3>8
  <2> QED BY <2>1, <2>2
<1> QED BY <1>1, <1>2, <1>3, <1>4 DEF LockInv

(* LockInv when a message is taken.                                        *)
LEMMA LockTaken ==
    ASSUME LockCore, Tap \/ HoldStart \/ HoldRelease \/ Shutdown PROVE LockInv'
<1>0. LockInv
  BY DEF LockCore
<1>1. /\ todo = <<>> /\ UNCHANGED <<current_node, previous_node, timer, ui>> /\ isr = <<>>
      /\ ~Acting(todo')
      /\ \/ \E msg : Ops(todo') = {lookup("reset", msg), lookup("callback", msg)}
         \/ Ops(todo') = {Emergency, Stop("inactivity"), Op("go_home"), Op("action")}
  BY LockParts, Inputs DEF Taken
<1>2. /\ \A o \in Ops(todo') :
            /\ ~Writes(o, "ramp_active") /\ ~Leads(o)
            /\ o.op \notin {"map", "save_memory", "level_on", "override_floor"}
      /\ ~Acting(todo')
  BY <1>1, Fields, Flags DEF Writes, Leads
<1>3. Targets(todo') = {} /\ ~Choosing'
  BY <1>2 DEF Targets, Choosing, HasOp
<1>4. Targets(todo) = {} /\ ~Choosing /\ \A name : ~HasOp(todo, name)
  BY <1>1, AtEnd, NotActing DEF Choosing, HasOp
<1>5. current_node \in RampNodes => ui.ramp_active = TRUE
  BY <1>0, <1>4 DEF LockInv, InRamp
<1>6. WayIn' /\ InRamp'
  BY <1>1, <1>2, <1>3, <1>5 DEF WayIn, InRamp, HasOp
<1>7. WayOut' /\ Kept'
  BY <1>1, <1>3 DEF WayOut, Kept
<1> QED BY <1>6, <1>7 DEF LockInv

(* LockInv when another timer expires, or a period passes.                 *)
LEMMA LockTicks == ASSUME LockCore, Ticks \/ InactivityPasses PROVE LockInv'
<1>0. LockInv
  BY DEF LockCore
<1>1. UNCHANGED <<current_node, previous_node, todo, isr, holding>>
  BY UiTicks, LockParts DEF InactivityPasses, FlagInv
<1>2. /\ ui'.override = ui.override /\ ui'.ramp_active = ui.ramp_active
      /\ timer'["ramp"] = timer["ramp"]
      /\ timer["inactivity"] = "stopped" => timer'["inactivity"] = "stopped"
      /\ Locked => Locked'
  <2>1. CASE Ticks
    <3>1. /\ ui'.memorized = ui.memorized /\ ui'.override = ui.override
          /\ ui'.ramp_active = ui.ramp_active /\ ui'.active_param = ui.active_param
          /\ RampTicks \/ OtherTicks
          /\ timer' = timer
      BY <2>1, LockParts, UiTicks DEF FlagInv
    <3>2. Locked => Locked'
      BY <3>1 DEF Locked, RampTicks, OtherTicks
    <3> QED BY <3>1, <3>2
  <2>2. CASE InactivityPasses
    <3>1. /\ timer["inactivity"] = "running" /\ ui' = ui
          /\ timer' = [timer EXCEPT !["inactivity"] = "due"]
      BY <2>2 DEF InactivityPasses
    <3>2. timer'["ramp"] = timer["ramp"]
      BY <3>1, LockParts DEF NavInv, IInv, TimerInv, Timers
    <3> QED BY <3>1, <3>2 DEF Locked
  <2> QED BY <2>1, <2>2
<1>3. \A node \in OnNodes : Releasing(node) => Releasing(node)'
  BY <1>1, <1>2 DEF Releasing
<1>4. WayIn'
  BY <1>0, <1>1, <1>2 DEF LockInv, WayIn, MapsToRamp
<1>5. InRamp'
  BY <1>0, <1>1, <1>2 DEF LockInv, InRamp
<1>6. WayOut'
  BY <1>0, <1>1, <1>3 DEF LockInv, WayOut
<1>7. Kept'
  BY <1>0, <1>1, <1>2 DEF LockInv, Kept, Choosing
<1> QED BY <1>4, <1>5, <1>6, <1>7 DEF LockInv

(* LockInv when the inactivity handler runs: it finds no hold being looked *)
(* up, and neither a ramp nor an ON that is about to choose its level.     *)
LEMMA LockHandler ==
    ASSUME LockCore, ~Interrupted, inactivity_timer_handler \/ IsrCalls \/ IsrExecutes
    PROVE  LockInv'
<1>0. LockInv
  BY DEF LockCore
<1>1. /\ UNCHANGED <<todo, holding>>
      /\ isr # <<>> \/ timer["inactivity"] = "due"
  BY LockParts, IsrExecutesOps DEF inactivity_timer_handler, IsrCalls
<1>2. current_node \in MayRun /\ MayRun \cap RampNodes = {}
  BY <1>1, LockParts, HandlersNode
<1>3. ASSUME holding PROVE todo = <<>>
  <2>1. CASE isr # <<>>
    BY <1>3, <2>1, LockParts DEF NoTear
  <2>2. CASE inactivity_timer_handler
    <3>1. isr = <<>> /\ isr' # <<>>
      <4>1. PICK node : isr = <<>> /\ isr' = <<transition_to(node)>>
        BY <2>2, LockParts, HandlerOps
      <4> QED BY <4>1, Short
    <3> QED BY <1>3, <3>1 DEF Interrupted
  <2> QED BY <2>1, <2>2 DEF inactivity_timer_handler, IsrCalls, IsrExecutes
<1>4. current_node' \notin RampNodes
  <2>1. CASE IsrExecutes
    <3>1. current_node' \in MayRun
      BY <1>2, <2>1, LockParts, IsrExecutesOps
    <3> QED BY <1>2, <3>1
  <2>2. CASE inactivity_timer_handler \/ IsrCalls
    BY <1>2, <2>2 DEF inactivity_timer_handler, IsrCalls
  <2> QED BY <2>1, <2>2
<1>5. WayIn'
  <2>1. \A o \in Ops(todo) : Writes(o, "ramp_active") => o.val = TRUE
    BY <1>0 DEF LockInv, WayIn
  <2>2. \A o \in Ops(todo) : ~(o.op = "map" /\ MapsToRamp(o.msg)')
    <3> SUFFICES ASSUME NEW o \in Ops(todo), o.op = "map", o.msg.type = "HOLD_START"
                 PROVE  FALSE
      BY DEF MapsToRamp
    <3>1. holding
      BY LockParts DEF MsgInv, MsgWell, LookupOps
    <3> QED BY <1>3, <3>1, NotActing
  <2>3. Targets(todo) \cap RampNodes = {}
    BY <1>0, <1>3, AtEnd DEF LockInv, WayIn
  <2> QED BY <1>1, <2>1, <2>2, <2>3 DEF WayIn
<1>6. InRamp' /\ WayOut'
  BY <1>4 DEF InRamp, WayOut
<1>7. Kept'
  <2> SUFFICES ASSUME current_node' \in OnNodes, previous_node' \in RampNodes, Choosing'
               PROVE  FALSE
    BY DEF Kept
  <2>1. CASE UNCHANGED <<current_node, previous_node>>
    BY <1>0, <1>1, <2>1 DEF LockInv, Kept, Choosing
  <2>2. CASE IsrExecutes /\ ~UNCHANGED <<current_node, previous_node>>
    <3>1. Execute(Head(isr)) /\ Head(isr).op \in PlainOps \cup {"enter", "arm"}
      BY <2>2, LockParts, IsrExecutesOps
    <3>2. previous_node' = current_node
      BY <2>2, <3>1, NodesAfter DEF PlainOps
    <3> QED BY <1>2, <3>2
  <2> QED BY <2>1, <2>2 DEF inactivity_timer_handler, IsrCalls
<1> QED BY <1>5, <1>6, <1>7 DEF LockInv

(* A light with nothing to do, outside a ramp, has nothing to lock.        *)
LEMMA LockRest == ASSUME todo = <<>>, current_node \notin RampNodes PROVE LockInv
BY NotActing, AtEnd DEF LockInv, WayIn, InRamp, WayOut, Kept, Choosing, HasOp

(* Nor has one that starts.                                                *)
LEMMA LockBegins ==
    ASSUME NEW home, Ops(todo) = {transition_to(home)}, home \in OffNodes, current_node = NULL
    PROVE  LockInv
<1>1. \A o \in Ops(todo) : ~Writes(o, "ramp_active") /\ o.op = "transition"
  BY Fields DEF Writes
<1>2. Targets(todo) = {home}
  BY Fields DEF Targets, Leads
<1>3. home \notin RampNodes /\ current_node \notin RampNodes \cup OnNodes
  BY DEF OffNodes, RampNodes, OnNodes, NULL
<1> QED BY <1>1, <1>2, <1>3 DEF LockInv, WayIn, InRamp, WayOut, Kept

(* LockInv is inductive as long as the worker is alone with a hold.        *)
LEMMA LockStep == ASSUME LockCore, ~Interrupted, [Next]_vars PROVE LockInv'
<1>1. CASE WorkerReboots \/ WorkerCrashes \/ IsrCrashes
  <2>1. PICK flash : Reboot(flash) /\ flash.mode \in Modes
    BY <1>1, LockParts, Reboots
  <2>2. PICK home \in OffNodes : Ops(todo') = {transition_to(home)} /\ current_node' = NULL
    BY <2>1, Rebooted
  <2>3. \A o \in Ops(todo') : ~Writes(o, "ramp_active") /\ o.op = "transition"
    BY <2>2, Fields DEF Writes
  <2>4. Targets(todo') = {home}
    BY <2>2, Fields DEF Targets, Leads
  <2>5. home \notin RampNodes /\ current_node' \notin RampNodes \cup OnNodes
    BY <2>2 DEF OffNodes, RampNodes, OnNodes, NULL
  <2> QED BY <2>3, <2>4, <2>5 DEF LockInv, WayIn, InRamp, WayOut, Kept
<1>2. CASE UNCHANGED vars
  BY <1>2 DEF vars, LockCore, LockInv, WayIn, InRamp, WayOut, Kept, Releasing, Locked, Choosing,
              MapsToRamp
<1> QED BY <1>1, <1>2, LockTaken, LockWorkerCalls, LockWorkerExecutes, LockTicks, LockHandler
        DEF Next, Ticks

(* The lock holds of every light that is not torn, the override of any.    *)
LockWhole == OneShot /\ (~torn => LockInv)

(* LockWhole is inductive.                                                 *)
LEMMA LockWholeStep ==
    ASSUME MenuCore, WholeInv, LockWhole, [HNext]_hvars PROVE LockWhole'
<1>1. [Next]_vars /\ (Records \/ UNCHANGED hvars)
  BY HistoryStep
<1>2. OneShot'
  BY <1>1, OneShotStep DEF LockWhole
<1>3. ASSUME ~torn' PROVE LockCore /\ ~Interrupted
  <2>1. CASE torn
    <3>1. Settled
      BY <1>1, <1>3, <2>1 DEF Records, hvars
    <3>2. RampCore /\ ~Interrupted
      BY <3>1, SettledRamp
    <3>3. LockInv
      BY <3>1, LockRest DEF Settled, AtRest
    <3> QED BY <3>2, <3>3 DEF LockCore, LockWhole
  <2>2. CASE ~torn
    <3>1. ~Interrupted
      BY <1>1, <1>3 DEF Records, hvars, vars, Interrupted
    <3> QED BY <2>2, <3>1, Whole DEF LockCore, LockWhole
  <2> QED BY <2>1, <2>2
<1> QED BY <1>1, <1>2, <1>3, LockStep DEF LockWhole

(* LockWhole always holds.                                                 *)
LEMMA LockInvariance == HSpec => [](MenuCore /\ WholeInv /\ LockWhole)
<1>1. HInit => LockWhole
  <2> SUFFICES ASSUME HInit PROVE OneShot /\ LockInv
    BY DEF LockWhole
  <2>1. PICK mode \in StartModes :
        /\ current_node = NULL /\ todo = <<transition_to(home_node)>> /\ isr = <<>>
        /\ ui = BootUi(Defaults(mode)) /\ home_node = OffNode(mode)
    BY DEF HInit, Init
  <2>2. ui.override = 0
    BY <2>1 DEF BootUi
  <2>3. Ops(todo) = {transition_to(home_node)} /\ Ops(isr) = {} /\ home_node \in OffNodes
    BY <2>1, OpsShort DEF OffNode, OffNodes
  <2>4. LockInv
    BY <2>1, <2>3, LockBegins
  <2> QED BY <2>2, <2>3, <2>4, Fields DEF OneShot, HasOp
<1>2. MenuCore /\ WholeInv /\ LockWhole /\ [HNext]_hvars => LockWhole'
  BY LockWholeStep
<1> QED BY <1>1, <1>2, WholeInvariance, PTL DEF HSpec

(* When a ramp is released, ON chooses the very brightness the ramp had    *)
(* reached, or the manual level where the memory mode says so: whatever    *)
(* the user opened before and whatever timed out, in every memory mode, no *)
(* tick comes between the end of the ramp and action_on, no handler and no *)
(* override takes its place, unless the light is torn.  Once a strobe has  *)
(* been on, the ramp moves the frequency and nothing is claimed.           *)
THEOREM ReleaseCorrect == HSpec => ReleaseLocksLevel
<1>1. MenuCore /\ WholeInv /\ LockWhole /\ [HNext]_hvars =>
         [ /\ isr = <<>> /\ todo # <<>> /\ Head(todo) = Op("level_on") /\ todo' = Tail(todo)
           /\ previous_node \in RampNodes /\ current_node \in OnNodes
           /\ ~torn /\ ui.active_param = "BRIGHTNESS"
           => ui'.brightness \in LockedLevels ]_hvars
  <2> SUFFICES ASSUME LockCore, Next, todo # <<>>, Head(todo) = Op("level_on"),
                      previous_node \in RampNodes, current_node \in OnNodes, isr = <<>>,
                      ui.active_param = "BRIGHTNESS", todo' = Tail(todo)
               PROVE  ui'.brightness \in LockedLevels
    BY Whole, HistoryStep DEF LockCore, LockWhole, hvars, vars, HNext, Next
  <2>1. Head(todo).op = "level_on" /\ Head(todo) \in Ops(todo)
    BY LockParts, OpsTail, Fields
  <2>2. Choosing
    BY <2>1 DEF Choosing, HasOp
  <2>3. /\ ui.memorized = ui.brightness /\ ui.override = 0 /\ timer["ramp"] = "stopped"
        /\ timer["inactivity"] = "stopped"
    BY <2>2 DEF LockCore, LockInv, Kept, Locked
  <2>4. CASE WorkerExecutes
    <3>1. Execute(Head(todo)) /\ SetWell(Head(todo))
      BY <2>1, <2>4, LockParts DEF WorkerExecutes, FlagInv
    <3>2. ui'.brightness \in OnLevels
      BY <2>1, <3>1, LockParts, UiExec DEF SetWell
    <3>3. OnLevels = LockedLevels
      BY <2>3, InputAssumption DEF OnLevels, LockedLevels
    <3> QED BY <3>2, <3>3
  <2>5. ~(Tap \/ HoldStart \/ HoldRelease \/ Shutdown \/ WorkerCalls \/ WorkerReboots)
    BY <2>1 DEF Tap, HoldStart, HoldRelease, Shutdown, Deliver, AtRest, WorkerCalls, Calls, WorkerReboots
  <2>6. ~WorkerCrashes
    BY <2>1, Fields DEF WorkerCrashes, InitsRunningTimer
  <2>7. ~(inactivity_timer_handler \/ IsrCalls \/ IsrExecutes \/ IsrCrashes)
    BY <2>3 DEF inactivity_timer_handler, IsrCalls, IsrExecutes, IsrCrashes
  <2>8. ~(Ticks \/ InactivityPasses)
    <3>1. Tail(todo) # todo
      BY LockParts, Tails
    <3> QED BY <3>1, LockParts, UiTicks DEF InactivityPasses, FlagInv
  <2> QED BY <2>4, <2>5, <2>6, <2>7, <2>8 DEF Next, Ticks
<1> QED BY <1>1, LockInvariance, PTL DEF HSpec, ReleaseLocksLevel
===============================================================================
