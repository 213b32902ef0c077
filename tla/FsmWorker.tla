------------------------------ MODULE FsmWorker ------------------------------
(***************************************************************************)
(* lib/fsm_worker.c: the bounded message queue every context posts to, and *)
(* the one thread that takes a message, handles it to the end (an action   *)
(* routine may block it in k_msleep for seconds) and comes back for the    *)
(* next.  Of what the engine does with a message only the emergency flag   *)
(* is kept: what becomes of node, timers and beam is the matter of ZBeamUi,*)
(* which executes the routines statement by statement.  The actions        *)
(* compose with a poster's: see SafetyMonitor.                             *)
(* An operator whose name ends in a remark (k_msgq_get_Newest) is a        *)
(* plausible fault of the operator after it.                               *)
(***************************************************************************)
EXTENDS Integers, Sequences

CONSTANT Depth                  \* CONFIG_ZBEAM_FSM_MSGQ_DEPTH

ASSUME DepthAssumption == Depth \in Nat \ {0}

VARIABLES
    fsm_msgq,                   \* the messages waiting
    msg,                        \* the message the worker handles, or NoMsg
    emergency_shutdown_active   \* fsm_emergency_off was called

workerVars == <<fsm_msgq, msg, emergency_shutdown_active>>

NoMsg == "none"

(* The types some code posts.  MSG_SYSTEM_SHUTDOWN and the two timer types *)
(* have a case in the worker and no sender.                                *)
MsgTypes == {"INPUT_TAP", "INPUT_HOLD_START", "INPUT_HOLD_RELEASE",
             "SAFETY_SHUTDOWN", "SAFETY_THERMAL_WARN"}

WorkerTypeOK ==
    /\ fsm_msgq \in Seq(MsgTypes) /\ Len(fsm_msgq) <= Depth
    /\ msg \in MsgTypes \cup {NoMsg}
    /\ emergency_shutdown_active \in BOOLEAN

WorkerInit ==
    /\ fsm_msgq = <<>> /\ msg = NoMsg
    /\ emergency_shutdown_active = FALSE

(* K_NO_WAIT: a full queue drops the message, and no caller looks at the   *)
(* result.                                                                 *)
fsm_worker_post_msg_Unbounded(type) == fsm_msgq' = Append(fsm_msgq, type)

fsm_worker_post_msg(type) ==
    fsm_msgq' = IF Len(fsm_msgq) < Depth THEN Append(fsm_msgq, type) ELSE fsm_msgq

k_msgq_get_Newest ==
    /\ msg = NoMsg /\ fsm_msgq # <<>>
    /\ msg' = fsm_msgq[Len(fsm_msgq)]
    /\ fsm_msgq' = SubSeq(fsm_msgq, 1, Len(fsm_msgq) - 1)
    /\ UNCHANGED emergency_shutdown_active

k_msgq_get ==
    /\ msg = NoMsg /\ fsm_msgq # <<>>
    /\ msg' = Head(fsm_msgq)
    /\ fsm_msgq' = Tail(fsm_msgq)
    /\ UNCHANGED emergency_shutdown_active

(* fsm_process_msg.                                                        *)
HandleInput ==
    /\ msg \in {"INPUT_TAP", "INPUT_HOLD_START", "INPUT_HOLD_RELEASE"}
    /\ msg' = NoMsg
    /\ UNCHANGED <<fsm_msgq, emergency_shutdown_active>>

(* fsm_emergency_off sets the flag and takes the light home.               *)
HandleShutdown ==
    /\ msg = "SAFETY_SHUTDOWN"
    /\ msg' = NoMsg
    /\ emergency_shutdown_active' = TRUE
    /\ UNCHANGED fsm_msgq

(* "TODO: Implement gradual power reduction": the warning is only logged.  *)
HandleWarning ==
    /\ msg = "SAFETY_THERMAL_WARN"
    /\ msg' = NoMsg
    /\ UNCHANGED <<fsm_msgq, emergency_shutdown_active>>

fsm_worker_entry == k_msgq_get \/ HandleInput \/ HandleShutdown \/ HandleWarning
=============================================================================
