------------------------ MODULE SafetyMonitor_proofs ------------------------
(***************************************************************************)
(* Proofs about SafetyMonitor, for every queue depth and every set of      *)
(* readings.  TypeOK is inductive.  ShutdownOnce is inductive relative to  *)
(* it: each of its conjuncts excludes two places of the shutdown message   *)
(* at once, and a step only moves the message from one place to the next.  *)
(***************************************************************************)
EXTENDS SafetyMonitor, TLAPS

(* What the queue operations do to a sequence bounded by Depth.            *)
LEMMA PostType ==
    ASSUME TypeOK, NEW type \in MsgTypes, fsm_worker_post_msg(type)
    PROVE  fsm_msgq' \in Seq(MsgTypes) /\ Len(fsm_msgq') <= Depth
BY DepthAssumption DEF TypeOK, WorkerTypeOK, fsm_worker_post_msg

LEMMA GetType ==
    ASSUME TypeOK, k_msgq_get
    PROVE  /\ fsm_msgq' \in Seq(MsgTypes) /\ Len(fsm_msgq') <= Depth
           /\ msg' \in MsgTypes
BY DepthAssumption DEF TypeOK, WorkerTypeOK, k_msgq_get

(* The variables keep their types and the queue its bound.                 *)
THEOREM TypeCorrect == Spec => []TypeOK
<1>1. Init => TypeOK
  <2> SUFFICES ASSUME Init PROVE TypeOK
    OBVIOUS
  <2>1. fsm_msgq \in Seq(MsgTypes) /\ Len(fsm_msgq) <= Depth /\ msg \in MsgTypes \cup {NoMsg}
    BY DepthAssumption DEF Init, WorkerInit
  <2>2. {emergency_shutdown_active, shutdown_triggered, held} \subseteq BOOLEAN
    BY Zenon DEF Init, WorkerInit
  <2>3. /\ last_readings \in Readings \cup {NoReadings}
        /\ current_fault \in Faults \cup {"OK"}
        /\ step \in {"read", "evaluate", "post"}
    BY DEF Init
  <2> QED  BY <2>1, <2>2, <2>3 DEF TypeOK, WorkerTypeOK
<1>2. TypeOK /\ [Next]_vars => TypeOK'
  <2> SUFFICES ASSUME TypeOK, [Next]_vars PROVE TypeOK'
    OBVIOUS
  <2>1. CASE read_sensors
    BY <2>1 DEF read_sensors, workerVars, TypeOK, WorkerTypeOK
  <2>2. CASE TriggerShutdown
    <3>1. Fault(last_readings) \in Faults \cup {"OK"}
      BY DEF Fault, Faults
    <3> QED  BY <2>2, <3>1 DEF TriggerShutdown, workerVars, TypeOK, WorkerTypeOK
  <2>3. CASE PostShutdown
    <3>1. fsm_msgq' \in Seq(MsgTypes) /\ Len(fsm_msgq') <= Depth
      BY <2>3, PostType DEF PostShutdown, MsgTypes
    <3> QED  BY <2>3, <3>1 DEF PostShutdown, TypeOK, WorkerTypeOK
  <2>4. CASE Warn
    <3>1. fsm_msgq' \in Seq(MsgTypes) /\ Len(fsm_msgq') <= Depth
      BY <2>4, PostType DEF Warn, MsgTypes
    <3> QED  BY <2>4, <3>1 DEF Warn, TypeOK, WorkerTypeOK
  <2>5. CASE NothingToReport
    BY <2>5 DEF NothingToReport, workerVars, TypeOK, WorkerTypeOK, Faults
  <2>6. CASE Worker
    <3>1. CASE k_msgq_get
      BY <2>6, <3>1, GetType DEF Worker, k_msgq_get, TypeOK, WorkerTypeOK
    <3>2. CASE HandleInput
      BY <2>6, <3>2 DEF Worker, HandleInput, TypeOK, WorkerTypeOK
    <3>3. CASE HandleShutdown
      BY <2>6, <3>3 DEF Worker, HandleShutdown, TypeOK, WorkerTypeOK
    <3>4. CASE HandleWarning
      BY <2>6, <3>4 DEF Worker, HandleWarning, TypeOK, WorkerTypeOK
    <3> QED  BY <2>6, <3>1, <3>2, <3>3, <3>4 DEF Worker, fsm_worker_entry
  <2>7. CASE Click
    <3>1. fsm_msgq' \in Seq(MsgTypes) /\ Len(fsm_msgq') <= Depth
      BY <2>7, PostType DEF Click, MsgTypes
    <3> QED  BY <2>7, <3>1 DEF Click, TypeOK, WorkerTypeOK
  <2>8. CASE Hold
    <3>1. fsm_msgq' \in Seq(MsgTypes) /\ Len(fsm_msgq') <= Depth
      BY <2>8, PostType DEF Hold, MsgTypes
    <3> QED  BY <2>8, <3>1 DEF Hold, TypeOK, WorkerTypeOK
  <2>9. CASE UNCHANGED vars
    BY <2>9 DEF vars, workerVars, TypeOK, WorkerTypeOK
  <2> QED  BY <2>1, <2>2, <2>3, <2>4, <2>5, <2>6, <2>7, <2>8, <2>9
           DEF Next, safety_thread_entry
<1> QED  BY <1>1, <1>2, PTL DEF Spec

-----------------------------------------------------------------------------
(* Posting a message that is not a shutdown leaves every shutdown of the   *)
(* queue where it was.                                                     *)
LEMMA PostOther ==
    ASSUME TypeOK, NEW type \in MsgTypes, type # "SAFETY_SHUTDOWN", fsm_worker_post_msg(type)
    PROVE  \A i \in 1..Len(fsm_msgq') : fsm_msgq'[i] = "SAFETY_SHUTDOWN" =>
               i \in 1..Len(fsm_msgq) /\ fsm_msgq[i] = "SAFETY_SHUTDOWN"
BY DEF TypeOK, WorkerTypeOK, fsm_worker_post_msg

(* The emergency routine is called for the monitor at most once, and only  *)
(* on a fault.                                                             *)
THEOREM OnceCorrect == Spec => []ShutdownOnce
<1>1. Init => ShutdownOnce
  BY DEF Init, WorkerInit, ShutdownOnce, Queued, NoMsg
<1>2. TypeOK /\ ShutdownOnce /\ [Next]_vars => ShutdownOnce'
  <2> SUFFICES ASSUME TypeOK, ShutdownOnce, [Next]_vars PROVE ShutdownOnce'
    OBVIOUS
  <2>1. CASE read_sensors
    BY <2>1 DEF read_sensors, workerVars, ShutdownOnce, Queued
  <2>2. CASE TriggerShutdown
    BY <2>2 DEF TriggerShutdown, workerVars, ShutdownOnce, Queued
  <2>3. CASE PostShutdown
    <3>1. /\ shutdown_triggered' /\ msg' # "SAFETY_SHUTDOWN" /\ ~emergency_shutdown_active'
          /\ step' # "post"
      BY <2>3 DEF PostShutdown, ShutdownOnce
    <3>2. \A i \in 1..Len(fsm_msgq') : fsm_msgq'[i] = "SAFETY_SHUTDOWN" => i = Len(fsm_msgq) + 1
      BY <2>3 DEF PostShutdown, fsm_worker_post_msg, ShutdownOnce, Queued, TypeOK, WorkerTypeOK
    <3> QED  BY <3>1, <3>2 DEF ShutdownOnce, Queued
  <2>4. CASE Warn
    <3>1. \A i \in 1..Len(fsm_msgq') : fsm_msgq'[i] = "SAFETY_SHUTDOWN" =>
              i \in 1..Len(fsm_msgq) /\ fsm_msgq[i] = "SAFETY_SHUTDOWN"
      BY <2>4, PostOther DEF Warn, MsgTypes
    <3> QED  BY <2>4, <3>1 DEF Warn, ShutdownOnce, Queued
  <2>5. CASE NothingToReport
    BY <2>5 DEF NothingToReport, workerVars, ShutdownOnce, Queued
  <2>6. CASE Worker
    <3>1. CASE k_msgq_get
      <4>1. /\ msg' = fsm_msgq[1] /\ 1 \in 1..Len(fsm_msgq)
            /\ \A i \in 1..Len(fsm_msgq') : /\ i + 1 \in 1..Len(fsm_msgq)
                                            /\ fsm_msgq'[i] = fsm_msgq[i + 1]
        BY <3>1 DEF k_msgq_get, TypeOK, WorkerTypeOK
      <4>2. Len(fsm_msgq) \in Nat /\ Len(fsm_msgq') \in Nat
        BY <3>1 DEF k_msgq_get, TypeOK, WorkerTypeOK
      <4>3. UNCHANGED <<step, shutdown_triggered, emergency_shutdown_active>>
        BY <2>6, <3>1 DEF Worker, k_msgq_get
      <4>4. Queued("SAFETY_SHUTDOWN")' => Queued("SAFETY_SHUTDOWN") /\ msg' # "SAFETY_SHUTDOWN"
        BY <4>1, <4>2 DEF ShutdownOnce, Queued
      <4>5. msg' = "SAFETY_SHUTDOWN" => Queued("SAFETY_SHUTDOWN")
        BY <4>1 DEF Queued
      <4>6. \A i, j \in 1..Len(fsm_msgq') :
               fsm_msgq'[i] = "SAFETY_SHUTDOWN" /\ fsm_msgq'[j] = "SAFETY_SHUTDOWN" => i = j
        <5> SUFFICES ASSUME NEW i \in 1..Len(fsm_msgq'), NEW j \in 1..Len(fsm_msgq'),
                            fsm_msgq'[i] = "SAFETY_SHUTDOWN", fsm_msgq'[j] = "SAFETY_SHUTDOWN"
                     PROVE  i = j
          OBVIOUS
        <5>1. i + 1 = j + 1
          BY <4>1 DEF ShutdownOnce
        <5> QED  BY <5>1, <4>2
      <4> QED  BY <4>3, <4>4, <4>5, <4>6 DEF ShutdownOnce
    <3>2. CASE HandleInput
      BY <2>6, <3>2 DEF Worker, HandleInput, ShutdownOnce, Queued, NoMsg
    <3>3. CASE HandleShutdown
      BY <2>6, <3>3 DEF Worker, HandleShutdown, ShutdownOnce, Queued, NoMsg
    <3>4. CASE HandleWarning
      BY <2>6, <3>4 DEF Worker, HandleWarning, ShutdownOnce, Queued, NoMsg
    <3> QED  BY <2>6, <3>1, <3>2, <3>3, <3>4 DEF Worker, fsm_worker_entry
  <2>7. CASE Click
    <3>1. \A i \in 1..Len(fsm_msgq') : fsm_msgq'[i] = "SAFETY_SHUTDOWN" =>
              i \in 1..Len(fsm_msgq) /\ fsm_msgq[i] = "SAFETY_SHUTDOWN"
      BY <2>7, PostOther DEF Click, MsgTypes
    <3> QED  BY <2>7, <3>1 DEF Click, ShutdownOnce, Queued
  <2>8. CASE Hold
    <3>1. \A i \in 1..Len(fsm_msgq') : fsm_msgq'[i] = "SAFETY_SHUTDOWN" =>
              i \in 1..Len(fsm_msgq) /\ fsm_msgq[i] = "SAFETY_SHUTDOWN"
      BY <2>8, PostOther DEF Hold, MsgTypes
    <3> QED  BY <2>8, <3>1 DEF Hold, ShutdownOnce, Queued
  <2>9. CASE UNCHANGED vars
    BY <2>9 DEF vars, workerVars, ShutdownOnce, Queued
  <2> QED  BY <2>1, <2>2, <2>3, <2>4, <2>5, <2>6, <2>7, <2>8, <2>9
           DEF Next, safety_thread_entry
<1> QED  BY <1>1, <1>2, TypeCorrect, PTL DEF Spec
=============================================================================
