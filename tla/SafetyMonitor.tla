---------------------------- MODULE SafetyMonitor ----------------------------
(***************************************************************************)
(* lib/safety_monitor.c: the thread that reads the sensors ten times a     *)
(* second and asks the worker (FsmWorker) to put the light out, together   *)
(* with the user, whose clicks and holds share the queue.  The monitor is  *)
(* the thread of highest priority, but the timer interrupt that posts the  *)
(* user's input may come between any two of its steps, and the worker runs *)
(* while it sleeps.                                                        *)
(***************************************************************************)
EXTENDS FsmWorker

CONSTANT Readings     \* the sensor readings that may occur, as classes

(* What the thresholds of Kconfig tell apart.  "hot" is above both         *)
(* temperature thresholds, "warm" above the warning only.                  *)
ASSUME ReadingsAssumption ==
    Readings \subseteq [temperature : {"cool", "warm", "hot"},
                        current : {"normal", "over"},
                        voltage : {"low", "normal", "high"}]

VARIABLES
    last_readings,
    current_fault,        \* safety_get_status
    shutdown_triggered,   \* safety_is_shutdown
    step,                 \* where the monitor's loop stands
    held                  \* the user holds the button past the hold duration

vars == <<workerVars, last_readings, current_fault, shutdown_triggered, step, held>>

Faults == {"OVERCURRENT", "OVERTEMP", "UNDERVOLTAGE", "OVERVOLTAGE"}

(* The cascade of the loop: the first threshold that is exceeded counts.   *)
Fault(r) ==
    IF r.current = "over" THEN "OVERCURRENT"
    ELSE IF r.temperature = "hot" THEN "OVERTEMP"
    ELSE IF r.voltage = "low" THEN "UNDERVOLTAGE"
    ELSE IF r.voltage = "high" THEN "OVERVOLTAGE" ELSE "OK"

(* The static structure before the first reading: 0 mV counts as low.      *)
NoReadings == [temperature |-> "cool", current |-> "normal", voltage |-> "low"]

Warm(r) == r.temperature \in {"warm", "hot"}

Init ==
    /\ WorkerInit
    /\ last_readings = NoReadings
    /\ current_fault = "OK" /\ shutdown_triggered = FALSE
    /\ step = "read" /\ held = FALSE

-----------------------------------------------------------------------------
(* The monitor's loop.  "read" is the top of the loop and the k_msleep     *)
(* before it.                                                              *)

read_sensors ==
    /\ step = "read" /\ step' = "evaluate"
    /\ last_readings' \in Readings
    /\ UNCHANGED <<workerVars, current_fault, shutdown_triggered, held>>

(* current_fault = fault; safety_emergency_shutdown up to the post.        *)
TriggerShutdown_Again ==
    /\ step = "evaluate" /\ step' = "post"
    /\ Fault(last_readings) # "OK"
    /\ current_fault' = Fault(last_readings)
    /\ shutdown_triggered' = TRUE
    /\ UNCHANGED <<workerVars, last_readings, held>>

TriggerShutdown ==
    /\ step = "evaluate" /\ step' = "post"
    /\ Fault(last_readings) # "OK" /\ ~shutdown_triggered
    /\ current_fault' = Fault(last_readings)
    /\ shutdown_triggered' = TRUE
    /\ UNCHANGED <<workerVars, last_readings, held>>

PostShutdown ==
    /\ step = "post" /\ step' = "read"
    /\ fsm_worker_post_msg("SAFETY_SHUTDOWN")
    /\ UNCHANGED <<msg, emergency_shutdown_active, last_readings, current_fault, shutdown_triggered, held>>

NoTrigger == Fault(last_readings) = "OK" \/ shutdown_triggered

Warn ==
    /\ step = "evaluate" /\ step' = "read"
    /\ NoTrigger
    /\ Warm(last_readings) /\ current_fault = "OK"
    /\ fsm_worker_post_msg("SAFETY_THERMAL_WARN")
    /\ UNCHANGED <<msg, emergency_shutdown_active, last_readings, current_fault, shutdown_triggered, held>>

(* The last branch clears the fault, or the loop does nothing.             *)
NothingToReport ==
    /\ step = "evaluate" /\ step' = "read"
    /\ NoTrigger
    /\ ~(Warm(last_readings) /\ current_fault = "OK")
    /\ current_fault' = IF Fault(last_readings) = "OK" THEN "OK" ELSE current_fault
    /\ UNCHANGED <<workerVars, last_readings, shutdown_triggered, held>>

safety_thread_entry ==
    read_sensors \/ TriggerShutdown \/ PostShutdown \/ Warn \/ NothingToReport

(* The user, as MultiTapInput reports it.                                  *)
Click ==
    /\ ~held
    /\ fsm_worker_post_msg("INPUT_TAP")
    /\ UNCHANGED <<msg, emergency_shutdown_active, last_readings, current_fault, shutdown_triggered, step, held>>

Hold ==
    /\ held' = ~held
    /\ fsm_worker_post_msg(IF held THEN "INPUT_HOLD_RELEASE" ELSE "INPUT_HOLD_START")
    /\ UNCHANGED <<msg, emergency_shutdown_active, last_readings, current_fault, shutdown_triggered, step>>

Worker ==
    fsm_worker_entry
    /\ UNCHANGED <<last_readings, current_fault, shutdown_triggered, step, held>>

Next == safety_thread_entry \/ Worker \/ Click \/ Hold

Spec == Init /\ [][Next]_vars

(* Both threads are ready again and again and the scheduler runs them; the *)
(* longest blink code is finite.  Nothing is assumed of the user.          *)
FairSpec == Spec /\ WF_vars(safety_thread_entry) /\ WF_vars(Worker)

-----------------------------------------------------------------------------
(* The variables have their C types and the queue keeps its size.          *)
TypeOK ==
    /\ WorkerTypeOK
    /\ last_readings \in Readings \cup {NoReadings}
    /\ current_fault \in Faults \cup {"OK"}
    /\ shutdown_triggered \in BOOLEAN
    /\ step \in {"read", "evaluate", "post"}
    /\ held \in BOOLEAN

Queued(type) == \E i \in 1..Len(fsm_msgq) : fsm_msgq[i] = type

(* The worker calls fsm_emergency_off at most once for the monitor, never  *)
(* unless the monitor has latched a fault: of the one shutdown message, at *)
(* any time, at most one of these is true: it is about to be posted, it is *)
(* in the queue (at one place), it is being handled, it was handled.       *)
ShutdownOnce ==
    /\ step = "post" \/ Queued("SAFETY_SHUTDOWN") \/ msg = "SAFETY_SHUTDOWN"
          \/ emergency_shutdown_active => shutdown_triggered
    /\ step = "post" => /\ ~Queued("SAFETY_SHUTDOWN") /\ msg # "SAFETY_SHUTDOWN"
                        /\ ~emergency_shutdown_active
    /\ Queued("SAFETY_SHUTDOWN") => msg # "SAFETY_SHUTDOWN" /\ ~emergency_shutdown_active
    /\ msg = "SAFETY_SHUTDOWN" => ~emergency_shutdown_active
    /\ \A i, j \in 1..Len(fsm_msgq) :
          fsm_msgq[i] = "SAFETY_SHUTDOWN" /\ fsm_msgq[j] = "SAFETY_SHUTDOWN" => i = j

(* No warning or click can push a shutdown aside: once it is in the queue  *)
(* fsm_emergency_off is called, whatever is ahead of it and however often  *)
(* the user clicks behind it.  (That the beam is dark then, and stays so,  *)
(* is another matter: ZBeamUi!OffIsDark.)                                  *)
QueuedShutdownIsCarriedOut ==
    Queued("SAFETY_SHUTDOWN") ~> emergency_shutdown_active

-----------------------------------------------------------------------------
(* A property the documents state and the code does not keep.              *)

(* A violated threshold calls fsm_emergency_off (docs/architecture.md:32). *)
TriggeredIsCarriedOut == shutdown_triggered ~> emergency_shutdown_active
=============================================================================
