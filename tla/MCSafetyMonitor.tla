-------------------------- MODULE MCSafetyMonitor --------------------------
(* Instances of SafetyMonitor for TLC: which readings occur.               *)
EXTENDS SafetyMonitor

Ok   == [temperature |-> "cool", current |-> "normal", voltage |-> "normal"]
Heat == {Ok, [Ok EXCEPT !.temperature = "warm"], [Ok EXCEPT !.temperature = "hot"]}
Mixed == Heat \cup {[Ok EXCEPT !.temperature = "hot", !.current = "over"],
                    [Ok EXCEPT !.voltage = "low"]}
=============================================================================
