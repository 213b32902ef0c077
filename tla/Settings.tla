------------------------------ MODULE Settings ------------------------------
(***************************************************************************)
(* What the user may expect of a setting: while the light is in use it has *)
(* a current value; it may be saved, and only the current value is ever    *)
(* saved; when power is lost, the light starts again with what was saved,  *)
(* or with the default where nothing was; a memory that cannot be read     *)
(* gives the defaults.  Default is a function from Keys to Values.         *)
(***************************************************************************)
CONSTANTS
    Keys, Values,
    Default,           \* the value of each key in a new light
    None               \* nothing is saved; not a value

VARIABLES
    up,                \* the light is in use
    readable,          \* the memory can be read, this time
    current, stored

vars == <<up, readable, current, stored>>

Init ==
    /\ up = FALSE /\ readable \in BOOLEAN
    /\ current = Default
    /\ stored = [k \in Keys |-> None]

Set(k) ==
    /\ up
    /\ \E v \in Values : current' = [current EXCEPT ![k] = v]
    /\ UNCHANGED <<up, readable, stored>>

Save(k) ==
    /\ up /\ stored' = [stored EXCEPT ![k] = current[k]]
    /\ UNCHANGED <<up, readable, current>>

Forget(k) ==
    /\ up /\ stored' = [stored EXCEPT ![k] = None]
    /\ UNCHANGED <<up, readable, current>>

Lose ==
    /\ up' = FALSE /\ readable' \in BOOLEAN
    /\ current' = Default
    /\ UNCHANGED stored

Restored(k) == IF readable /\ stored[k] # None THEN stored[k] ELSE Default[k]

Start ==
    /\ ~up /\ up'
    /\ current' = [k \in Keys |-> Restored(k)]
    /\ UNCHANGED <<readable, stored>>

Next == Lose \/ Start \/ \E k \in Keys : Set(k) \/ Save(k) \/ Forget(k)

Spec == Init /\ [][Next]_vars
=============================================================================
