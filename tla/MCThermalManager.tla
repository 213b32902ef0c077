-------------------------- MODULE MCThermalManager --------------------------
(* Instances of ThermalManager for TLC: which temperatures occur.          *)
EXTENDS ThermalManager

(* With the limits 45 and 40: just below the one and just above the other, *)
(* where the integral is used, and two critical ones, so that the reading  *)
(* may fall and still be critical.                                         *)
Readings == {43000, 56000, 60000}
=============================================================================
