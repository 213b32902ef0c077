----------------------------- MODULE BattCheck -----------------------------
(***************************************************************************)
(* src/batt_check.c: a voltage in millivolts, its correction by a byte     *)
(* (100 is none, one unit is 100 mV), and the clicks that calibrate it.    *)
(* The conversion of the ADC and the divider are left out: `batt_mv` is    *)
(* the voltage before the correction.  An ADC that fails is read as 3800   *)
(* whatever the offset is, and is left out, as are the blinked digits.     *)
(*                                                                         *)
(* An operator whose name ends in a remark is a plausible fault of the     *)
(* operator it precedes; no specification uses it.                         *)
(***************************************************************************)
EXTENDS Integers

NoOffset == 100
Unit     == 100

OffsetMv(offset) == (offset - NoOffset) * Unit

(* A negative result is reported as 0.                                     *)
batt_read_voltage_mv(batt_mv, offset) ==
    LET final == batt_mv + OffsetMv(offset) IN IF final < 0 THEN 0 ELSE final

(* Division in C drops the fraction of a negative number, too.             *)
CQuotient(n, d) == IF n < 0 THEN - ((- n) \div d) ELSE n \div d

Byte(n) == IF n < 0 THEN 0 ELSE IF n > 255 THEN 255 ELSE n

batt_calibrate_voltage_KeepsOffset(actual_mv, batt_mv, offset) ==
    Byte(CQuotient(actual_mv - batt_read_voltage_mv(batt_mv, offset) + 50, Unit) + NoOffset)

(* The new offset: the raw voltage is what is read with the old one, less  *)
(* the old one.                                                            *)
batt_calibrate_voltage(actual_mv, batt_mv, offset) ==
    LET measured_raw == batt_read_voltage_mv(batt_mv, offset) - OffsetMv(offset)
    IN  Byte(CQuotient(actual_mv - measured_raw + 50, Unit) + NoOffset)
=============================================================================
