----------------------------- MODULE MCZBeamUi -----------------------------
(* Instances of ZBeamUi for TLC.  Brightness has few values: the real      *)
(* arithmetic of a byte is checked by RampSweep.                           *)
EXTENDS ZBeamUiHistory

Simple   == {"SIMPLE"}
Advanced == {"ADVANCED"}
Both     == {"SIMPLE", "ADVANCED"}
=============================================================================
