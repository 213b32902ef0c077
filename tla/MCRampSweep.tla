---------------------------- MODULE MCRampSweep ----------------------------
(* Instances of RampSweep for TLC: the configurations the 7H menu can      *)
(* reach (floor 1..10, ceiling 246..255), with step counts whose spacing   *)
(* is at least two levels.  (With 150 steps, which Kconfig accepts, or     *)
(* floor = ceiling the properties fail: see README.md.)                    *)
EXTENDS RampSweep

MenuFloors   == {1, 4, 10}
MenuCeilings == {246, 251, 255}
MenuSteps    == {0, 2, 3, 7, 100}
MenuLevels   == {0, 1, 5, 10, 40, 128, 200, 246, 250, 255}
=============================================================================
