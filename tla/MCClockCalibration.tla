------------------------- MODULE MCClockCalibration -------------------------
(* An instance of ClockCalibration for TLC: three ticks to a millisecond.  *)
EXTENDS ClockCalibration, TLC

NearThetas == (-4)..4
=============================================================================
