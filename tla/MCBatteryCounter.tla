--------------------------- MODULE MCBatteryCounter ---------------------------
(* BatteryCounter with two threads. *)
EXTENDS BatteryCounter
=============================================================================
