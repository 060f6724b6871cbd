----------------------------- MODULE MCSensorBus -----------------------------
(* SensorBus for TLC: both threads, the four devices.                       *)
EXTENDS SensorBus
=============================================================================
