--------------------------- MODULE MCDeviceRequests ---------------------------
(***************************************************************************)
(* DeviceRequests for TLC: the first device list and a last value are      *)
(* requested by the main thread, the second device list by the timer that  *)
(* ends the listen mode.                                                   *)
(***************************************************************************)
EXTENDS DeviceRequests

CONSTANTS atStart, afterListen, lastValue, d1, on, off
=============================================================================
