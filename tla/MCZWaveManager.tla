---------------------------- MODULE MCZWaveManager ----------------------------
(***************************************************************************)
(* ZWaveManager for TLC.                                                   *)
(***************************************************************************)
EXTENDS ZWaveManager

CONSTANTS sensor, reading
=============================================================================
