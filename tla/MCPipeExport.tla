----------------------------- MODULE MCPipeExport -----------------------------
(***************************************************************************)
(* PipeExport for TLC: the exports of two VirtualSensors and the broker.   *)
(***************************************************************************)
EXTENDS PipeExport

CONSTANTS sensor1, sensor2, broker
=============================================================================
