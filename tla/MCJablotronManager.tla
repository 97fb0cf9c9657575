-------------------------- MODULE MCJablotronManager --------------------------
(***************************************************************************)
(* JablotronManager for TLC: two outlets in the slots, or two sensors.     *)
(***************************************************************************)
EXTENDS JablotronManager

CONSTANTS first, second, smoke, panel

MCOutlets == <<first, second>>
MCSensors == <<smoke, panel>>
\* What the server lists.
MCSecond == {{second}}
MCAll == {Devices}
=============================================================================
