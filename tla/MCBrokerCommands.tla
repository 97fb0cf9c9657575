-------------------------- MODULE MCBrokerCommands --------------------------
(***************************************************************************)
(* BrokerCommands for TLC: a set value for the Z-Wave manager and a listen *)
(* for both.  FakeClient of ZMQBrokerTest.cpp answers every command; the   *)
(* device managers of the repository (jablotron/, z-wave/) answer none.    *)
(***************************************************************************)
EXTENDS BrokerCommands, TLC

CONSTANTS setValue, listen, zwave, jablotron

MCCommands == {setValue, listen}
MCManagers == {zwave, jablotron}
MCTargets == setValue :> {zwave} @@ listen :> MCManagers
=============================================================================
