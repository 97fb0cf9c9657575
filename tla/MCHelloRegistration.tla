------------------------- MODULE MCHelloRegistration -------------------------
(***************************************************************************)
(* HelloRegistration for TLC: two Z-Wave managers, as in the test          *)
(* testListenCommandTwoClients, and one for Jablotron; three idents, so    *)
(* that restarts use them up.                                              *)
(***************************************************************************)
EXTENDS HelloRegistration, TLC

CONSTANTS z1, z2, j1, zwave, jablotron

MCManagers == {z1, z2, j1}
MCPrefixes == {zwave, jablotron}
MCPrefixOf == z1 :> zwave @@ z2 :> zwave @@ j1 :> jablotron
=============================================================================
