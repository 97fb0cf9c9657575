-------------------------- MODULE MCCommandExecution --------------------------
(***************************************************************************)
(* CommandExecution for TLC: one handler is the broker's, which adds a     *)
(* Result for each of its device managers (ZMQBroker.cpp:82-86), none or   *)
(* two; the handlers of CommandDispatcherTest.cpp and of                   *)
(* zmq/FakeHandlerTest add one each.                                       *)
(***************************************************************************)
EXTENDS CommandExecution, TLC

CONSTANTS a1, a2, h1, h2, broker

MCAnswers == {a1, a2}
MCHandlers == {h1, h2, broker}
MCAcceptors == a1 :> {{broker}, {h1, broker}, MCHandlers} @@ a2 :> {{}}
MCResultCounts == h1 :> {1} @@ h2 :> {1} @@ broker :> {0, 2}
=============================================================================
