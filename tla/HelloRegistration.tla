-------------------------- MODULE HelloRegistration --------------------------
(***************************************************************************)
(* The hello exchange: the REQ socket of every zmq/ZMQClient, the REP      *)
(* socket of zmq/ZMQBroker and the table it fills, across restarts of the  *)
(* processes (systemd/beeeon-gateway.service restarts them on failure).    *)
(*                                                                         *)
(* A restarted device manager asks for a new identity, its old one stays   *)
(* in the table.  A restarted broker has an empty table, and the clients   *)
(* connected before keep the identity their data socket was given.         *)
(***************************************************************************)
EXTENDS DeviceManagerTable

CONSTANTS
    Managers,       \* device managers, each with one ZMQClient
    PrefixOf,       \* PrefixOf[m]: its m_devicePrefix
    MaxStarts,      \* bound: starts of one device manager
    MaxBrokers,     \* bound: starts of the broker
    None            \* no identity: m_deviceMangerID is null

Identity == [prefix : Prefixes, ident : Idents, broker : Nat]

ASSUME NoneAssumption == None \notin Identity
ASSUME PrefixAssumption == PrefixOf \in [Managers -> Prefixes]
ASSUME BoundsAssumption == MaxStarts \in Nat /\ MaxBrokers \in Nat

VARIABLES
    broker,     \* number of the running broker, counted from 1
    starts,     \* how often every device manager was started
    pc,         \* progress of ZMQClient::run()
    id,         \* m_deviceMangerID, with the broker that assigned it
    hello,      \* what is under way on the hello socket of the client
    granted,    \* the identity in the HELLO_RESPONSE under way
    orphans     \* requests at the broker whose client is gone

clientVars == <<starts, pc, id>>
vars == <<deviceManagers, broker, clientVars, hello, granted, orphans>>

Init ==
    /\ TableInit
    /\ broker = 1
    /\ starts = [m \in Managers |-> 0]
    /\ pc = [m \in Managers |-> "down"]
    /\ id = [m \in Managers |-> None]
    /\ hello = [m \in Managers |-> "none"]
    /\ granted = [m \in Managers |-> None]
    /\ orphans = [m \in Managers |-> 0]

Goto(m, label) == pc' = [pc EXCEPT ![m] = label]

----------------------------------------------------------------------------
(* ZMQClient::run() *)

\* configureHelloSockets() and the HELLO_REQUEST.
Start(m) ==
    /\ pc[m] = "down"
    /\ starts[m] < MaxStarts
    /\ starts' = [starts EXCEPT ![m] = @ + 1]
    /\ Goto(m, "asking")
    /\ hello' = [hello EXCEPT ![m] = "request"]
    /\ UNCHANGED <<deviceManagers, broker, id, granted, orphans>>

\* helloServerReceive() gets the HELLO_RESPONSE.
ReceiveResponse(m) ==
    /\ pc[m] = "asking"
    /\ hello[m] = "response"
    /\ id' = [id EXCEPT ![m] = granted[m]]
    /\ granted' = [granted EXCEPT ![m] = None]
    /\ hello' = [hello EXCEPT ![m] = "none"]
    /\ Goto(m, "named")
    /\ UNCHANGED <<deviceManagers, broker, starts, orphans>>

\* helloServerReceive() gets the error: its default branch reports it on the
\* data socket, which does not exist yet, and NullPointerException ends run().
ReceiveError(m) ==
    /\ pc[m] = "asking"
    /\ hello[m] = "error"
    /\ hello' = [hello EXCEPT ![m] = "none"]
    /\ Goto(m, "failed")
    /\ UNCHANGED <<deviceManagers, broker, starts, id, granted, orphans>>

\* configureDataSockets(): the DEALER connects under its identity.
ConfigureDataSockets(m) ==
    /\ pc[m] = "named"
    /\ Goto(m, "connected")
    /\ UNCHANGED <<deviceManagers, broker, starts, id, hello, granted, orphans>>

\* The process of the device manager ends, by stop() or a failure.  A request
\* the broker has not read may stay behind, a response is dropped.
Exit(m, left) ==
    /\ pc[m] # "down"
    /\ left => hello[m] = "request"
    /\ Goto(m, "down")
    /\ id' = [id EXCEPT ![m] = None]
    /\ hello' = [hello EXCEPT ![m] = "none"]
    /\ granted' = [granted EXCEPT ![m] = None]
    /\ orphans' = IF left THEN [orphans EXCEPT ![m] = @ + 1] ELSE orphans
    /\ UNCHANGED <<deviceManagers, broker, starts>>

----------------------------------------------------------------------------
(* ZMQBroker::helloServerReceive() -> registerDeviceManager() *)

\* Faulty RegisterDeviceManager: a full table leaves the request unanswered.
RegisterSilently(m) ==
    /\ hello[m] = "request"
    /\ IF IsFull
         THEN /\ hello' = [hello EXCEPT ![m] = "taken"]
              /\ UNCHANGED <<deviceManagers, granted>>
         ELSE /\ RegisterDaemonPrefix(PrefixOf[m])
              /\ hello' = [hello EXCEPT ![m] = "response"]
              /\ granted' = [granted EXCEPT ![m] =
                   [prefix |-> PrefixOf[m], ident |-> FirstEmptyID, broker |-> broker]]
    /\ UNCHANGED <<broker, clientVars, orphans>>

\* The broker registers the manager and answers with its identity, or with
\* ERROR_MAXIMUM_DEVICE_MANAGERS.
RegisterDeviceManager(m) ==
    /\ hello[m] = "request"
    /\ IF IsFull
         THEN /\ hello' = [hello EXCEPT ![m] = "error"]
              /\ UNCHANGED <<deviceManagers, granted>>
         ELSE /\ RegisterDaemonPrefix(PrefixOf[m])
              /\ hello' = [hello EXCEPT ![m] = "response"]
              /\ granted' = [granted EXCEPT ![m] =
                   [prefix |-> PrefixOf[m], ident |-> FirstEmptyID, broker |-> broker]]
    /\ UNCHANGED <<broker, clientVars, orphans>>

\* The same for a client that is gone: nobody gets the answer.
RegisterOrphan(m) ==
    /\ orphans[m] > 0
    /\ orphans' = [orphans EXCEPT ![m] = @ - 1]
    /\ \/ RegisterDaemonPrefix(PrefixOf[m])
       \/ IsFull /\ UNCHANGED deviceManagers
    /\ UNCHANGED <<broker, clientVars, hello, granted>>

\* The broker's process ends and is started again.  The messages in its
\* sockets are lost, those still in the clients' sockets are not; the REQ
\* sockets reconnect and wait for their response for ever.
RestartBroker(losing) ==
    /\ broker < MaxBrokers
    /\ broker' = broker + 1
    /\ deviceManagers' = <<>>
    /\ hello' = [m \in Managers |-> IF m \in losing THEN "lost" ELSE hello[m]]
    /\ granted' = [m \in Managers |-> IF m \in losing THEN None ELSE granted[m]]
    /\ orphans' = [m \in Managers |-> 0]
    /\ UNCHANGED clientVars

UnderWay == {m \in Managers : hello[m] \in {"request", "response", "error"}}

----------------------------------------------------------------------------

Client(m) ==
    \/ Start(m)
    \/ ReceiveResponse(m)
    \/ ReceiveError(m)
    \/ ConfigureDataSockets(m)
    \/ \E left \in BOOLEAN : Exit(m, left)

Next ==
    \/ \E m \in Managers : Client(m) \/ RegisterDeviceManager(m) \/ RegisterOrphan(m)
    \/ \E losing \in SUBSET UnderWay : RestartBroker(losing)

SafeSpec == Init /\ [][Next]_vars

\* Both sides poll their sockets in a loop.  Nothing obliges a process to end.
Fairness ==
    \A m \in Managers :
        /\ WF_vars(ReceiveResponse(m))
        /\ WF_vars(ReceiveError(m))
        /\ WF_vars(ConfigureDataSockets(m))
        /\ WF_vars(RegisterDeviceManager(m))

Spec == SafeSpec /\ Fairness

----------------------------------------------------------------------------
(* Properties. *)

\* Every variable has its type; the table never outgrows the 8-bit idents, and
\* a client has an identity from its HELLO_RESPONSE to its end.
TypeOK ==
    /\ deviceManagers \in Seq(DeviceManagerID)
    /\ Len(deviceManagers) <= IdentMax + 1
    /\ broker \in Nat \ {0}
    /\ starts \in [Managers -> Nat]
    /\ pc \in [Managers -> {"down", "asking", "named", "connected", "failed"}]
    /\ id \in [Managers -> Identity \cup {None}]
    /\ \A m \in Managers : id[m] # None <=> pc[m] \in {"named", "connected"}
    /\ hello \in [Managers -> {"none", "request", "response", "error", "lost"}]
    /\ \A m \in Managers : hello[m] # "none" <=> pc[m] = "asking"
    /\ granted \in [Managers -> Identity \cup {None}]
    /\ \A m \in Managers : granted[m] # None <=> hello[m] = "response"
    /\ orphans \in [Managers -> Nat]

\* The identities m has or is about to get.
Held(m) == {id[m], granted[m]} \ {None}

\* The data socket routes by identity (ZMQClient.cpp:62-64): no two clients hold
\* the same one from the same broker, whoever was restarted in between.
UniqueIdentity ==
    \A m, n \in Managers :
        Held(m) \cap Held(n) # {} => m = n

\* A client whose identity comes from the running broker is in its table once,
\* so that a command for all managers reaches it exactly once
\* (ZMQBroker.cpp:81-90).
RegisteredOnce ==
    \A m \in Managers : \A i \in Held(m) :
        i.broker = broker =>
            \E k \in DOMAIN deviceManagers :
                /\ deviceManagers[k].prefix = i.prefix
                /\ \A l \in DOMAIN deviceManagers :
                     deviceManagers[l].ident = i.ident <=> l = k

\* The identities that the running broker has given out.
Given == {deviceManagers[k] : k \in DOMAIN deviceManagers}

Lease == INSTANCE IdentityLease WITH
    Clients <- Managers, term <- broker, given <- Given, offered <- granted, kept <- id

\* Whatever ends and is started again with requests and responses under way: a
\* client keeps the identity that its HELLO_RESPONSE brings to its end, and the
\* broker never gives an ident out a second time (ZMQClient.cpp:62-64,
\* ZMQDeviceManagerTable.cpp:33-60).
ImplementsLease == Lease!Spec

\* Every client that asks is given an identity, refused because the table is
\* full, or ended, unless the broker was restarted under its request.
EveryRequestIsAnswered ==
    \A m \in Managers :
        pc[m] = "asking" ~> pc[m] # "asking" \/ hello[m] = "lost"
=============================================================================
