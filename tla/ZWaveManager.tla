----------------------------- MODULE ZWaveManager -----------------------------
(***************************************************************************)
(* The Z-Wave device manager (z-wave/ZWaveDeviceManager) with its          *)
(* NotificationProcessor: the thread of run(), the ZMQClient's thread,     *)
(* which calls onEvent(), OpenZWave's thread, which calls                  *)
(* onNotification(), and the threads of two Poco::Timers.                  *)
(*                                                                         *)
(* OpenZWave's Manager is external: its thread changes the network and     *)
(* notifies of one change before the next; it performs one command of the  *)
(* controller at a time.  The requests of the manager and their Answers    *)
(* are those of DeviceRequests; here only the answers to device lists are  *)
(* kept.  What is reported and written is modelled in ValueRelay.          *)
(***************************************************************************)
EXTENDS Integers, Sequences, FiniteSets

CONSTANTS
    Devices,        \* devices, with the Z-Wave node of each
    Values,         \* the values that a node may have
    MaxListens,     \* bound on the listen commands
    MaxUnpairs      \* bound on the unpair commands

ASSUME BoundsAssumption == MaxListens \in Nat /\ MaxUnpairs \in Nat

VARIABLES
    main,           \* progress of run()
    client,         \* the ZMQClient's thread
    managerUp,      \* OpenZWave's Manager exists, with the watcher
    stopped,        \* m_stop
    crashed,        \* the process has died: Manager::Get() was null
    driver,         \* how far OpenZWave's driver has come
    homeId,         \* m_homeId of the processor is set
    mainHomeId,     \* m_homeId of the device manager is set
    nodes,          \* OpenZWave's nodes
    identified,     \* those whose manufacturer and product are known
    network,        \* the values that OpenZWave has of each node
    shrunk,         \* history: nodes that have lost a value
    pending,        \* the notification that is being delivered
    nodesMap,       \* m_nodesMap: the nodes in it, with their m_values
    controller,     \* the command that the controller performs
    devices,        \* m_devices
    listen,         \* m_listen
    listenTimer,    \* m_derefListen
    unpairTimer,    \* m_derefUnpair
    early,          \* history: the listen timer has fired before AddNode()
    listens,        \* listen commands so far
    unpairs,        \* unpair commands so far
    requested,      \* device lists requested and not answered
    answers,        \* device lists answered and not taken by checkQueue()
    paired,         \* devices paired at the server
    heard           \* devices the server has heard of

startVars == <<main, managerUp, stopped, homeId, mainHomeId>>
networkVars == <<driver, nodes, identified, network, shrunk>>
listVars == <<requested, answers, devices>>
serverVars == <<paired, heard>>
timerVars == <<listen, listenTimer, unpairTimer, early>>
countVars == <<listens, unpairs>>
vars == <<startVars, networkVars, listVars, serverVars, timerVars, countVars,
          client, crashed, pending, nodesMap, controller>>

Nothing == [type |-> "none"]

Init ==
    /\ main = "start" /\ client = "off"
    /\ managerUp = FALSE /\ stopped = FALSE /\ crashed = FALSE
    /\ driver = "off"
    /\ homeId = FALSE /\ mainHomeId = FALSE
    /\ nodes = {} /\ identified = {} /\ shrunk = {}
    /\ network = [n \in Devices |-> {}]
    /\ pending = Nothing
    /\ nodesMap = [n \in {} |-> {}]
    /\ controller = "idle"
    /\ devices = {}
    /\ listen = FALSE
    /\ listenTimer = "new" /\ unpairTimer = "new" /\ early = FALSE
    /\ listens = 0 /\ unpairs = 0 /\ requested = 0
    /\ answers = <<>>
    /\ paired \in SUBSET Devices
    /\ heard = {}

\* A call through Manager::Get() before Create() or after Destroy().
Crash ==
    /\ ~managerUp
    /\ crashed' = TRUE

\* The controller takes a command when it is idle; when it is not, the
\* command is refused or replaces the other one.
Begin(command) ==
    IF mainHomeId THEN controller' \in {command, IF controller = "idle" THEN command ELSE controller}
                  ELSE UNCHANGED controller

\* CancelControllerCommand().
Cancel == controller' = IF mainHomeId THEN "idle" ELSE controller

----------------------------------------------------------------------------
(* run(). *)

\* installManufacturers(), installOption(), runClient(), sleep(1).
RunClient ==
    /\ ~crashed /\ main = "start"
    /\ main' = "client"
    /\ client' = "idle"
    /\ UNCHANGED <<managerUp, stopped, homeId, mainHomeId, networkVars, listVars, serverVars,
                   timerVars, countVars, crashed, pending, nodesMap, controller>>

\* Manager::Create(), AddWatcher(), registerItself().
CreateManager ==
    /\ ~crashed /\ main = "client"
    /\ main' = "created"
    /\ managerUp' = TRUE
    /\ driver' = "starting"
    /\ UNCHANGED <<stopped, homeId, mainHomeId, nodes, identified, network, shrunk, listVars,
                   serverVars, timerVars, countVars, client, crashed, pending, nodesMap, controller>>

\* waitUntilQueried(): the wait on the condition, without a predicate.
Wait ==
    /\ ~crashed /\ main = "created"
    /\ main' = "wait"
    /\ UNCHANGED <<managerUp, stopped, homeId, mainHomeId, networkVars, listVars, serverVars,
                   timerVars, countVars, client, crashed, pending, nodesMap, controller>>

\* getDeviceList(): clears m_devices and sends the request.
Request ==
    /\ devices' = {}
    /\ requested' = requested + 1
    /\ UNCHANGED answers

\* After the wait: homeID(), getDeviceList().
StartLoop ==
    /\ ~crashed /\ main = "queried"
    /\ main' = "loop"
    /\ mainHomeId' = homeId
    /\ Request
    /\ UNCHANGED <<managerUp, stopped, homeId, networkVars, serverVars, timerVars, countVars,
                   client, crashed, pending, nodesMap, controller>>

\* checkQueue() takes the answer to a device list and clears m_devices.
TakeAnswer ==
    /\ ~crashed /\ main = "loop" /\ ~stopped
    /\ answers # <<>>
    /\ main' = "fill"
    /\ devices' = {}
    /\ UNCHANGED <<managerUp, stopped, homeId, mainHomeId, networkVars, requested, answers,
                   serverVars, timerVars, countVars, client, crashed, pending, nodesMap, controller>>

\* m_devices is filled, and setLastState() reads the manufacturer of every
\* device: parseHex() throws for a node without one, which ends run().
FillDevices ==
    /\ ~crashed /\ main = "fill"
    /\ devices' = answers[1]
    /\ answers' = Tail(answers)
    /\ IF answers[1] # {} /\ ~managerUp
       THEN Crash /\ UNCHANGED main
       ELSE /\ main' = IF answers[1] \subseteq identified THEN "loop" ELSE "dead"
            /\ UNCHANGED crashed
    /\ UNCHANGED <<managerUp, stopped, homeId, mainHomeId, networkVars, requested, serverVars,
                   timerVars, countVars, client, pending, nodesMap, controller>>

\* The loop's condition.
EndRun ==
    /\ ~crashed /\ main = "loop" /\ stopped
    /\ main' = "ended"
    /\ UNCHANGED <<managerUp, stopped, homeId, mainHomeId, networkVars, listVars, serverVars,
                   timerVars, countVars, client, crashed, pending, nodesMap, controller>>

\* stop(), by another thread, once there is a driver to unregister.
Stop ==
    /\ ~crashed /\ managerUp
    /\ managerUp' = FALSE
    /\ stopped' = TRUE
    /\ driver' = "off"
    /\ pending' = Nothing
    /\ client' = IF client = "adding" THEN client ELSE "off"
    /\ UNCHANGED <<main, homeId, mainHomeId, nodes, identified, network, shrunk, listVars,
                   serverVars, timerVars, countVars, crashed, nodesMap, controller>>

----------------------------------------------------------------------------
(* onEvent(), in the client's thread. *)

\* doListenCommand() up to startListen().  The timer can be started once: the
\* second start throws, which ends the client's thread (ZMQClient::run()).  A
\* duration of less than a second arrives as none ("short").
ListenCommand(interval) ==
    /\ ~crashed /\ client = "idle"
    /\ listens < MaxListens
    /\ listens' = listens + 1
    /\ listen' = TRUE
    /\ IF listenTimer = "new"
       THEN listenTimer' = interval /\ client' = "adding"
       ELSE client' = "dead" /\ UNCHANGED listenTimer
    /\ UNCHANGED <<startVars, networkVars, listVars, serverVars, unpairTimer, early, unpairs, crashed,
                   pending, nodesMap, controller>>

\* AddNode(), after startListen().
AddNode ==
    /\ ~crashed /\ client = "adding"
    /\ IF managerUp
       THEN Begin("adding") /\ client' = "idle" /\ UNCHANGED crashed
       ELSE Crash /\ UNCHANGED <<client, controller>>
    /\ UNCHANGED <<startVars, networkVars, listVars, serverVars, timerVars, countVars,
                   pending, nodesMap>>

\* doDeviceUnpairCommand(), of a device that the server has just unpaired.
UnpairCommand(d) ==
    /\ ~crashed /\ client = "idle"
    /\ unpairs < MaxUnpairs /\ d \in paired
    /\ unpairs' = unpairs + 1
    /\ paired' = paired \ {d}
    /\ devices' = devices \ {d}
    /\ IF managerUp
       THEN /\ Begin("removing")
            /\ IF unpairTimer = "new" THEN unpairTimer' = "running" /\ UNCHANGED client
                                      ELSE client' = "dead" /\ UNCHANGED unpairTimer
            /\ UNCHANGED crashed
       ELSE Crash /\ UNCHANGED <<controller, unpairTimer, client>>
    /\ UNCHANGED <<startVars, networkVars, requested, answers, heard, listen, listenTimer,
                   early, listens, pending, nodesMap>>

\* doSetValueCommand(): of a node that is not identified, manufacturer and
\* product are uninitialized; create() may find a product or throw.
SetValueCommand(d) ==
    /\ ~crashed /\ client = "idle" /\ d \in paired
    /\ IF managerUp
       THEN client' \in {"idle"} \cup (IF d \in identified THEN {} ELSE {"dead"}) /\ UNCHANGED crashed
       ELSE Crash /\ UNCHANGED client
    /\ UNCHANGED <<startVars, networkVars, listVars, serverVars, timerVars, countVars,
                   pending, nodesMap, controller>>

\* doDeviceListResult(), with the devices that are paired at the server.
ListResult ==
    /\ ~crashed /\ client = "idle"
    /\ requested > 0
    /\ requested' = requested - 1
    /\ answers' = Append(answers, paired)
    /\ UNCHANGED <<startVars, networkVars, devices, serverVars, timerVars, countVars, client,
                   crashed, pending, nodesMap, controller>>

\* The server pairs a device that it has heard of.
Pair(d) ==
    /\ d \in heard \ paired
    /\ paired' = paired \cup {d}
    /\ UNCHANGED <<startVars, networkVars, listVars, heard, timerVars, countVars, client,
                   crashed, pending, nodesMap, controller>>

----------------------------------------------------------------------------
(* The timers. *)

\* Faulty StopListen: the controller's command is not cancelled.
StopListenOnly ==
    /\ ~crashed
    /\ \/ listenTimer = "running" /\ client # "adding"
       \/ listenTimer = "short"
    /\ listenTimer' = "fired"
    /\ early' = (client = "adding")
    /\ listen' = FALSE /\ Request
    /\ UNCHANGED <<startVars, networkVars, serverVars, unpairTimer, countVars, client, crashed,
                   pending, nodesMap, controller>>

\* Faulty StopListen: m_listen stays set.
KeepListening ==
    /\ ~crashed
    /\ \/ listenTimer = "running" /\ client # "adding"
       \/ listenTimer = "short"
    /\ listenTimer' = "fired"
    /\ early' = (client = "adding")
    /\ Cancel /\ Request
    /\ UNCHANGED <<startVars, networkVars, serverVars, listen, unpairTimer, countVars, client,
                   crashed, pending, nodesMap>>

\* stopListen().  An interval of a second or more does not end before AddNode().
StopListen ==
    /\ ~crashed
    /\ \/ listenTimer = "running" /\ client # "adding"
       \/ listenTimer = "short"
    /\ listenTimer' = "fired"
    /\ early' = (client = "adding")
    /\ IF managerUp
       THEN Cancel /\ listen' = FALSE /\ Request /\ UNCHANGED crashed
       ELSE Crash /\ UNCHANGED <<controller, listen, listVars>>
    /\ UNCHANGED <<startVars, networkVars, serverVars, unpairTimer, countVars, client,
                   pending, nodesMap>>

\* stopUnpair().
StopUnpair ==
    /\ ~crashed
    /\ unpairTimer = "running"
    /\ unpairTimer' = "fired"
    /\ IF managerUp THEN Cancel /\ UNCHANGED crashed
                    ELSE Crash /\ UNCHANGED controller
    /\ UNCHANGED <<startVars, networkVars, listVars, serverVars, listen, listenTimer, early, countVars,
                   client, pending, nodesMap>>

----------------------------------------------------------------------------
(* OpenZWave's thread: a change and its notification. *)

Notify(notification) ==
    /\ ~crashed /\ managerUp
    /\ pending = Nothing
    /\ pending' = notification

DriverReady ==
    /\ driver = "starting" /\ Notify([type |-> "DriverReady"])
    /\ driver' = "ready"
    /\ UNCHANGED <<startVars, nodes, identified, network, shrunk, listVars, serverVars, timerVars,
                   countVars, client, crashed, nodesMap, controller>>

DriverFails ==
    /\ driver = "starting" /\ Notify([type |-> "DriverFailed"])
    /\ driver' = "failed"
    /\ UNCHANGED <<startVars, nodes, identified, network, shrunk, listVars, serverVars, timerVars,
                   countVars, client, crashed, nodesMap, controller>>

\* The awake nodes have been queried, and later all of them.
Queried ==
    /\ driver \in {"ready", "awake"} /\ Notify([type |-> "Queried"])
    /\ driver' = IF driver = "ready" THEN "awake" ELSE "all"
    /\ UNCHANGED <<startVars, nodes, identified, network, shrunk, listVars, serverVars, timerVars,
                   countVars, client, crashed, nodesMap, controller>>

\* A node that the controller knows at the start, or that joins.
NodeAppears(n) ==
    /\ driver = "ready" \/ (driver \in {"awake", "all"} /\ controller = "adding")
    /\ n \notin nodes
    /\ Notify([type |-> "NodeAdded", node |-> n])
    /\ nodes' = nodes \cup {n}
    /\ UNCHANGED <<startVars, driver, identified, network, shrunk, listVars, serverVars, timerVars,
                   countVars, client, crashed, nodesMap, controller>>

\* A node leaves, which completes the controller's command.
NodeLeaves(n) ==
    /\ controller = "removing" /\ n \in nodes
    /\ Notify([type |-> "NodeRemoved", node |-> n])
    /\ nodes' = nodes \ {n}
    /\ identified' = identified \ {n}
    /\ network' = [network EXCEPT ![n] = {}]
    /\ shrunk' = shrunk \ {n}
    /\ controller' = "idle"
    /\ UNCHANGED <<startVars, driver, listVars, serverVars, timerVars, countVars, client, crashed,
                   nodesMap>>

\* No notification that the manager looks at.
NodeIdentified(n) ==
    /\ ~crashed /\ managerUp /\ pending = Nothing
    /\ n \in nodes \ identified
    /\ identified' = identified \cup {n}
    /\ UNCHANGED <<startVars, driver, nodes, network, shrunk, listVars, serverVars, timerVars,
                   countVars, client, crashed, pending, nodesMap, controller>>

ValueAppears(n, v) ==
    /\ n \in nodes /\ v \notin network[n]
    /\ Notify([type |-> "ValueAdded", node |-> n, value |-> v])
    /\ network' = [network EXCEPT ![n] = @ \cup {v}]
    /\ UNCHANGED <<startVars, driver, nodes, identified, shrunk, listVars, serverVars, timerVars,
                   countVars, client, crashed, nodesMap, controller>>

ValueDisappears(n, v) ==
    /\ n \in nodes /\ v \in network[n]
    /\ Notify([type |-> "ValueRemoved", node |-> n])
    /\ network' = [network EXCEPT ![n] = @ \ {v}]
    /\ shrunk' = shrunk \cup {n}
    /\ UNCHANGED <<startVars, driver, nodes, identified, listVars, serverVars, timerVars,
                   countVars, client, crashed, nodesMap, controller>>

ValueChanges(n) ==
    /\ n \in nodes /\ network[n] # {}
    /\ Notify([type |-> "ValueChanged", node |-> n])
    /\ UNCHANGED <<startVars, networkVars, listVars, serverVars, timerVars, countVars, client,
                   crashed, nodesMap, controller>>

----------------------------------------------------------------------------
(* NotificationProcessor::onNotification(), under m_lock. *)

Delivered(type) ==
    /\ ~crashed /\ pending.type = type
    /\ pending' = Nothing

\* The map without a node.
Without(n) == [k \in DOMAIN nodesMap \ {n} |-> nodesMap[k]]

deliverVars == <<managerUp, stopped, mainHomeId, networkVars, listVars, timerVars, countVars,
                 client, crashed, paired>>

\* DriverReady: m_homeId.
OnReady ==
    /\ Delivered("DriverReady")
    /\ homeId' = TRUE
    /\ UNCHANGED <<deliverVars, main, nodesMap, controller, heard>>

\* Faulty OnBroadcast: not when the driver has failed.
BroadcastQueried ==
    /\ \/ Delivered("DriverFailed") /\ UNCHANGED main
       \/ Delivered("Queried") /\ main' = IF main = "wait" THEN "queried" ELSE main
    /\ UNCHANGED <<deliverVars, homeId, nodesMap, controller, heard>>

\* DriverFailed and the three kinds of nodes queried: broadcast() wakes
\* whoever waits now.
OnBroadcast ==
    /\ \/ Delivered("DriverFailed")
       \/ Delivered("Queried")
    /\ main' = IF main = "wait" THEN "queried" ELSE main
    /\ UNCHANGED <<deliverVars, homeId, nodesMap, controller, heard>>

\* nodeAdded(): emplace() keeps an entry that is there; the controller's
\* command is cancelled.
OnNodeAdded ==
    /\ Delivered("NodeAdded")
    /\ nodesMap' = [k \in DOMAIN nodesMap \cup {pending.node} |->
                        IF k \in DOMAIN nodesMap THEN nodesMap[k] ELSE {}]
    /\ controller' = "idle"
    /\ UNCHANGED <<deliverVars, main, homeId, heard>>

\* Faulty OnRemoved: nodeRemoved() without its erase().
OnRemovedKept ==
    /\ Delivered("NodeRemoved") \/ Delivered("ValueRemoved")
    /\ nodesMap' = IF pending.type = "NodeRemoved" THEN nodesMap ELSE Without(pending.node)
    /\ UNCHANGED <<deliverVars, main, homeId, controller, heard>>

\* nodeRemoved(), and valueRemoved(), which erases the whole node, too.
OnRemoved ==
    /\ Delivered("NodeRemoved") \/ Delivered("ValueRemoved")
    /\ nodesMap' = Without(pending.node)
    /\ UNCHANGED <<deliverVars, main, homeId, controller, heard>>

\* valueAdded(): of a node in the map.
OnValueAdded ==
    /\ Delivered("ValueAdded")
    /\ nodesMap' = [k \in DOMAIN nodesMap |->
                        IF k = pending.node THEN nodesMap[k] \cup {pending.value} ELSE nodesMap[k]]
    /\ UNCHANGED <<deliverVars, main, homeId, controller, heard>>

\* valueChanged() and sendValue(): of a node in the map whose product is
\* known, and whose device is paired or listened for.
OnValueChanged ==
    /\ Delivered("ValueChanged")
    /\ heard' = IF /\ pending.node \in DOMAIN nodesMap \cap identified
                   /\ pending.node \in devices \/ listen
                THEN heard \cup {pending.node}
                ELSE heard
    /\ UNCHANGED <<deliverVars, main, homeId, nodesMap, controller>>

Deliver ==
    \/ OnReady \/ OnBroadcast \/ OnNodeAdded \/ OnRemoved \/ OnValueAdded \/ OnValueChanged

----------------------------------------------------------------------------

Main == RunClient \/ CreateManager \/ Wait \/ StartLoop \/ TakeAnswer \/ FillDevices \/ EndRun

Next ==
    \/ Main \/ Stop
    \/ \E interval \in {"running", "short"} : ListenCommand(interval)
    \/ AddNode \/ ListResult
    \/ \E d \in Devices : UnpairCommand(d) \/ SetValueCommand(d) \/ Pair(d)
    \/ StopListen \/ StopUnpair
    \/ DriverReady \/ DriverFails \/ Queried
    \/ \E n \in Devices : NodeAppears(n) \/ NodeLeaves(n) \/ NodeIdentified(n) \/ ValueChanges(n)
    \/ \E n \in Devices, v \in Values : ValueAppears(n, v) \/ ValueDisappears(n, v)
    \/ Deliver

\* The threads go on, the timers fire, and OpenZWave's driver starts or
\* fails, and announces that the nodes have been queried.
Fairness ==
    /\ WF_vars(Main) /\ WF_vars(AddNode)
    /\ WF_vars(StopListen) /\ WF_vars(StopUnpair)
    /\ WF_vars(Deliver)
    /\ WF_vars(DriverReady \/ DriverFails) /\ SF_vars(Queried)

Spec == Init /\ [][Next]_vars /\ Fairness

----------------------------------------------------------------------------
(* Properties. *)

\* Between notifications, m_nodesMap has no node and no value that OpenZWave
\* has not any more, and it has all the values of a node, unless a value of
\* the node was removed: then the whole node is gone for good, with the values
\* that remain (NotificationProcessor.cpp:48, 131, 142 and 152).
MapFollowsNetwork ==
    pending = Nothing /\ managerUp =>
        /\ \A n \in DOMAIN nodesMap : n \in nodes /\ nodesMap[n] = network[n]
        /\ nodes \ shrunk \subseteq DOMAIN nodesMap

\* Listening ends (GatewayListenCommand.h:11-14), unless the process dies or
\* is stopped: the timer ends it.
ListenEnds == listen ~> (~listen \/ crashed \/ stopped)

\* The controller does not stay in the mode of adding or removing nodes, with
\* two exceptions that nothing cancels: the interval was short and ended before
\* AddNode(), or a second unpair command called RemoveNode() and then could not
\* start its timer again (ZWaveDeviceManager.cpp:103-111, 124-130, 325-339 and
\* 363-367).
ControllerIsReleased ==
    controller # "idle" ~>
        \/ controller = "idle" \/ crashed \/ stopped
        \/ early
        \/ client = "dead" /\ unpairs > 1 /\ unpairTimer = "fired"

\* run() gets past its wait when it waits before OpenZWave's first broadcast
\* (NotificationProcessor.cpp:27-32 and 204-226).
StartUpEnds ==
    main = "wait" /\ driver \in {"starting", "ready"} ~> main # "wait" \/ crashed \/ stopped
=============================================================================
