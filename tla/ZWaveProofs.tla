------------------------------ MODULE ZWaveProofs ------------------------------
(***************************************************************************)
(* What is proved of Z-Wave nodes and their values.  First ZWaveManager:   *)
(* the map of nodes agrees with OpenZWave's network, for any nodes and     *)
(* values and any interleaving of the threads.  Then ValueRelay, of which  *)
(* the Jablotron's devices are a part too: a value arrives as it was sent, *)
(* for any nodes, texts, settings and messages under way.                  *)
(***************************************************************************)
EXTENDS ZWaveManager, ValueRelay, TLAPS

\* The notifications that OpenZWave delivers.
Notifications ==
    [type : {"DriverReady", "DriverFailed", "Queried"}]
    \cup [type : {"NodeAdded", "NodeRemoved", "ValueRemoved", "ValueChanged"}, node : Devices]
    \cup [type : {"ValueAdded"}, node : Devices, value : Values]

\* The types of what the map and the network consist of; a node that is not
\* there has no values.
NetworkTypes ==
    /\ nodes \in SUBSET Devices
    /\ shrunk \in SUBSET nodes
    /\ network \in [Devices -> SUBSET Values]
    /\ \A n \in Devices \ nodes : network[n] = {}
    /\ pending \in Notifications \cup {Nothing}
    /\ nodesMap = [n \in DOMAIN nodesMap |-> nodesMap[n]]
    /\ DOMAIN nodesMap \in SUBSET Devices

\* OpenZWave is created once, with an empty map.
CreatedOnce ==
    main \in {"start", "client"} =>
        nodes = {} /\ DOMAIN nodesMap = {} /\ pending = Nothing /\ ~managerUp

\* The entry of a node is that of the network.
EntryFollows(n) ==
    /\ n \in DOMAIN nodesMap => n \in nodes /\ nodesMap[n] = network[n]
    /\ n \in nodes \ shrunk => n \in DOMAIN nodesMap

\* ... or is one notification behind.
EntryIsBehind(n) ==
    \/ /\ pending.type = "NodeAdded" /\ n = pending.node
       /\ n \in nodes /\ n \notin DOMAIN nodesMap /\ network[n] = {}
    \/ /\ pending.type = "NodeRemoved" /\ n = pending.node
       /\ n \notin nodes
    \/ /\ pending.type = "ValueAdded" /\ n = pending.node
       /\ n \in nodes
       /\ n \in DOMAIN nodesMap => nodesMap[n] \cup {pending.value} = network[n]
       /\ n \in nodes \ shrunk => n \in DOMAIN nodesMap
    \/ /\ pending.type = "ValueRemoved" /\ n = pending.node
       /\ n \in shrunk

\* What is being delivered is about n's entry.
Affected(n) ==
    /\ pending.type \in {"NodeAdded", "NodeRemoved", "ValueAdded", "ValueRemoved"}
    /\ n = pending.node

MapIsCloseBehind ==
    managerUp => \A n \in Devices :
        /\ ~Affected(n) => EntryFollows(n)
        /\ Affected(n) => EntryIsBehind(n)

IInv == NetworkTypes /\ CreatedOnce /\ MapIsCloseBehind

----------------------------------------------------------------------------

LEMMA InitHolds == Init => IInv
BY DEF Init, IInv, NetworkTypes, CreatedOnce, MapIsCloseBehind

\* A step that changes neither the network nor the map nor what is delivered.
LEMMA OtherStep ==
    ASSUME IInv, UNCHANGED <<nodes, network, shrunk, nodesMap, pending>>,
           managerUp' => managerUp,
           main' \in {"start", "client"} => main \in {"start", "client"}
    PROVE  IInv'
BY DEF IInv, NetworkTypes, CreatedOnce, MapIsCloseBehind, EntryFollows, EntryIsBehind, Affected

LEMMA CreateStep == IInv /\ CreateManager => IInv'
<1> SUFFICES ASSUME IInv, CreateManager PROVE IInv'
  OBVIOUS
<1>1. NetworkTypes' /\ nodes' = {} /\ DOMAIN nodesMap' = {}
  BY DEF CreateManager, IInv, NetworkTypes, CreatedOnce
<1> QED
  BY <1>1 DEF CreateManager, IInv, CreatedOnce, MapIsCloseBehind, EntryFollows, Affected, Nothing

LEMMA StopStep == IInv /\ Stop => IInv'
BY DEF Stop, IInv, NetworkTypes, CreatedOnce, MapIsCloseBehind

----------------------------------------------------------------------------
(* OpenZWave. *)

\* Between notifications every entry follows.
LEMMA NothingBehind ==
    ASSUME IInv, pending = Nothing, managerUp
    PROVE  \A n \in Devices : EntryFollows(n)
BY DEF IInv, MapIsCloseBehind, Affected, Nothing

LEMMA NotifiedStep ==
    ASSUME IInv, NEW x \in Notifications, Notify(x),
           x.type \in {"DriverReady", "DriverFailed", "Queried", "ValueChanged"},
           UNCHANGED <<nodes, network, shrunk, nodesMap, managerUp, main>>
    PROVE  IInv'
<1>1. NetworkTypes' /\ CreatedOnce'
  BY DEF IInv, NetworkTypes, CreatedOnce, Notify
<1>2. \A n \in Devices : EntryFollows(n)'
  BY NothingBehind DEF Notify, EntryFollows
<1> QED
  BY <1>1, <1>2 DEF IInv, MapIsCloseBehind, Affected, Notify

LEMMA NodeAppearsStep ==
    ASSUME IInv, NEW d \in Devices, NodeAppears(d)
    PROVE  IInv'
<1> USE DEF NodeAppears, Notify, startVars
<1>1. \A n \in Devices : EntryFollows(n)
  BY NothingBehind
<1>2. NetworkTypes' /\ CreatedOnce'
  BY DEF IInv, NetworkTypes, CreatedOnce, Notifications
<1>3. \A n \in Devices \ {d} : EntryFollows(n)'
  BY <1>1 DEF EntryFollows
<1>4. pending'.type = "NodeAdded" /\ pending'.node = d
  OBVIOUS
<1>5. EntryIsBehind(d)'
  BY <1>1, <1>4 DEF EntryFollows, EntryIsBehind, IInv, NetworkTypes
<1> QED
  BY <1>2, <1>3, <1>4, <1>5 DEF IInv, MapIsCloseBehind, Affected

LEMMA NodeLeavesStep ==
    ASSUME IInv, NEW d \in Devices, NodeLeaves(d)
    PROVE  IInv'
<1> USE DEF NodeLeaves, Notify, startVars
<1>1. \A n \in Devices : EntryFollows(n)
  BY NothingBehind
<1>2. NetworkTypes' /\ CreatedOnce'
  BY DEF IInv, NetworkTypes, CreatedOnce, Notifications
<1>3. \A n \in Devices \ {d} : EntryFollows(n)'
  BY <1>1 DEF EntryFollows, IInv, NetworkTypes
<1>4. pending'.type = "NodeRemoved" /\ pending'.node = d
  OBVIOUS
<1>5. EntryIsBehind(d)'
  BY <1>4 DEF EntryIsBehind
<1> QED
  BY <1>2, <1>3, <1>4, <1>5 DEF IInv, MapIsCloseBehind, Affected

LEMMA ValueAppearsStep ==
    ASSUME IInv, NEW d \in Devices, NEW v \in Values, ValueAppears(d, v)
    PROVE  IInv'
<1> USE DEF ValueAppears, Notify, startVars
<1>1. \A n \in Devices : EntryFollows(n)
  BY NothingBehind
<1>2. NetworkTypes' /\ CreatedOnce'
  BY DEF IInv, NetworkTypes, CreatedOnce, Notifications
<1>3. \A n \in Devices \ {d} : EntryFollows(n)'
  BY <1>1 DEF EntryFollows, IInv, NetworkTypes
<1>4. pending'.type = "ValueAdded" /\ pending'.node = d /\ pending'.value = v
  OBVIOUS
<1>5. network'[d] = network[d] \cup {v}
  BY DEF IInv, NetworkTypes
<1>6. EntryIsBehind(d)'
  BY <1>1, <1>4, <1>5 DEF EntryFollows, EntryIsBehind
<1> QED
  BY <1>2, <1>3, <1>4, <1>6 DEF IInv, MapIsCloseBehind, Affected

LEMMA ValueDisappearsStep ==
    ASSUME IInv, NEW d \in Devices, NEW v \in Values, ValueDisappears(d, v)
    PROVE  IInv'
<1> USE DEF ValueDisappears, Notify, startVars
<1>1. \A n \in Devices : EntryFollows(n)
  BY NothingBehind
<1>2. NetworkTypes' /\ CreatedOnce'
  BY DEF IInv, NetworkTypes, CreatedOnce, Notifications
<1>3. \A n \in Devices \ {d} : EntryFollows(n)'
  BY <1>1 DEF EntryFollows, IInv, NetworkTypes
<1>4. pending'.type = "ValueRemoved" /\ pending'.node = d
  OBVIOUS
<1>5. EntryIsBehind(d)'
  BY <1>4 DEF EntryIsBehind
<1> QED
  BY <1>2, <1>3, <1>4, <1>5 DEF IInv, MapIsCloseBehind, Affected

----------------------------------------------------------------------------
(* The NotificationProcessor. *)

\* Once the entry that is behind has caught up, every entry follows.
LEMMA DeliverStep == IInv /\ Deliver => IInv'
<1> SUFFICES ASSUME IInv, Deliver PROVE IInv'
  OBVIOUS
<1> DEFINE Kept == UNCHANGED <<managerUp, nodes, network, shrunk>>
<1>1. /\ pending # Nothing /\ pending' = Nothing /\ pending \in Notifications
      /\ Kept
      /\ main' \in {"start", "client"} => main \in {"start", "client"}
  BY DEF Deliver, OnReady, OnBroadcast, OnNodeAdded, OnRemoved, OnValueAdded, OnValueChanged,
         Delivered, Nothing, deliverVars, networkVars, IInv, NetworkTypes
<1>2. CreatedOnce'
  BY <1>1 DEF IInv, CreatedOnce
<1>3. ASSUME OnReady \/ OnBroadcast \/ OnValueChanged
      PROVE  NetworkTypes' /\ MapIsCloseBehind'
  <2>1. UNCHANGED nodesMap /\ pending.type \in {"DriverReady", "DriverFailed", "Queried", "ValueChanged"}
    BY <1>3 DEF OnReady, OnBroadcast, OnValueChanged, Delivered
  <2>2. managerUp => \A n \in Devices : EntryFollows(n)
    BY <2>1 DEF IInv, MapIsCloseBehind, Affected
  <2> QED
    BY <1>1, <2>1, <2>2 DEF IInv, NetworkTypes, MapIsCloseBehind, EntryFollows, Affected, Nothing
<1>4. ASSUME OnNodeAdded
      PROVE  NetworkTypes' /\ MapIsCloseBehind'
  <2>1. /\ pending.type = "NodeAdded" /\ pending.node \in Devices
        /\ nodesMap' = [k \in DOMAIN nodesMap \cup {pending.node} |->
                            IF k \in DOMAIN nodesMap THEN nodesMap[k] ELSE {}]
    BY <1>1, <1>4 DEF OnNodeAdded, Delivered, Notifications
  <2>2. managerUp => \A n \in Devices : EntryFollows(n)'
    <3> SUFFICES ASSUME managerUp, NEW n \in Devices PROVE EntryFollows(n)'
      OBVIOUS
    <3>1. CASE n = pending.node
      <4>1. EntryIsBehind(n)
        BY <2>1, <3>1 DEF IInv, MapIsCloseBehind, Affected
      <4> QED
        BY <1>1, <2>1, <3>1, <4>1 DEF EntryFollows, EntryIsBehind
    <3>2. CASE n # pending.node
      <4>1. EntryFollows(n)
        BY <3>2 DEF IInv, MapIsCloseBehind, Affected
      <4> QED
        BY <1>1, <2>1, <3>2, <4>1 DEF EntryFollows
    <3> QED
      BY <3>1, <3>2
  <2>3. NetworkTypes'
    BY <1>1, <2>1 DEF IInv, NetworkTypes
  <2> QED
    BY <1>1, <2>2, <2>3 DEF MapIsCloseBehind, Affected, Nothing
<1>5. ASSUME OnRemoved
      PROVE  NetworkTypes' /\ MapIsCloseBehind'
  <2>1. /\ pending.type \in {"NodeRemoved", "ValueRemoved"}
        /\ nodesMap' = [k \in DOMAIN nodesMap \ {pending.node} |-> nodesMap[k]]
    BY <1>5 DEF OnRemoved, Delivered, Without
  <2>2. managerUp => \A n \in Devices : EntryFollows(n)'
    <3> SUFFICES ASSUME managerUp, NEW n \in Devices PROVE EntryFollows(n)'
      OBVIOUS
    <3>1. CASE n = pending.node
      <4>1. EntryIsBehind(n)
        BY <2>1, <3>1 DEF IInv, MapIsCloseBehind, Affected
      <4> QED
        BY <1>1, <2>1, <3>1, <4>1 DEF EntryFollows, EntryIsBehind
    <3>2. CASE n # pending.node
      <4>1. EntryFollows(n)
        BY <3>2 DEF IInv, MapIsCloseBehind, Affected
      <4> QED
        BY <1>1, <2>1, <3>2, <4>1 DEF EntryFollows
    <3> QED
      BY <3>1, <3>2
  <2>3. NetworkTypes'
    BY <1>1, <2>1 DEF IInv, NetworkTypes
  <2> QED
    BY <1>1, <2>2, <2>3 DEF MapIsCloseBehind, Affected, Nothing
<1>6. ASSUME OnValueAdded
      PROVE  NetworkTypes' /\ MapIsCloseBehind'
  <2>1. /\ pending.type = "ValueAdded" /\ pending.node \in Devices
        /\ nodesMap' = [k \in DOMAIN nodesMap |->
                            IF k = pending.node THEN nodesMap[k] \cup {pending.value} ELSE nodesMap[k]]
    BY <1>1, <1>6 DEF OnValueAdded, Delivered, Notifications
  <2>2. managerUp => \A n \in Devices : EntryFollows(n)'
    <3> SUFFICES ASSUME managerUp, NEW n \in Devices PROVE EntryFollows(n)'
      OBVIOUS
    <3>1. CASE n = pending.node
      <4>1. EntryIsBehind(n)
        BY <2>1, <3>1 DEF IInv, MapIsCloseBehind, Affected
      <4> QED
        BY <1>1, <2>1, <3>1, <4>1 DEF EntryFollows, EntryIsBehind
    <3>2. CASE n # pending.node
      <4>1. EntryFollows(n)
        BY <3>2 DEF IInv, MapIsCloseBehind, Affected
      <4> QED
        BY <1>1, <2>1, <3>2, <4>1 DEF EntryFollows
    <3> QED
      BY <3>1, <3>2
  <2>3. NetworkTypes'
    BY <1>1, <2>1 DEF IInv, NetworkTypes
  <2> QED
    BY <1>1, <2>2, <2>3 DEF MapIsCloseBehind, Affected, Nothing
<1> QED
  BY <1>2, <1>3, <1>4, <1>5, <1>6 DEF Deliver, IInv

----------------------------------------------------------------------------

LEMMA InvStep == IInv /\ [Next]_vars => IInv'
<1> SUFFICES ASSUME IInv, [Next]_vars PROVE IInv'
  OBVIOUS
<1> USE DEF startVars, networkVars
<1>1. CASE RunClient \/ Wait \/ StartLoop \/ TakeAnswer \/ FillDevices \/ EndRun
  BY <1>1, OtherStep DEF RunClient, Wait, StartLoop, TakeAnswer, FillDevices, EndRun
<1>2. CASE AddNode \/ ListResult \/ StopListen \/ StopUnpair
  BY <1>2, OtherStep DEF AddNode, ListResult, StopListen, StopUnpair
<1>3. CASE \E interval \in {"running", "short"} : ListenCommand(interval)
  BY <1>3, OtherStep DEF ListenCommand
<1>4. CASE \E d \in Devices : UnpairCommand(d) \/ SetValueCommand(d) \/ Pair(d) \/ NodeIdentified(d)
  BY <1>4, OtherStep DEF UnpairCommand, SetValueCommand, Pair, NodeIdentified
<1>5. CASE DriverReady \/ DriverFails \/ Queried
  <2>1. \A t \in {"DriverReady", "DriverFailed", "Queried"} : [type |-> t] \in Notifications
    BY DEF Notifications
  <2> QED
    BY <1>5, <2>1, NotifiedStep DEF DriverReady, DriverFails, Queried
<1>6. CASE \E n \in Devices : ValueChanges(n)
  <2>1. \A n \in Devices : [type |-> "ValueChanged", node |-> n] \in Notifications
    BY DEF Notifications
  <2> QED
    BY <1>6, <2>1, NotifiedStep DEF ValueChanges
<1>7. CASE \E n \in Devices : NodeAppears(n) \/ NodeLeaves(n)
  BY <1>7, NodeAppearsStep, NodeLeavesStep
<1>8. CASE \E n \in Devices, v \in Values : ValueAppears(n, v) \/ ValueDisappears(n, v)
  BY <1>8, ValueAppearsStep, ValueDisappearsStep
<1>9. CASE UNCHANGED vars
  BY <1>9, OtherStep DEF vars
<1> QED
  BY <1>1, <1>2, <1>3, <1>4, <1>5, <1>6, <1>7, <1>8, <1>9, CreateStep, StopStep, DeliverStep
     DEF Next, Main

\* The map from which valueChanged() and setValue() take a node's values never
\* holds a value or a node that OpenZWave has dropped
\* (NotificationProcessor.cpp:48, 131, 142 and 152).
THEOREM MapAlwaysFollows == Spec => []MapFollowsNetwork
<1>1. IInv => MapFollowsNetwork
  <2> SUFFICES ASSUME IInv, pending = Nothing, managerUp
               PROVE  /\ \A n \in DOMAIN nodesMap : n \in nodes /\ nodesMap[n] = network[n]
                      /\ nodes \ shrunk \subseteq DOMAIN nodesMap
    BY DEF MapFollowsNetwork
  <2> QED
    BY NothingBehind DEF EntryFollows, IInv, NetworkTypes
<1> QED
  BY <1>1, InitHolds, InvStep, PTL DEF Spec

----------------------------------------------------------------------------
(* ValueRelay: what its messages say. *)

Kinds == DOMAIN Manufacturers \cup {"Jablotron"}
Measured == [module : 0..9, value : Int]

\* The messages, with what they were made of.
Reports ==
    {Carry(fromSensorData(data), data) : data \in [device : Kinds, values : SUBSET Measured]}
Sets ==
    {Carry(fromCommand(cmd, Id), cmd) :
        cmd \in [name : {"DeviceSetValue"}, device : Kinds, module : 0..9, value : Int,
                 timeout : {1500}]}
Passing == {Carry(Write(o.kind, o.content, Id), o.content) : o \in Others}

\* Modules below 10 are read as they were written.
LEMMA ModulesAreRead ==
    ASSUME NEW module \in 0..9
    PROVE  ModuleTextParses(ModuleText(module)) /\ ParseModule(ModuleText(module)) = module
<1>1. module \div 16 = 0 /\ module % 16 = module
  BY SMT
<1> QED
  BY <1>1 DEF ModuleTextParses, ParseModule, ModuleText

\* toSensorData() reads what fromSensorData() has written.
LEMMA ReportIsRead ==
    ASSUME NEW m \in Reports
    PROVE  /\ m.msg.message_type = "measured_values"
           /\ SensorDataParses(m.msg)
           /\ toSensorData(m.msg) = m.content
           /\ Read(m.msg) = InSeconds(m.content)
<1>1. PICK data \in [device : Kinds, values : SUBSET Measured] :
        m = Carry(fromSensorData(data), data)
  BY DEF Reports
<1>2. /\ m.content = data
      /\ m.msg = [message_type |-> "measured_values", device_id |-> data.device,
                  values |-> {SensorValue(v) : v \in data.values}]
  BY <1>1 DEF Carry, fromSensorData
<1>3. ASSUME NEW v \in data.values
      PROVE  /\ ModuleTextParses(SensorValue(v).module_id)
             /\ [module |-> ParseModule(SensorValue(v).module_id), value |-> SensorValue(v).raw] = v
  <2>1. v \in Measured
    OBVIOUS
  <2>2. v = [module |-> v.module, value |-> v.value] /\ v.module \in 0..9
    BY <2>1 DEF Measured
  <2>3. SensorValue(v).module_id = ModuleText(v.module) /\ SensorValue(v).raw = v.value
    BY DEF SensorValue
  <2> QED
    BY <2>2, <2>3, ModulesAreRead
<1>4. SensorDataParses(m.msg)
  BY <1>2, <1>3 DEF SensorDataParses
<1>5. toSensorData(m.msg) = data
  <2> DEFINE Item(w) == [module |-> ParseModule(w.module_id), value |-> w.raw]
  <2>1. m.msg.device_id = data.device /\ m.msg.values = {SensorValue(v) : v \in data.values}
    BY <1>2
  <2>2. \A v \in data.values : Item(SensorValue(v)) = v
    BY <1>3
  <2> HIDE DEF Item
  <2>3. {Item(w) : w \in m.msg.values} = data.values
    BY <2>1, <2>2
  <2>4. toSensorData(m.msg) = [device |-> m.msg.device_id, values |-> {Item(w) : w \in m.msg.values}]
    BY DEF toSensorData, Item
  <2>5. data = [device |-> data.device, values |-> data.values]
    OBVIOUS
  <2> QED
    BY <2>1, <2>3, <2>4, <2>5
<1>6. InSeconds(data) = data
  BY DEF InSeconds
<1> QED
  BY <1>2, <1>4, <1>5, <1>6 DEF Read

\* Durations lose what is less than a second.
LEMMA SetIsRead ==
    ASSUME NEW m \in Sets
    PROVE  /\ m.msg.message_type = "set_values_cmd"
           /\ Read(m.msg) = InSeconds(m.content)
           /\ toDeviceSetValueCommand(m.msg).module = m.content.module
           /\ toDeviceSetValueCommand(m.msg).value = m.content.value
           /\ m.content.module \in 0..9 /\ m.content.value \in Int
<1>1. PICK cmd \in [name : {"DeviceSetValue"}, device : Kinds, module : 0..9, value : Int,
                    timeout : {1500}] :
        m = Carry(fromCommand(cmd, Id), cmd)
  BY DEF Sets
<1>2. m.content = cmd /\ m.msg = fromDeviceSetValueCommand(cmd, Id)
  BY <1>1 DEF Carry, fromCommand
<1>3. m.msg = [message_type |-> "set_values_cmd", id |-> Id, timeout |-> 1,
               device_id |-> cmd.device, values |-> SensorValue(cmd)]
  BY <1>2 DEF fromDeviceSetValueCommand, Seconds
<1>4. toDeviceSetValueCommand(m.msg) =
        [name |-> "DeviceSetValue", device |-> cmd.device, module |-> cmd.module,
         value |-> cmd.value, timeout |-> 1000]
  BY <1>3, ModulesAreRead DEF toDeviceSetValueCommand, SensorValue, Milliseconds
<1>5. InSeconds(cmd) =
        [name |-> "DeviceSetValue", device |-> cmd.device, module |-> cmd.module,
         value |-> cmd.value, timeout |-> 1000]
  BY DEF InSeconds
<1> QED
  BY <1>2, <1>3, <1>4, <1>5 DEF Read

\* Of the other messages nothing is lost but parts of a second.
LEMMA PassingIsRead ==
    ASSUME NEW m \in Passing
    PROVE  /\ m.msg.message_type \notin {"measured_values", "set_values_cmd"}
           /\ Read(m.msg) = InSeconds(m.content)
<1>1. PICK o \in Others : m = Carry(Write(o.kind, o.content, Id), o.content)
  BY DEF Passing
<1> DEFINE c == o.content
<1>2. m.content = c /\ m.msg = Write(o.kind, c, Id) /\ IsOther(o.kind, c)
  BY <1>1, OthersAssumption DEF Carry
<1> HIDE DEF c
<1>3. CASE /\ o.kind = "command"
          /\ c = [name |-> "GatewayListen", duration |-> c.duration]
          /\ c.duration \in Nat
  <2>1. c.name = "GatewayListen"
    BY <1>3
  <2>2. m.msg = [message_type |-> "listen_cmd", id |-> Id, duration |-> Seconds(c.duration)]
    BY <1>2, <1>3, <2>1 DEF Write, fromCommand, fromGatewayListenCommand
  <2>3. InSeconds(c) = [name |-> "GatewayListen", duration |-> (c.duration \div 1000) * 1000]
    <3>1. DOMAIN c = {"name", "duration"}
      BY <1>3
    <3> QED
      BY <1>3, <2>1, <3>1 DEF InSeconds
  <2> QED
    BY <1>2, <1>3, <2>2, <2>3 DEF Read, toGatewayListenCommand, Milliseconds, Seconds
<1>4. CASE o.kind = "command" /\ c = [name |-> "DeviceUnpair", device |-> c.device]
  <2>1. c.name = "DeviceUnpair"
    BY <1>4
  <2>2. m.msg = [message_type |-> "device_unpair_cmd", id |-> Id, device_id |-> c.device]
    BY <1>2, <1>4, <2>1 DEF Write, fromCommand, fromDeviceUnpairCommand
  <2>3. InSeconds(c) = c
    BY <1>4 DEF InSeconds
  <2> QED
    BY <1>2, <1>4, <2>2, <2>3 DEF Read, toDeviceUnpairCommand
<1>5. CASE o.kind = "command" /\ c = [name |-> "ServerDeviceList", prefix |-> c.prefix]
  <2>1. c.name = "ServerDeviceList"
    BY <1>5
  <2>2. m.msg = [message_type |-> "device_list_cmd", id |-> Id,
                  device_manager_prefix |-> c.prefix]
    BY <1>2, <1>5, <2>1 DEF Write, fromCommand, fromServerDeviceListCommand
  <2>3. InSeconds(c) = c
    BY <1>5 DEF InSeconds
  <2> QED
    BY <1>2, <1>5, <2>2, <2>3 DEF Read, toDeviceListRequest
<1>6. CASE /\ o.kind = "command"
          /\ c = [name |-> "ServerLastValue", device |-> c.device, module |-> c.module]
          /\ c.module \in 0..9
  <2>1. c.name = "ServerLastValue"
    BY <1>6
  <2>2. m.msg = [message_type |-> "device_last_value_cmd", id |-> Id,
                  device_id |-> c.device, module_id |-> ModuleText(c.module)]
    BY <1>2, <1>6, <2>1 DEF Write, fromCommand, fromServerLastValueCommand
  <2>3. InSeconds(c) = c
    BY <1>6 DEF InSeconds
  <2>4. ParseModule(m.msg.module_id) = c.module
    BY <1>6, <2>2, ModulesAreRead
  <2> QED
    BY <1>2, <1>6, <2>2, <2>3, <2>4 DEF Read, toServerLastValueCommand
<1>7. CASE o.kind = "result" /\ c = [name |-> "Result", status |-> c.status]
  <2>1. c.name = "Result"
    BY <1>7
  <2>2. m.msg = [message_type |-> "default_result", id |-> Id, result_status |-> c.status]
    BY <1>2, <1>7, <2>1 DEF Write, fromResult, fromDefaultResult
  <2>3. InSeconds(c) = c
    BY <1>7 DEF InSeconds
  <2> QED
    BY <1>2, <1>7, <2>2, <2>3 DEF Read, toDefaultResult
<1>8. CASE /\ o.kind = "result"
          /\ c = [name |-> "ServerDeviceList", status |-> c.status, devices |-> c.devices]
  <2>1. c.name = "ServerDeviceList"
    BY <1>8
  <2>2. m.msg = [message_type |-> "device_list_result", id |-> Id,
                  result_status |-> c.status, device_list |-> c.devices]
    BY <1>2, <1>8, <2>1 DEF Write, fromResult, fromServerDeviceListResult
  <2>3. InSeconds(c) = c
    BY <1>8 DEF InSeconds
  <2> QED
    BY <1>2, <1>8, <2>2, <2>3 DEF Read, toServerDeviceListResult
<1>9. CASE /\ o.kind = "result"
          /\ c = [name |-> "ServerLastValue", status |-> c.status, value |-> c.value]
  <2>1. c.name = "ServerLastValue"
    BY <1>9
  <2>2. m.msg = [message_type |-> "device_last_value_result", id |-> Id,
                  result_status |-> c.status, values |-> RawValue(c.value)]
    BY <1>2, <1>9, <2>1 DEF Write, fromResult, fromServerLastValueResult
  <2>3. InSeconds(c) = c
    BY <1>9 DEF InSeconds
  <2> QED
    BY <1>2, <1>9, <2>2, <2>3 DEF Read, toServerLastValueResult, RawValue
<1>10. CASE /\ o.kind = "result"
          /\ c = [name |-> "DeviceSetValue", status |-> c.status, setStatus |-> c.setStatus]
  <2>1. c.name = "DeviceSetValue"
    BY <1>10
  <2>2. m.msg = [message_type |-> "set_values_result", id |-> Id,
                  result_status |-> c.status, extented_set_status |-> c.setStatus]
    BY <1>2, <1>10, <2>1 DEF Write, fromResult, fromDeviceSetValueResult
  <2>3. InSeconds(c) = c
    BY <1>10 DEF InSeconds
  <2> QED
    BY <1>2, <1>10, <2>2, <2>3 DEF Read, toDeviceSetValueResult
<1>11. CASE o.kind = "error" /\ c = [name |-> "error", error |-> c.error, text |-> c.text]
  <2>1. c.name = "error"
    BY <1>11
  <2>2. m.msg = [message_type |-> "error", error_code |-> c.error, error_message |-> c.text]
    BY <1>2, <1>11, <2>1 DEF Write, fromError
  <2>3. InSeconds(c) = c
    BY <1>11 DEF InSeconds
  <2> QED
    BY <1>2, <1>11, <2>2, <2>3 DEF Read, toError
<1>12. CASE o.kind = "hello_request" /\ c = [name |-> "hello_request", prefix |-> c.prefix]
  <2>1. c.name = "hello_request"
    BY <1>12
  <2>2. m.msg = [message_type |-> "hello_request", device_manager_prefix |-> c.prefix]
    BY <1>2, <1>12, <2>1 DEF Write, fromHelloRequest
  <2>3. InSeconds(c) = c
    BY <1>12 DEF InSeconds
  <2> QED
    BY <1>2, <1>12, <2>2, <2>3 DEF Read, toHelloRequest
<1>13. CASE /\ o.kind = "hello_response"
          /\ c = [name |-> "hello_response", manager |-> c.manager]
  <2>1. c.name = "hello_response"
    BY <1>13
  <2>2. m.msg = [message_type |-> "hello_response", device_manager_id |-> c.manager]
    BY <1>2, <1>13, <2>1 DEF Write, fromHelloResponse
  <2>3. InSeconds(c) = c
    BY <1>13 DEF InSeconds
  <2> QED
    BY <1>2, <1>13, <2>2, <2>3 DEF Read, toHelloResponse
<1> QED
  BY <1>2, <1>3, <1>4, <1>5, <1>6, <1>7, <1>8, <1>9, <1>10, <1>11, <1>12, <1>13 DEF IsOther

----------------------------------------------------------------------------
(* What a node reports. *)

\* The manufacturers of GenericZWaveMessageFactory.
LEMMA Products == DOMAIN Manufacturers = {"Aeotec", "DLink", "Fibaro", "Philio", "Popp"}
BY DEF Manufacturers

\* There is one first place.
LEMMA FirstIsUnique ==
    ASSUME NEW places \in SUBSET Nat, NEW i \in First(places), NEW j \in First(places)
    PROVE  i = j
BY DEF First

\* A set of at most one text.
OneText(texts) == texts \subseteq NodeText /\ \A t, u \in texts : t = u

\* The values of a node are of their types.
LEMMA NodesAreRead ==
    ASSUME NEW values \in Seq(NodeValue), NEW i \in DOMAIN values
    PROVE  /\ i \in Nat
           /\ values[i] \in NodeValue
           /\ values[i].text = Text(values[i].text.kind, values[i].text.n)
           /\ values[i].text.n \in Int
<1>1. i \in Nat /\ values[i] \in NodeValue
  OBVIOUS
<1>2. values[i].text \in NodeText
  BY <1>1 DEF NodeValue
<1> QED
  BY <1>1, <1>2 DEF NodeText, Text

\* A getter finds one value at most.
LEMMA FirstOfIsOne ==
    ASSUME NEW values \in Seq(NodeValue), NEW id, NEW kind
    PROVE  /\ FirstOf(id, kind, values) \subseteq NodeValue
           /\ \A v, w \in FirstOf(id, kind, values) : v = w
<1> DEFINE places == {j \in Matching(id, values) : values[j].text.kind = kind}
<1>1. places \in SUBSET Nat /\ First(places) \subseteq DOMAIN values
  BY NodesAreRead DEF Matching, First
<1>2. FirstOf(id, kind, values) = {values[i] : i \in First(places)}
  BY DEF FirstOf
<1> HIDE DEF places
<1> QED
  BY <1>1, <1>2, FirstIsUnique, NodesAreRead

\* getSpecificValue() returns one text at most.
LEMMA SpecificValueIsOne ==
    ASSUME NEW values \in Seq(NodeValue), NEW id
    PROVE  OneText(getSpecificValue(id, values))
<1>1. Matching(id, values) \in SUBSET Nat /\ First(Matching(id, values)) \subseteq DOMAIN values
  BY NodesAreRead DEF Matching, First
<1>2. \A i \in DOMAIN values : values[i].text \in NodeText
  BY NodesAreRead DEF NodeValue
<1> QED
  BY <1>1, <1>2, FirstIsUnique DEF getSpecificValue, OneText

\* A number is a text.
LEMMA NumberTexts == \A n \in Int : Text("number", n) \in NodeText
BY DEF Text, NodeText

\* So do the getters that convert a text.
LEMMA ConvertedIsOne ==
    ASSUME NEW values \in Seq(NodeValue)
    PROVE  /\ OneText(getTemperature(values))
           /\ OneText(getSwitchBinary(values))
           /\ OneText(getSensorValue(values))
<1>1. \A v \in NodeValue : v.text.n \in Int
  BY DEF NodeValue, NodeText
<1>2. \A v \in NodeValue : ((v.text.n - 32) * 5) \div 9 \in Int
  BY <1>1
<1>3. OneText(getTemperature(values))
  BY <1>1, <1>2, FirstOfIsOne, NumberTexts DEF getTemperature, OneText
<1>4. OneText(getSwitchBinary(values))
  BY <1>1, FirstOfIsOne, NumberTexts DEF getSwitchBinary, OneText
<1>5. OneText(getSensorValue(values))
  BY <1>1, FirstOfIsOne, NumberTexts DEF getSensorValue, OneText
<1> QED
  BY <1>3, <1>4, <1>5

\* The table of a product has at most one text for a module, and none for the
\* modules that the product detects.
LEMMA TablesAreClear ==
    ASSUME NEW manufacturer \in DOMAIN Manufacturers, NEW values \in Seq(NodeValue)
    PROVE  /\ \A r \in Readings(manufacturer, values) : r[1] \in 0..9 /\ OneText(r[2])
           /\ \A r, q \in Readings(manufacturer, values) : r[1] = q[1] => r[2] = q[2]
           /\ \A r \in Readings(manufacturer, values), n \in Int :
                \A v \in Detection(manufacturer, n) : v.module # r[1]
<1> USE SpecificValueIsOne, ConvertedIsOne
<1>1. CASE manufacturer = "Aeotec"
  <2> DEFINE labels == getSpecificValue(<<112, 4>>, values)
             pir == {Text("number", t.n) : t \in {u \in labels : u.kind = "level"}}
  <2>1. OneText(pir)
    <3>1. OneText(labels)
      OBVIOUS
    <3>2. \A t \in NodeText : t.n \in Int
      BY DEF NodeText
    <3> HIDE DEF labels
    <3>3. \A t \in pir : \E u \in labels : t = Text("number", u.n)
      OBVIOUS
    <3> QED
      BY <3>1, <3>2, <3>3, NumberTexts DEF OneText
  <2>2. Readings(manufacturer, values) = {
          <<2, getSpecificValue(Ultraviolet, values)>>, <<3, getSpecificValue(Luminance, values)>>,
          <<4, getTemperature(values)>>, <<5, getSpecificValue(Humidity, values)>>,
          <<6, pir>>, <<7, getSpecificValue(Battery, values)>>,
          <<8, getSpecificValue(<<112, 111>>, values)>> }
    BY <1>1 DEF Readings, AeotecReadings
  <2> HIDE DEF pir
  <2>3. \A n \in Int : \A v \in Detection(manufacturer, n) : v.module \in 0..1
    BY <1>1 DEF Detection, AeotecDetection, Value
  <2>4. \A r \in Readings(manufacturer, values) : r[1] \in 2..8 /\ OneText(r[2])
    BY <2>1, <2>2
  <2>5. \A r, q \in Readings(manufacturer, values) : r[1] = q[1] => r[2] = q[2]
    BY <2>2
  <2> QED
    BY <2>3, <2>4, <2>5
<1>2. CASE manufacturer = "DLink"
  BY <1>2 DEF Readings, DLinkReadings, Detection, DLinkDetection, Value
<1>3. CASE manufacturer = "Fibaro"
  BY <1>3 DEF Readings, FibaroReadings, Detection
<1>4. CASE manufacturer = "Philio"
  BY <1>4 DEF Readings, PhilioReadings, Detection
<1>5. CASE manufacturer = "Popp"
  BY <1>5 DEF Readings, PoppReadings, Detection
<1> QED
  BY <1>1, <1>2, <1>3, <1>4, <1>5, Products

\* An alarm stands for one value of a module.
LEMMA DetectionsAreClear ==
    ASSUME NEW manufacturer, NEW n \in Int
    PROVE  /\ Detection(manufacturer, n) \subseteq Measured
           /\ \A v, w \in Detection(manufacturer, n) : v.module = w.module => v = w
BY DEF Detection, AeotecDetection, DLinkDetection, Value, Measured

\* extractValues() returns one value of a module at most, of the modules below 10.
LEMMA ReportIsClear ==
    ASSUME NEW d, IsNode(d)
    PROVE  /\ extractValues(d.manufacturer, d.values) \subseteq Measured
           /\ \A v, w \in extractValues(d.manufacturer, d.values) :
                v.module = w.module => v = w
<1>1. d.manufacturer \in DOMAIN Manufacturers /\ d.values \in Seq(NodeValue)
  BY DEF IsNode
<1> DEFINE readings == Readings(d.manufacturer, d.values)
           alarms == {j \in Matching(Alarm, d.values) : IsNumber(d.values[j].text)}
           shown == UNION {{Value(r[1], text.n) : text \in r[2]} : r \in readings}
           detected == Detections(d.manufacturer, d.values)
<1>2. /\ \A v \in shown : v \in Measured /\ \E r \in readings : v.module = r[1]
      /\ \A v, w \in shown : v.module = w.module => v = w
  <2>1. \A r \in readings : \A t \in r[2] : t.n \in Int
    BY <1>1, TablesAreClear DEF OneText, NodeText
  <2> QED
    BY <1>1, <2>1, TablesAreClear DEF OneText, Value, Measured
<1>3. /\ \A v \in detected : v \in Measured
      /\ \A v \in detected : \E n \in Int : v \in Detection(d.manufacturer, n)
      /\ \A v, w \in detected : v.module = w.module => v = w
  <2>1. \A i \in alarms : i \in Matching(Alarm, d.values) /\ d.values[i].text.n \in Int
    BY <1>1, NodesAreRead DEF Matching
  <2>2. \A i, j \in Matching(Alarm, d.values) : i = j
    BY DEF IsNode
  <2>3. detected = UNION {Detection(d.manufacturer, d.values[i].text.n) : i \in alarms}
    BY DEF Detections
  <2> HIDE DEF detected, alarms
  <2> QED
    BY <2>1, <2>2, <2>3, DetectionsAreClear
<1>4. extractValues(d.manufacturer, d.values) = shown \cup detected
  BY DEF extractValues
<1>5. \A v \in shown, w \in detected : v.module # w.module
  BY <1>1, <1>2, <1>3, TablesAreClear
<1> HIDE DEF shown, detected
<1> QED
  BY <1>2, <1>3, <1>4, <1>5

\* InCelsius changes what a value shows only with its unit, of temperatures.
LEMMA CelsiusOfValues ==
    ASSUME IsNode(device), NEW i \in DOMAIN device.values
    PROVE  /\ InCelsius[i].id = device.values[i].id
           /\ InCelsius[i].text.kind = device.values[i].text.kind
           /\ device.values[i].id # Temperature => InCelsius[i] = device.values[i]
           /\ device.values[i].text.kind = "number" =>
                (IF InCelsius[i].unit = "F"
                 THEN ((InCelsius[i].text.n - 32) * 5) \div 9 ELSE InCelsius[i].text.n) =
                (IF device.values[i].unit = "F"
                 THEN ((device.values[i].text.n - 32) * 5) \div 9 ELSE device.values[i].text.n)
<1> DEFINE v == device.values[i]
<1>1. v \in NodeValue
  BY NodesAreRead DEF IsNode
<1>2. v.unit = "F" => v.id = Temperature
  BY DEF IsNode
<1>3. CASE v.unit = "F" /\ v.text.kind = "number"
  <2>1. InCelsius[i] = [v EXCEPT !.unit = "C", !.text.n = ((@ - 32) * 5) \div 9]
    BY <1>3 DEF InCelsius
  <2> HIDE DEF v
  <2>2. /\ InCelsius[i].unit = "C"
        /\ InCelsius[i].id = v.id
        /\ InCelsius[i].text.kind = v.text.kind
        /\ InCelsius[i].text.n = ((v.text.n - 32) * 5) \div 9
    BY <1>1, <2>1 DEF NodeValue, NodeText
  <2> USE DEF v
  <2> QED
    BY <1>2, <1>3, <2>2
<1>4. CASE ~(v.unit = "F" /\ v.text.kind = "number")
  BY <1>4 DEF InCelsius
<1> QED
  BY <1>3, <1>4

\* The unit of temperatures makes no difference to a report.
LEMMA UnitMakesNoDifference ==
    ASSUME IsNode(device)
    PROVE  extractValues(device.manufacturer, InCelsius) =
           extractValues(device.manufacturer, device.values)
<1> DEFINE v == device.values
           w == InCelsius
<1>1. DOMAIN w = DOMAIN v
  BY DEF InCelsius
<1>2. \A i \in DOMAIN v : /\ w[i].id = v[i].id
                          /\ w[i].text.kind = v[i].text.kind
                          /\ v[i].id # Temperature => w[i] = v[i]
  BY CelsiusOfValues
<1> HIDE DEF w
<1>3. \A id : Matching(id, w) = Matching(id, v)
  BY <1>1, <1>2 DEF Matching
<1> DEFINE Places(id, kind, x) == First({j \in Matching(id, x) : x[j].text.kind = kind})
<1>4. \A id : \A i \in First(Matching(id, v)) : i \in DOMAIN v /\ v[i].id = id
  BY DEF First, Matching
<1>5. \A id, kind : \A i \in Places(id, kind, v) :
        i \in DOMAIN v /\ v[i].id = id /\ v[i].text.kind = kind
  BY DEF First, Matching
<1>6. \A id, kind : Places(id, kind, w) = Places(id, kind, v)
  <2> TAKE id, kind
  <2>1. {j \in Matching(id, w) : w[j].text.kind = kind} =
        {j \in Matching(id, v) : v[j].text.kind = kind}
    BY <1>2, <1>3 DEF Matching
  <2> QED
    BY <2>1
<1> HIDE DEF Places
<1>7. ASSUME NEW id, id # Temperature
      PROVE  /\ getSpecificValue(id, w) = getSpecificValue(id, v)
             /\ \A kind : FirstOf(id, kind, w) = FirstOf(id, kind, v)
  <2>1. \A i \in First(Matching(id, v)) : w[i] = v[i]
    BY <1>2, <1>7, <1>4
  <2>2. getSpecificValue(id, w) = getSpecificValue(id, v)
    BY <1>3, <2>1 DEF getSpecificValue
  <2>3. ASSUME NEW kind
        PROVE  FirstOf(id, kind, w) = FirstOf(id, kind, v)
    <3>1. \A i \in Places(id, kind, v) : w[i] = v[i]
      BY <1>2, <1>7, <1>5
    <3>2. /\ FirstOf(id, kind, w) = {w[i] : i \in Places(id, kind, w)}
          /\ FirstOf(id, kind, v) = {v[i] : i \in Places(id, kind, v)}
      BY DEF FirstOf, Places
    <3> HIDE DEF v
    <3> QED
      BY <1>6, <3>1, <3>2
  <2> QED
    BY <2>2, <2>3
<1>8. getTemperature(w) = getTemperature(v)
  <2> DEFINE Degrees(x) == IF x.unit = "F" THEN ((x.text.n - 32) * 5) \div 9 ELSE x.text.n
             At(x) == Places(Temperature, "number", x)
  <2>1. \A i \in At(v) : Degrees(w[i]) = Degrees(v[i])
    <3>1. ASSUME NEW i \in At(v) PROVE Degrees(w[i]) = Degrees(v[i])
      <4>1. i \in DOMAIN device.values /\ device.values[i].text.kind = "number"
        BY <1>5
      <4> QED
        BY <4>1, CelsiusOfValues DEF w
    <3> QED
      BY <3>1
  <2>2. /\ getTemperature(w) = {Text("number", Degrees(w[i])) : i \in At(w)}
        /\ getTemperature(v) = {Text("number", Degrees(v[i])) : i \in At(v)}
    BY DEF getTemperature, FirstOf, Places
  <2>3. At(w) = At(v)
    BY <1>6
  <2> HIDE DEF Degrees, At, v
  <2> QED
    BY <2>1, <2>2, <2>3
<1>9. getSwitchBinary(w) = getSwitchBinary(v) /\ getSensorValue(w) = getSensorValue(v)
  BY <1>7 DEF getSwitchBinary, getSensorValue, Temperature, SwitchBinary, SensorBinary
<1>10. Detections(device.manufacturer, w) = Detections(device.manufacturer, v)
  <2> DEFINE At(x) == {j \in Matching(Alarm, x) : IsNumber(x[j].text)}
  <2>1. \A i \in Matching(Alarm, v) : w[i] = v[i]
    BY <1>2 DEF Matching, Alarm, Temperature
  <2>2. At(w) = At(v)
    BY <1>3, <2>1
  <2>3. \A i \in At(v) : w[i] = v[i]
    BY <2>1
  <2>4. \A x : Detections(device.manufacturer, x) =
                 UNION {Detection(device.manufacturer, x[i].text.n) : i \in At(x)}
    BY DEF Detections
  <2> HIDE DEF At, v
  <2>5. {Detection(device.manufacturer, w[i].text.n) : i \in At(w)} =
        {Detection(device.manufacturer, v[i].text.n) : i \in At(v)}
    BY <2>2, <2>3
  <2> QED
    BY <2>4, <2>5
<1>11. Readings(device.manufacturer, w) = Readings(device.manufacturer, v)
  <2>1. \A id \in {Battery, Humidity, Luminance, Ultraviolet, <<112, 3>>, <<112, 4>>, <<112, 111>>} :
          getSpecificValue(id, w) = getSpecificValue(id, v)
    <3>1. \A id \in {Battery, Humidity, Luminance, Ultraviolet, <<112, 3>>, <<112, 4>>, <<112, 111>>} :
            id # Temperature
      BY DEF Battery, Humidity, Luminance, Ultraviolet, Temperature
    <3> QED
      BY <3>1, <1>7
  <2> QED
    BY <2>1, <1>8, <1>9
       DEF Readings, AeotecReadings, DLinkReadings, FibaroReadings, PhilioReadings, PoppReadings
<1> HIDE DEF v
<1>12. extractValues(device.manufacturer, w) = extractValues(device.manufacturer, v)
  BY <1>10, <1>11 DEF extractValues
<1> QED
  BY <1>12 DEF v, w

----------------------------------------------------------------------------
(* What the Jablotron's devices report. *)

\* parseMessageFromDevice() returns values of the modules 0 to 3.
LEMMA LineIsMeasured ==
    ASSUME NEW line \in [serial : Int, what : STRING, n : Int, battery : Int, complete : BOOLEAN]
    PROVE  Jablotron!parseMessageFromDevice(line) \subseteq Measured
<1> DEFINE battery == Jablotron!Value(Jablotron!BatteryModule(Jablotron!getDeviceType(line.serial)),
                                      Jablotron!getBatteryStatus(line.battery))
<1>1. \A m \in 0..9, n \in Int : Jablotron!Value(m, n) \in Measured
  BY DEF Jablotron!Value, Measured
<1>3. battery \in Measured
  BY <1>1 DEF Jablotron!BatteryModule, Jablotron!getBatteryStatus
<1>4. Jablotron!parseMessageFromJA81M_JA83M(line) \subseteq Measured
  BY <1>1 DEF Jablotron!parseMessageFromJA81M_JA83M, Jablotron!convert
<1>5. Jablotron!parseMessageFromJA83P_JA82SH(line) \subseteq Measured
  BY <1>1 DEF Jablotron!parseMessageFromJA83P_JA82SH, Jablotron!convert
<1>6. Jablotron!parseMessageFromJA85ST(line) \subseteq Measured
  BY <1>1 DEF Jablotron!parseMessageFromJA85ST, Jablotron!convert
<1>7. Jablotron!parseMessageFromRC86K(line) \subseteq Measured
  BY <1>1 DEF Jablotron!parseMessageFromRC86K, Jablotron!convert
<1>8. Jablotron!parseMessageFromTP82N(line) \subseteq Measured
  BY <1>1 DEF Jablotron!parseMessageFromTP82N
<1>9. Jablotron!Reading(line) \subseteq Measured
  BY <1>4, <1>5, <1>6, <1>7, <1>8 DEF Jablotron!Reading
<1> QED
  BY <1>1, <1>3, <1>9 DEF Jablotron!parseMessageFromDevice, Jablotron!convert

\* The state of its relay, as the outlet reports it.
LEMMA OutletIsShown ==
    ASSUME IsOutlet(device)
    PROVE  /\ ~IsZWave
           /\ Shown = {Value(0, IF device.relay = 1 THEN 1 ELSE 0)}
<1>1. ~IsZWave
  BY DEF IsOutlet, IsZWave
<1> DEFINE line == [serial |-> device.serial, what |-> "RELAY", n |-> device.relay,
                    battery |-> 0, complete |-> TRUE]
<1>2. line.complete /\ line.serial = device.serial /\ line.n = device.relay
  OBVIOUS
<1>3. Jablotron!getDeviceType(line.serial) = "AC88"
  BY <1>2 DEF IsOutlet
<1>4. Shown = Jablotron!parseMessageFromDevice(line)
  BY <1>1 DEF Shown
<1> HIDE DEF line
<1>5. Jablotron!parseMessageFromDevice(line) =
        {Jablotron!Value(0, Jablotron!convert(line.n, FALSE))}
  BY <1>2, <1>3 DEF Jablotron!parseMessageFromDevice
<1> QED
  BY <1>1, <1>2, <1>4, <1>5 DEF Jablotron!Value, Jablotron!convert, Value

\* What a device shows can be reported.
LEMMA ShownIsMeasured ==
    ASSUME IsDevice(device)
    PROVE  Shown \subseteq Measured
<1>1. CASE device.manufacturer = "Jablotron"
  BY <1>1, OutletIsShown DEF IsDevice, Value, Measured
<1>2. CASE device.manufacturer # "Jablotron"
  BY <1>2, ReportIsClear DEF IsDevice, Shown, IsZWave
<1> QED
  BY <1>1, <1>2

\* What a device shows is unambiguous, whatever has happened to it.
LEMMA ShownIsClear ==
    ASSUME IsDevice(device)
    PROVE  ReportsAreUnambiguous
<1>1. CASE device.manufacturer = "Jablotron"
  BY <1>1, OutletIsShown DEF IsDevice, ReportsAreUnambiguous
<1>2. CASE device.manufacturer # "Jablotron"
  <2>1. IsNode(device) /\ IsZWave
    BY <1>2 DEF IsDevice, IsZWave
  <2>2. Shown = extractValues(device.manufacturer, device.values)
    BY <2>1 DEF Shown
  <2> QED
    BY <2>1, <2>2, ReportIsClear, UnitMakesNoDifference DEF ReportsAreUnambiguous
<1> QED
  BY <1>1, <1>2

----------------------------------------------------------------------------
(* What becomes of a setting. *)

\* How a value of this type says the number.
SettingText(type, n) ==
    Text(CASE type = "Bool" -> "bool" [] type = "List" -> "level" [] OTHER -> "number", n)

\* The device has the number that was set for the module.
Holds(d, module, n) ==
    IF d.manufacturer = "Jablotron" THEN d.relay = n
    ELSE \A s \in SettingsOf(d.manufacturer) : s[1] = module =>
            \A i \in First(Matching(s[2], d.values)) : d.values[i].text = SettingText(s[3], n)

\* Other texts make no other node.
LEMMA OtherTexts ==
    ASSUME NEW d, IsNode(d), NEW w, DOMAIN w = DOMAIN d.values,
           w \in Seq(NodeValue),
           \A i \in DOMAIN w : /\ w[i].id = d.values[i].id
                               /\ w[i].type = d.values[i].type
                               /\ w[i].unit = d.values[i].unit
    PROVE  /\ IsNode([d EXCEPT !.values = w])
           /\ \A id : Matching(id, w) = Matching(id, d.values)
<1> DEFINE e == [d EXCEPT !.values = w]
<1>1. e = [manufacturer |-> d.manufacturer, values |-> w]
  BY DEF IsNode
<1>2. e.manufacturer = d.manufacturer /\ e.values = w
  BY <1>1
<1> HIDE DEF e
<1>3. \A id : Matching(id, w) = Matching(id, d.values)
  BY DEF Matching
<1>4. \A s \in SettingsOf(d.manufacturer) :
        \E i \in First(Matching(s[2], w)) : w[i].type = s[3]
  <2>1. \A id : First(Matching(id, w)) \subseteq DOMAIN w
    BY DEF First, Matching
  <2>2. \A s \in SettingsOf(d.manufacturer) :
          \E i \in First(Matching(s[2], w)) : d.values[i].type = s[3]
    BY <1>3 DEF IsNode
  <2> QED
    BY <2>1, <2>2
<1>5. \A i, j \in Matching(Alarm, w) : i = j
  BY <1>3 DEF IsNode
<1>6. \A i \in DOMAIN w : w[i].unit = "F" => w[i].id = Temperature
  BY DEF IsNode
<1>7. IsNode(e)
  BY <1>1, <1>2, <1>4, <1>5, <1>6 DEF IsNode
<1> QED
  BY <1>3, <1>7 DEF e

\* A function on the places of a sequence is a sequence.
LEMMA SequenceOf ==
    ASSUME NEW S, NEW T, NEW v \in Seq(S), NEW w, w = [i \in DOMAIN v |-> w[i]],
           \A i \in DOMAIN v : w[i] \in T
    PROVE  w \in Seq(T)
<1>1. DOMAIN v = 1..Len(v) /\ Len(v) \in Nat
  OBVIOUS
<1> QED
  BY <1>1

\* OpenZWave makes a text of every text that is written.
LEMMA WrittenIsText ==
    ASSUME NEW value \in NodeValue, NEW text \in NodeText
    PROVE  Written(value, text) \in NodeText
BY DEF Written, NodeValue, NodeText, Text, IsNumber

\* setActuator() makes no other node.
LEMMA ActuatorIsSet ==
    ASSUME NEW d, IsNode(d), NEW id, NEW text \in NodeText
    PROVE  IsNode([d EXCEPT !.values = setActuator(id, text, d.values)])
<1> DEFINE v == d.values
           w == setActuator(id, text, v)
<1>1. v \in Seq(NodeValue)
  BY DEF IsNode
<1>2. w = [i \in DOMAIN v |-> w[i]] /\ DOMAIN w = DOMAIN v
  BY DEF setActuator
<1>3. ASSUME NEW i \in DOMAIN v
      PROVE  /\ w[i] \in NodeValue
             /\ w[i].id = v[i].id /\ w[i].type = v[i].type /\ w[i].unit = v[i].unit
  <2>1. v[i] \in NodeValue /\ Written(v[i], text) \in NodeText
    BY <1>1, WrittenIsText
  <2>2. w[i] = v[i] \/ w[i] = [v[i] EXCEPT !.text = Written(v[i], text)]
    BY DEF setActuator
  <2> HIDE DEF v, w
  <2> QED
    BY <2>1, <2>2 DEF NodeValue
<1> HIDE DEF w
<1>4. w \in Seq(NodeValue)
  BY <1>1, <1>2, <1>3, SequenceOf
<1>5. IsNode([d EXCEPT !.values = w])
  BY <1>2, <1>3, <1>4, OtherTexts
<1> QED
  BY <1>5 DEF w

\* Neither does setValue() of the products.
LEMMA ManagerSetsNode ==
    ASSUME NEW d, IsNode(d), NEW module, NEW n \in Int
    PROVE  IsNode([d EXCEPT !.values = setValue(d.manufacturer, module, n, @)])
<1> DEFINE w == setValue(d.manufacturer, module, n, d.values)
<1>1. IsNode([d EXCEPT !.values = d.values])
  <2>1. [d EXCEPT !.values = d.values] = d
    BY DEF IsNode
  <2> QED
    BY <2>1
<1>2. Text("number", n) \in NodeText /\ Text("level", n) \in NodeText
  BY DEF Text, NodeText
<1>3. \/ w = d.values
      \/ w = setActuator(SwitchBinary, Text("number", n), d.values)
      \/ w = setActuator(<<112, 3>>, Text("number", n), d.values)
      \/ w = setActuator(<<112, 4>>, Text("level", n), d.values)
      \/ w = setActuator(<<112, 111>>, Text("number", n), d.values)
  BY DEF setValue, AeotecSetting, DLinkSetting, PoppSetting
<1> HIDE DEF w
<1>4. \A id, text : text \in NodeText =>
        IsNode([d EXCEPT !.values = setActuator(id, text, d.values)])
  BY ActuatorIsSet
<1>5. IsNode([d EXCEPT !.values = w])
  BY <1>1, <1>2, <1>3, <1>4
<1> QED
  BY <1>5 DEF w

\* A setting is written to the value that has the setting's type.
LEMMA WrittenAtSetting ==
    ASSUME NEW d, IsNode(d), NEW s \in SettingsOf(d.manufacturer), NEW text,
           NEW i \in First(Matching(s[2], setActuator(s[2], text, d.values)))
    PROVE  /\ d.values[i] \in NodeValue /\ d.values[i].type = s[3]
           /\ setActuator(s[2], text, d.values)[i].text = Written(d.values[i], text)
<1> DEFINE v == d.values
           w == setActuator(s[2], text, v)
<1>1. v \in Seq(NodeValue)
  BY DEF IsNode
<1>2. DOMAIN w = DOMAIN v /\ \A j \in DOMAIN v : v[j] \in NodeValue /\ w[j].id = v[j].id
  <2>1. DOMAIN w = DOMAIN v
    BY DEF setActuator
  <2>2. ASSUME NEW j \in DOMAIN v
        PROVE  v[j] \in NodeValue /\ w[j].id = v[j].id
    <3>1. v[j] \in NodeValue
      BY <1>1, NodesAreRead
    <3>2. w[j] = v[j] \/ w[j] = [v[j] EXCEPT !.text = Written(v[j], text)]
      BY DEF setActuator
    <3> HIDE DEF v, w
    <3> QED
      BY <3>1, <3>2 DEF NodeValue
  <2> QED
    BY <2>1, <2>2
<1>3. Matching(s[2], w) = Matching(s[2], v)
  BY <1>2 DEF Matching
<1>4. i \in First(Matching(s[2], v)) /\ i \in DOMAIN v
  BY <1>3 DEF First, Matching
<1>5. PICK j \in First(Matching(s[2], v)) : v[j].type = s[3]
  BY DEF IsNode
<1>6. Matching(s[2], v) \in SUBSET Nat
  BY <1>1, NodesAreRead DEF Matching
<1>7. i = j
  BY <1>4, <1>5, <1>6, FirstIsUnique
<1>8. w[i] = [v[i] EXCEPT !.text = Written(v[i], text)]
  BY <1>4 DEF setActuator
<1>9. w[i].text = Written(v[i], text)
  <2>1. v[i] \in NodeValue
    BY <1>2, <1>4
  <2> HIDE DEF v, w
  <2> QED
    BY <1>8, <2>1 DEF NodeValue
<1> QED
  BY <1>2, <1>4, <1>5, <1>7, <1>9

\* What the server sets is what the node holds.
LEMMA SettingIsHeld ==
    ASSUME NEW d, IsNode(d), NEW module \in RestoredModules(d.manufacturer),
           NEW n \in Accepted(d.manufacturer, module)
    PROVE  Holds([d EXCEPT !.values = setValue(d.manufacturer, module, n, @)], module, n)
<1> DEFINE v == d.values
           w == setValue(d.manufacturer, module, n, v)
           e == [d EXCEPT !.values = w]
<1>1. e.manufacturer = d.manufacturer /\ e.values = w
  BY DEF IsNode
<1>2. d.manufacturer \in DOMAIN Manufacturers /\ d.manufacturer # "Jablotron"
  BY Products DEF IsNode
<1> HIDE DEF e
<1> SUFFICES ASSUME NEW s \in SettingsOf(d.manufacturer), s[1] = module,
                    NEW i \in First(Matching(s[2], w))
             PROVE  w[i].text = SettingText(s[3], n)
  BY <1>1, <1>2 DEF Holds, e
<1>3. CASE d.manufacturer = "Popp"
  <2>1. s = <<0, SwitchBinary, "Bool">> /\ n \in 0..1
    BY <1>3 DEF SettingsOf, Accepted
  <2>2. w = setActuator(s[2], Text("number", n), v)
    BY <1>3, <2>1 DEF setValue, PoppSetting
  <2>3. v[i].type = "Bool" /\ w[i].text = Written(v[i], Text("number", n))
    BY <2>1, <2>2, WrittenAtSetting
  <2> QED
    BY <2>1, <2>3 DEF Written, IsNumber, Text, SettingText
<1>4. CASE d.manufacturer = "DLink"
  <2>1. s = <<4, <<112, 3>>, "Byte">> /\ n \in 0..255
    BY <1>4 DEF SettingsOf, Accepted
  <2>2. w = setActuator(s[2], Text("number", n), v)
    BY <1>4, <2>1 DEF setValue, DLinkSetting
  <2>3. v[i].type = "Byte" /\ w[i].text = Written(v[i], Text("number", n))
    BY <2>1, <2>2, WrittenAtSetting
  <2> QED
    BY <2>1, <2>3 DEF Written, IsNumber, Text, SettingText
<1>5. CASE d.manufacturer = "Aeotec" /\ module = 6
  <2>1. s = <<6, <<112, 4>>, "List">> /\ n \in 0..5
    BY <1>5 DEF SettingsOf, Accepted
  <2>2. w = setActuator(s[2], Text("level", n), v)
    BY <1>5, <2>1 DEF setValue, AeotecSetting
  <2>3. v[i].type = "List" /\ w[i].text = Written(v[i], Text("level", n))
    BY <2>1, <2>2, WrittenAtSetting
  <2> QED
    BY <2>1, <2>3 DEF Written, IsNumber, Text, SettingText
<1>6. CASE d.manufacturer = "Aeotec" /\ module = 8
  <2>1. s = <<8, <<112, 111>>, "Short">> /\ n \in 0..255
    BY <1>6 DEF SettingsOf, Accepted
  <2>2. w = setActuator(s[2], Text("number", n), v)
    BY <1>6, <2>1 DEF setValue, AeotecSetting
  <2>3. v[i].type = "Short" /\ w[i].text = Written(v[i], Text("number", n))
    BY <2>1, <2>2, WrittenAtSetting
  <2>4. ((n + 32768) % 65536) - 32768 = n
    BY <2>1
  <2> QED
    BY <2>1, <2>3, <2>4 DEF Written, IsNumber, Text, SettingText
<1> QED
  BY <1>2, <1>3, <1>4, <1>5, <1>6, Products DEF RestoredModules

\* What an outlet or a node holds is what it reports.
LEMMA HeldIsShown ==
    ASSUME IsDevice(device), NEW module \in RestoredModules(device.manufacturer),
           NEW n \in Accepted(device.manufacturer, module), Holds(device, module, n)
    PROVE  Value(module, n) \in Shown
<1>1. CASE device.manufacturer = "Jablotron"
  <2>1. module = 0 /\ n \in 0..1 /\ device.relay = n
    BY <1>1 DEF RestoredModules, Accepted, Holds
  <2>2. Shown = {Value(0, IF n = 1 THEN 1 ELSE 0)}
    BY <1>1, <2>1, OutletIsShown DEF IsDevice
  <2> QED
    BY <2>1, <2>2
<1>2. CASE device.manufacturer # "Jablotron"
  <2> DEFINE v == device.values
             readings == Readings(device.manufacturer, v)
  <2>1. IsNode(device) /\ IsZWave
    BY <1>2 DEF IsDevice, IsZWave
  <2> SUFFICES \E r \in readings : r[1] = module /\ \E t \in r[2] : t.n = n
    BY <2>1 DEF Shown, extractValues, Value
  <2>2. ASSUME NEW s \in SettingsOf(device.manufacturer), s[1] = module
        PROVE  /\ SettingText(s[3], n) \in getSpecificValue(s[2], v)
               /\ \E i \in First(Matching(s[2], v)) : v[i].text = SettingText(s[3], n)
    <3>1. PICK i \in First(Matching(s[2], v)) : v[i].type = s[3]
      BY <2>1 DEF IsNode
    <3>2. v[i].text = SettingText(s[3], n)
      BY <1>2, <2>2, <3>1 DEF Holds
    <3> QED
      BY <3>1, <3>2 DEF getSpecificValue
  <2>3. CASE device.manufacturer = "Popp"
    <3> DEFINE s == <<0, SwitchBinary, "Bool">>
               bools == {j \in Matching(SwitchBinary, v) : v[j].text.kind = "bool"}
    <3>1. s \in SettingsOf(device.manufacturer) /\ module = 0
      BY <2>3 DEF SettingsOf, RestoredModules
    <3>2. PICK i \in First(Matching(SwitchBinary, v)) : v[i].text = Text("bool", n)
      BY <2>2, <3>1 DEF SettingText
    <3>3. i \in First(bools) /\ v[i].text.n = n
      BY <3>2 DEF First, Text
    <3>4. Text("number", n) \in getSwitchBinary(v)
      BY <3>3 DEF getSwitchBinary, FirstOf
    <3>5. <<0, getSwitchBinary(v)>> \in readings
      BY <2>3 DEF Readings, PoppReadings
    <3> QED
      BY <3>1, <3>4, <3>5 DEF Text
  <2>4. CASE device.manufacturer = "DLink"
    <3>1. <<4, <<112, 3>>, "Byte">> \in SettingsOf(device.manufacturer) /\ module = 4
      BY <2>4 DEF SettingsOf, RestoredModules
    <3>2. Text("number", n) \in getSpecificValue(<<112, 3>>, v)
      BY <2>2, <3>1 DEF SettingText
    <3>3. <<4, getSpecificValue(<<112, 3>>, v)>> \in readings
      BY <2>4 DEF Readings, DLinkReadings
    <3> QED
      BY <3>1, <3>2, <3>3 DEF Text
  <2>5. CASE device.manufacturer = "Aeotec" /\ module = 6
    <3> DEFINE labels == getSpecificValue(<<112, 4>>, v)
               pir == {Text("number", t.n) : t \in {u \in labels : u.kind = "level"}}
    <3>1. <<6, <<112, 4>>, "List">> \in SettingsOf(device.manufacturer)
      BY <2>5 DEF SettingsOf
    <3>2. Text("level", n) \in labels
      BY <2>2, <2>5, <3>1 DEF SettingText
    <3> HIDE DEF labels
    <3>3. Text("number", n) \in pir
      BY <3>2 DEF Text
    <3>4. <<6, pir>> \in readings
      BY <2>5 DEF Readings, AeotecReadings, labels
    <3> QED
      BY <2>5, <3>3, <3>4 DEF Text
  <2>6. CASE device.manufacturer = "Aeotec" /\ module = 8
    <3>1. <<8, <<112, 111>>, "Short">> \in SettingsOf(device.manufacturer)
      BY <2>6 DEF SettingsOf
    <3>2. Text("number", n) \in getSpecificValue(<<112, 111>>, v)
      BY <2>2, <2>6, <3>1 DEF SettingText
    <3>3. <<8, getSpecificValue(<<112, 111>>, v)>> \in readings
      BY <2>6 DEF Readings, AeotecReadings
    <3> QED
      BY <2>6, <3>2, <3>3 DEF Text
  <2> QED
    BY <1>2, <2>1, <2>3, <2>4, <2>5, <2>6, Products DEF RestoredModules, IsNode
<1> QED
  BY <1>1, <1>2

\* A text that a sensor shows changes no setting.
LEMMA TextIsSensed ==
    ASSUME NEW d, IsNode(d), NEW i \in DOMAIN d.values, d.values[i].id \notin SettingIds,
           NEW text \in NodeText
    PROVE  LET e == [d EXCEPT !.values[i].text = text]
           IN  /\ IsNode(e) /\ e.manufacturer = d.manufacturer
               /\ \A module, n : Holds(d, module, n) => Holds(e, module, n)
<1> DEFINE v == d.values
           w == [v EXCEPT ![i] = [v[i] EXCEPT !.text = text]]
           e == [d EXCEPT !.values[i].text = text]
<1>1. e = [d EXCEPT !.values = w]
  BY DEF IsNode
<1>2. v \in Seq(NodeValue)
  BY DEF IsNode
<1>3. w = [j \in DOMAIN v |-> w[j]] /\ DOMAIN w = DOMAIN v
  BY <1>2
<1>4. ASSUME NEW j \in DOMAIN v
      PROVE  /\ w[j] \in NodeValue
             /\ w[j].id = v[j].id /\ w[j].type = v[j].type /\ w[j].unit = v[j].unit
             /\ j # i => w[j] = v[j]
  <2>1. v[j] \in NodeValue
    BY <1>2, NodesAreRead
  <2>2. w[j] = IF j = i THEN [v[j] EXCEPT !.text = text] ELSE v[j]
    BY <1>2
  <2> HIDE DEF v, w
  <2> QED
    BY <2>1, <2>2 DEF NodeValue
<1> HIDE DEF w, e
<1>5. w \in Seq(NodeValue)
  BY <1>2, <1>3, <1>4, SequenceOf
<1>6. IsNode(e) /\ \A id : Matching(id, w) = Matching(id, v)
  BY <1>1, <1>3, <1>4, <1>5, OtherTexts
<1>7. e.manufacturer = d.manufacturer /\ e.values = w /\ d.manufacturer # "Jablotron"
  BY <1>1, Products DEF IsNode
<1>8. ASSUME NEW s \in SettingsOf(d.manufacturer), NEW j \in First(Matching(s[2], w))
      PROVE  j \in First(Matching(s[2], v)) /\ w[j] = v[j]
  <2>1. s[2] \in SettingIds
    BY DEF SettingsOf, SettingIds
  <2>2. Matching(s[2], w) = Matching(s[2], v)
    BY <1>6
  <2>3. j \in First(Matching(s[2], v)) /\ j \in Matching(s[2], v)
    BY <2>2 DEF First
  <2>4. j \in DOMAIN v /\ v[j].id = s[2]
    BY <2>3 DEF Matching
  <2> QED
    BY <1>4, <2>1, <2>3, <2>4
<1>9. \A module, n : Holds(d, module, n) => Holds(e, module, n)
  BY <1>7, <1>8 DEF Holds
<1> QED
  BY <1>6, <1>7, <1>9 DEF e

\* The device after a command: of the same kind, and with what was set.
LEMMA CommandedDevice ==
    ASSUME IsDevice(device), NEW cmd, cmd.value \in Int
    PROVE  /\ IsDevice(AfterCommand(cmd))
           /\ AfterCommand(cmd).manufacturer = device.manufacturer
           /\ /\ cmd.module \in RestoredModules(device.manufacturer)
              /\ cmd.value \in Accepted(device.manufacturer, cmd.module)
              => Holds(AfterCommand(cmd), cmd.module, cmd.value)
<1>1. CASE device.manufacturer = "Jablotron"
  <2>1. AfterCommand(cmd) = [device EXCEPT !.relay = cmd.value]
    BY <1>1 DEF AfterCommand, IsZWave
  <2>2. device = [manufacturer |-> "Jablotron", serial |-> device.serial, relay |-> device.relay]
    BY <1>1 DEF IsDevice, IsOutlet
  <2>3. AfterCommand(cmd) =
          [manufacturer |-> "Jablotron", serial |-> device.serial, relay |-> cmd.value]
    BY <2>1, <2>2
  <2> QED
    BY <1>1, <2>3 DEF IsDevice, IsOutlet, Holds
<1>2. CASE device.manufacturer # "Jablotron"
  <2>1. IsNode(device)
    BY <1>2 DEF IsDevice
  <2>2. AfterCommand(cmd) =
          [device EXCEPT !.values = setValue(device.manufacturer, cmd.module, cmd.value, @)]
    BY <1>2 DEF AfterCommand, IsZWave
  <2>3. IsNode(AfterCommand(cmd))
    BY <2>1, <2>2, ManagerSetsNode
  <2>4. AfterCommand(cmd).manufacturer = device.manufacturer
    BY <2>1, <2>2 DEF IsNode
  <2> QED
    BY <1>2, <2>1, <2>2, <2>3, <2>4, SettingIsHeld DEF IsDevice
<1> QED
  BY <1>1, <1>2

----------------------------------------------------------------------------
(* The messages under way. *)

\* Where the last message of this type is, and that there is none.
LastOf(queue, type, i) ==
    /\ queue[i].msg.message_type = type
    /\ \A j \in DOMAIN queue : j > i => queue[j].msg.message_type # type
NoneOf(queue, type) == \A i \in DOMAIN queue : queue[i].msg.message_type # type

\* The last message of a type after one was sent ...
LEMMA Appended ==
    ASSUME NEW S, NEW queue \in Seq(S), NEW m, NEW type
    PROVE  LET longer == Append(queue, m)
           IN  /\ m.msg.message_type = type =>
                    /\ ~NoneOf(longer, type)
                    /\ \A i \in DOMAIN longer : LastOf(longer, type, i) => longer[i] = m
               /\ m.msg.message_type # type =>
                    /\ NoneOf(longer, type) => NoneOf(queue, type)
                    /\ \A i \in DOMAIN longer : LastOf(longer, type, i) =>
                         i \in DOMAIN queue /\ LastOf(queue, type, i) /\ longer[i] = queue[i]
<1> DEFINE longer == Append(queue, m)
           n == Len(queue) + 1
<1>1. /\ DOMAIN queue = 1..Len(queue) /\ Len(queue) \in Nat
      /\ DOMAIN longer = 1..n /\ longer[n] = m
      /\ \A i \in DOMAIN queue : i \in DOMAIN longer /\ longer[i] = queue[i]
  OBVIOUS
<1> HIDE DEF longer
<1>2. ASSUME m.msg.message_type = type, NEW i \in DOMAIN longer, LastOf(longer, type, i)
      PROVE  longer[i] = m
  BY <1>1, <1>2 DEF LastOf
<1>3. m.msg.message_type = type => ~NoneOf(longer, type)
  BY <1>1 DEF NoneOf
<1>4. m.msg.message_type # type /\ NoneOf(longer, type) => NoneOf(queue, type)
  BY <1>1 DEF NoneOf
<1>5. ASSUME m.msg.message_type # type, NEW i \in DOMAIN longer, LastOf(longer, type, i)
      PROVE  i \in DOMAIN queue /\ LastOf(queue, type, i) /\ longer[i] = queue[i]
  <2>1. i \in DOMAIN queue
    BY <1>1, <1>5 DEF LastOf
  <2> QED
    BY <1>1, <1>5, <2>1 DEF LastOf
<1> QED
  BY <1>2, <1>3, <1>4, <1>5 DEF longer

\* ... and after one was received.
LEMMA Received ==
    ASSUME NEW S, NEW queue \in Seq(S), queue # <<>>, NEW type
    PROVE  /\ 1 \in DOMAIN queue
           /\ \A i \in DOMAIN Tail(queue) : LastOf(Tail(queue), type, i) =>
                /\ i + 1 \in DOMAIN queue /\ LastOf(queue, type, i + 1)
                /\ Tail(queue)[i] = queue[i + 1]
           /\ NoneOf(Tail(queue), type) =>
                IF queue[1].msg.message_type = type THEN LastOf(queue, type, 1)
                ELSE NoneOf(queue, type)
<1> DEFINE rest == Tail(queue)
<1>1. /\ DOMAIN queue = 1..Len(queue) /\ Len(queue) \in Nat \ {0}
      /\ DOMAIN rest = 1..(Len(queue) - 1)
      /\ \A i \in DOMAIN rest : rest[i] = queue[i + 1]
  OBVIOUS
<1> HIDE DEF rest
<1>2. \A j \in DOMAIN queue : j > 1 => j - 1 \in DOMAIN rest /\ queue[j] = rest[j - 1]
  BY <1>1
<1>3. ASSUME NEW i \in DOMAIN rest, LastOf(rest, type, i)
      PROVE  i + 1 \in DOMAIN queue /\ LastOf(queue, type, i + 1) /\ rest[i] = queue[i + 1]
  <2>1. i + 1 \in DOMAIN queue /\ rest[i] = queue[i + 1]
    BY <1>1
  <2>2. ASSUME NEW j \in DOMAIN queue, j > i + 1
        PROVE  queue[j].msg.message_type # type
    <3>1. j - 1 \in DOMAIN rest /\ j - 1 > i /\ queue[j] = rest[j - 1]
      BY <1>1, <1>2, <2>2
    <3> QED
      BY <1>3, <3>1 DEF LastOf
  <2> QED
    BY <1>3, <2>1, <2>2 DEF LastOf
<1>4. ASSUME NoneOf(rest, type), NEW j \in DOMAIN queue, j > 1
      PROVE  queue[j].msg.message_type # type
  BY <1>2, <1>4 DEF NoneOf
<1>5. NoneOf(rest, type) => IF queue[1].msg.message_type = type THEN LastOf(queue, type, 1)
                            ELSE NoneOf(queue, type)
  <2>1. \A j \in DOMAIN queue : j = 1 \/ j > 1
    BY <1>1
  <2> QED
    BY <1>4, <2>1 DEF LastOf, NoneOf
<1> QED
  BY <1>1, <1>3, <1>5 DEF rest

----------------------------------------------------------------------------
(* The invariant. *)

RelayTypes ==
    /\ IsDevice(device)
    /\ changed \in BOOLEAN
    /\ toBroker \in Seq(Reports \cup Passing)
    /\ toManager \in Seq(Sets \cup Passing)

\* With nothing new to report, the last report under way says what the node
\* shows; without one, so do the values last exported.
ReportsFollow ==
    IsZWave =>
        /\ changed => exported = {}
        /\ ~changed =>
             /\ \A i \in DOMAIN toBroker :
                  LastOf(toBroker, "measured_values", i) => toBroker[i].content.values = Shown
             /\ NoneOf(toBroker, "measured_values") => exported \in {{}, Shown}

\* The device holds the setting, if it can, unless a command is under way:
\* the last one carries it.
Reflected(d, module, n) ==
    /\ module \in RestoredModules(d.manufacturer)
    /\ n \in Accepted(d.manufacturer, module)
    => Holds(d, module, n)

SettingArrives ==
    /\ \A i \in DOMAIN toManager :
         LastOf(toManager, "set_values_cmd", i) =>
            setting = {<<toManager[i].content.module, toManager[i].content.value>>}
    /\ NoneOf(toManager, "set_values_cmd") =>
         \A s \in setting : Reflected(device, s[1], s[2])

RelayInv == RelayTypes /\ ReportsFollow /\ SettingArrives

\* No message is under way in an empty queue.
LEMMA QueuesAreEmpty == DOMAIN <<>> = {}
OBVIOUS

\* The invariant holds with any device and no message under way.
THEOREM RelayStarts == RelayInit => RelayInv
<1> SUFFICES ASSUME RelayInit PROVE RelayInv
  OBVIOUS
<1>1. RelayTypes
  <2>1. IsDevice(device) /\ changed \in BOOLEAN
    BY DevicesAssumption DEF RelayInit
  <2>2. toBroker = <<>> /\ toManager = <<>>
    BY DEF RelayInit
  <2>3. toBroker \in Seq(Reports \cup Passing)
    BY <2>2
  <2>4. toManager \in Seq(Sets \cup Passing)
    BY <2>2
  <2> QED
    BY <2>1, <2>3, <2>4 DEF RelayTypes
<1>2. ReportsFollow
  BY QueuesAreEmpty DEF RelayInit, ReportsFollow
<1>3. SettingArrives
  BY QueuesAreEmpty DEF RelayInit, SettingArrives
<1> QED
  BY <1>1, <1>2, <1>3 DEF RelayInv

\* Every device is of a manufacturer.
LEMMA DeviceKind ==
    ASSUME IsDevice(device)
    PROVE  device.manufacturer \in Kinds
BY DEF IsDevice, IsNode, Kinds

\* What Report() and SetValue() send.
LEMMA ReportIsCarried ==
    ASSUME IsDevice(device), NEW values \in SUBSET Measured
    PROVE  LET data == [device |-> device.manufacturer, values |-> values]
           IN  Carry(fromSensorData(data), data) \in Reports
BY DeviceKind DEF Reports

LEMMA SetIsCarried ==
    ASSUME IsDevice(device), NEW module \in 0..9, NEW n \in Int
    PROVE  LET cmd == [name |-> "DeviceSetValue", device |-> device.manufacturer,
                       module |-> module, value |-> n, timeout |-> 1500]
           IN  Carry(fromCommand(cmd, Id), cmd) \in Sets
BY DeviceKind DEF Sets

\* Nothing happens to the device and the messages of one direction.
LEMMA ReportsStay ==
    ASSUME ReportsFollow, UNCHANGED <<device, changed, toBroker, exported>>
    PROVE  ReportsFollow'
BY DEF ReportsFollow, IsZWave, Shown, LastOf, NoneOf

LEMMA SettingStays ==
    ASSUME SettingArrives, UNCHANGED <<device, toManager, setting>>
    PROVE  SettingArrives'
BY DEF SettingArrives, LastOf, NoneOf

\* The steps, one by one: a node that shows another text has it to report.
LEMMA SensePreserves ==
    ASSUME RelayInv, NEW t \in Texts, Sense(t[1], t[2])
    PROVE  RelayInv'
<1> USE DEF RelayInv
<1>1. t[1] \notin SettingIds /\ t[2] \in NodeText
  BY TextsAssumption
<1>2. PICK i \in DOMAIN device.values :
        /\ device.values[i].id = t[1]
        /\ device' = [device EXCEPT !.values[i].text = t[2]]
  BY DEF Sense
<1>3. /\ changed' = TRUE /\ exported' = {}
      /\ UNCHANGED <<toBroker, toManager, setting>>
      /\ device.manufacturer # "Jablotron"
  BY DEF Sense, IsZWave
<1>4. IsNode(device)
  BY <1>3 DEF RelayTypes, IsDevice
<1>5. /\ IsNode(device') /\ device'.manufacturer = device.manufacturer
      /\ \A module, n : Holds(device, module, n) => Holds(device', module, n)
  BY <1>1, <1>2, <1>4, TextIsSensed
<1>6. RelayTypes'
  BY <1>3, <1>5 DEF RelayTypes, IsDevice
<1>7. ReportsFollow'
  BY <1>3 DEF ReportsFollow
<1>8. SettingArrives'
  BY <1>3, <1>5 DEF SettingArrives, Reflected, LastOf, NoneOf
<1> QED
  BY <1>6, <1>7, <1>8

\* The report of a node says what it shows.
LEMMA ReportNodePreserves ==
    ASSUME RelayInv, ReportNode
    PROVE  RelayInv'
<1> USE DEF RelayInv
<1> DEFINE data == [device |-> device.manufacturer, values |-> Shown]
           m == Carry(fromSensorData(data), data)
<1>1. /\ IsZWave /\ changed' = FALSE
      /\ toBroker' = Append(toBroker, m)
      /\ UNCHANGED <<device, toManager, exported, setting>>
  BY DEF ReportNode, Report, Shown
<1>2. IsDevice(device) /\ Shown \in SUBSET Measured
  BY ShownIsMeasured DEF RelayTypes
<1>3. m \in Reports /\ m.content.values = Shown
  BY <1>2, ReportIsCarried DEF Carry
<1> HIDE DEF m
<1>4. RelayTypes'
  <2>1. toBroker' \in Seq(Reports \cup Passing)
    BY <1>1, <1>3 DEF RelayTypes
  <2> QED
    BY <1>1, <2>1 DEF RelayTypes
<1>5. Shown' = Shown /\ IsZWave'
  BY <1>1 DEF Shown, IsZWave
<1>6. ReportsFollow'
  <2>1. m.msg.message_type = "measured_values"
    BY <1>3, ReportIsRead
  <2>2. /\ ~NoneOf(toBroker', "measured_values")
        /\ \A i \in DOMAIN toBroker' :
             LastOf(toBroker', "measured_values", i) => toBroker'[i] = m
    BY <1>1, <2>1, Appended DEF RelayTypes
  <2> QED
    BY <1>1, <1>3, <1>5, <2>2 DEF ReportsFollow, LastOf, NoneOf
<1>7. SettingArrives'
  BY <1>1, SettingStays
<1> QED
  BY <1>4, <1>6, <1>7

\* Lines are reports of the Jablotron's devices.
LEMMA ReportLinePreserves ==
    ASSUME RelayInv, NEW line \in Lines, ReportLine(line)
    PROVE  RelayInv'
<1> USE DEF RelayInv
<1> DEFINE data == [device |-> device.manufacturer,
                    values |-> Jablotron!parseMessageFromDevice(line)]
           m == Carry(fromSensorData(data), data)
<1>1. /\ ~IsZWave /\ changed' = (changed /\ line.serial # device.serial)
      /\ toBroker' = Append(toBroker, m)
      /\ UNCHANGED <<device, toManager, exported, setting>>
  BY DEF ReportLine, Report
<1>2. Jablotron!parseMessageFromDevice(line) \in SUBSET Measured
  BY LinesAssumption, LineIsMeasured
<1>3. m \in Reports
  BY <1>2, ReportIsCarried DEF RelayTypes
<1> HIDE DEF m
<1>4. RelayTypes'
  <2>1. toBroker' \in Seq(Reports \cup Passing)
    BY <1>1, <1>3 DEF RelayTypes
  <2>2. changed' \in BOOLEAN
    BY <1>1
  <2> QED
    BY <1>1, <2>1, <2>2 DEF RelayTypes
<1>5. ReportsFollow'
  BY <1>1 DEF ReportsFollow, IsZWave
<1>6. SettingArrives'
  BY <1>1, SettingStays
<1> QED
  BY <1>4, <1>5, <1>6

\* The last report, exported, is what the node shows.
LEMMA BrokerReceivesPreserves ==
    ASSUME RelayInv, BrokerReceives
    PROVE  RelayInv'
<1> USE DEF RelayInv
<1> DEFINE m == toBroker[1]
<1>1. /\ toBroker # <<>> /\ toBroker' = Tail(toBroker)
      /\ UNCHANGED <<device, changed, toManager, setting>>
  BY DEF BrokerReceives
<1>2. toBroker \in Seq(Reports \cup Passing)
  BY DEF RelayTypes
<1>3. m \in Reports \cup Passing
  BY <1>1, <1>2
<1>4. exported' = IF m.msg.message_type = "measured_values" /\ ~changed
                  THEN m.content.values ELSE exported
  BY <1>3, ReportIsRead, PassingIsRead DEF BrokerReceives
<1>5. RelayTypes'
  <2>1. toBroker' \in Seq(Reports \cup Passing)
    BY <1>1, <1>2
  <2> QED
    BY <1>1, <2>1 DEF RelayTypes
<1>6. ReportsFollow'
  <2>1. SUFFICES ASSUME IsZWave PROVE ReportsFollow'
    BY <1>1 DEF ReportsFollow, IsZWave
  <2>2. Shown' = Shown
    BY <1>1 DEF Shown, IsZWave
  <2>3. CASE changed
    BY <1>1, <1>4, <2>1, <2>3 DEF ReportsFollow
  <2>4. CASE ~changed
    <3>1. \A i \in DOMAIN toBroker' : LastOf(toBroker', "measured_values", i) =>
            /\ i + 1 \in DOMAIN toBroker /\ LastOf(toBroker, "measured_values", i + 1)
            /\ toBroker'[i] = toBroker[i + 1]
      BY <1>1, <1>2, Received
    <3>2. \A i \in DOMAIN toBroker' : LastOf(toBroker', "measured_values", i) =>
            toBroker'[i].content.values = Shown'
      BY <2>1, <2>2, <2>4, <3>1 DEF ReportsFollow
    <3>3. ASSUME NoneOf(toBroker', "measured_values")
          PROVE  exported' \in {{}, Shown'}
      <4>1. /\ 1 \in DOMAIN toBroker
            /\ IF m.msg.message_type = "measured_values" THEN LastOf(toBroker, "measured_values", 1)
               ELSE NoneOf(toBroker, "measured_values")
        BY <1>1, <1>2, <3>3, Received
      <4> QED
        BY <1>4, <2>1, <2>2, <2>4, <4>1 DEF ReportsFollow
    <3> QED
      BY <1>1, <2>4, <3>2, <3>3 DEF ReportsFollow, LastOf, NoneOf
  <2> QED
    BY <2>3, <2>4, <1>5 DEF RelayTypes
<1>7. SettingArrives'
  BY <1>1, SettingStays
<1> QED
  BY <1>5, <1>6, <1>7

\* The last command carries the setting.
LEMMA SetValuePreserves ==
    ASSUME RelayInv, NEW s \in Settings, SetValue(s[1], s[2])
    PROVE  RelayInv'
<1> USE DEF RelayInv
<1> DEFINE cmd == [name |-> "DeviceSetValue", device |-> device.manufacturer,
                   module |-> s[1], value |-> s[2], timeout |-> 1500]
           m == Carry(fromCommand(cmd, Id), cmd)
<1>1. /\ setting' = {<<s[1], s[2]>>}
      /\ toManager' = Append(toManager, m)
      /\ UNCHANGED <<device, changed, toBroker, exported>>
  BY DEF SetValue
<1>2. s[1] \in 0..9 /\ s[2] \in Int
  BY SettingsAssumption
<1>3. m \in Sets /\ m.content.module = s[1] /\ m.content.value = s[2]
  BY <1>2, SetIsCarried DEF Carry, RelayTypes
<1> HIDE DEF m
<1>4. RelayTypes'
  <2>1. toManager' \in Seq(Sets \cup Passing)
    BY <1>1, <1>3 DEF RelayTypes
  <2> QED
    BY <1>1, <2>1 DEF RelayTypes
<1>5. ReportsFollow'
  BY <1>1, ReportsStay
<1>6. SettingArrives'
  <2>1. m.msg.message_type = "set_values_cmd"
    BY <1>3, SetIsRead
  <2>2. /\ ~NoneOf(toManager', "set_values_cmd")
        /\ \A i \in DOMAIN toManager' :
             LastOf(toManager', "set_values_cmd", i) => toManager'[i] = m
    <3>1. toManager \in Seq(Sets \cup Passing)
      BY DEF RelayTypes
    <3> QED
      BY <1>1, <2>1, <3>1, Appended
  <2> QED
    BY <1>1, <1>3, <2>2 DEF SettingArrives, LastOf, NoneOf
<1> QED
  BY <1>4, <1>5, <1>6

\* A command that was the last leaves its number in the device.
LEMMA ManagerReceivesPreserves ==
    ASSUME RelayInv, ManagerReceives
    PROVE  RelayInv'
<1> USE DEF RelayInv
<1> DEFINE m == toManager[1]
           cmd == toDeviceSetValueCommand(m.msg)
<1>1. /\ toManager # <<>> /\ toManager' = Tail(toManager)
      /\ device' = IF m.msg.message_type = "set_values_cmd" THEN AfterCommand(cmd) ELSE device
      /\ UNCHANGED <<toBroker, setting>>
  BY DEF ManagerReceives
<1>2. /\ changed' <=> (changed \/ device' # device)
      /\ changed' \in BOOLEAN
  BY DEF ManagerReceives
<1>3. exported' = IF changed' THEN {} ELSE exported
  BY DEF ManagerReceives
<1>4. toManager \in Seq(Sets \cup Passing) /\ IsDevice(device)
  BY DEF RelayTypes
<1>5. m \in Sets \cup Passing
  BY <1>1, <1>4
<1>6. ASSUME m.msg.message_type = "set_values_cmd"
      PROVE  /\ cmd.module = m.content.module /\ cmd.value = m.content.value
             /\ cmd.value \in Int
  BY <1>5, <1>6, SetIsRead, PassingIsRead
<1>7. IsDevice(device') /\ device'.manufacturer = device.manufacturer
  BY <1>1, <1>4, <1>6, CommandedDevice
<1>8. RelayTypes'
  <2>1. toManager' \in Seq(Sets \cup Passing)
    BY <1>1, <1>4
  <2> QED
    BY <1>1, <1>2, <1>7, <2>1 DEF RelayTypes
<1>9. ReportsFollow'
  <2>1. CASE changed'
    BY <1>3, <2>1 DEF ReportsFollow
  <2>2. CASE ~changed'
    <3>1. ~changed /\ device' = device /\ exported' = exported
      BY <1>2, <1>3, <2>2
    <3> QED
      BY <1>1, <2>2, <3>1 DEF ReportsFollow, IsZWave, Shown, LastOf, NoneOf
  <2> QED
    BY <1>2, <2>1, <2>2
<1>10. SettingArrives'
  <2>1. \A i \in DOMAIN toManager' : LastOf(toManager', "set_values_cmd", i) =>
          /\ i + 1 \in DOMAIN toManager /\ LastOf(toManager, "set_values_cmd", i + 1)
          /\ toManager'[i] = toManager[i + 1]
    BY <1>1, <1>4, Received
  <2>2. ASSUME NoneOf(toManager', "set_values_cmd"), NEW s \in setting
        PROVE  Reflected(device', s[1], s[2])
    <3>1. /\ 1 \in DOMAIN toManager
          /\ IF m.msg.message_type = "set_values_cmd" THEN LastOf(toManager, "set_values_cmd", 1)
             ELSE NoneOf(toManager, "set_values_cmd")
      BY <1>1, <1>4, <2>2, Received
    <3>2. CASE m.msg.message_type = "set_values_cmd"
      <4>1. s[1] = cmd.module /\ s[2] = cmd.value /\ device' = AfterCommand(cmd)
        BY <1>1, <1>6, <2>2, <3>1, <3>2 DEF SettingArrives
      <4> QED
        BY <1>4, <1>6, <1>7, <3>2, <4>1, CommandedDevice DEF Reflected
    <3>3. CASE m.msg.message_type # "set_values_cmd"
      BY <1>1, <2>2, <3>1, <3>3 DEF SettingArrives
    <3> QED
      BY <3>2, <3>3
  <2> QED
    BY <1>1, <2>1, <2>2 DEF SettingArrives, LastOf, NoneOf
<1> QED
  BY <1>8, <1>9, <1>10

\* Other messages, of no report and no setting.
LEMMA ExchangePreserves ==
    ASSUME RelayInv, NEW other \in Others, Exchange(other)
    PROVE  RelayInv'
<1> USE DEF RelayInv
<1> DEFINE m == Carry(Write(other.kind, other.content, Id), other.content)
<1>1. /\ toBroker = <<>> /\ toManager = <<>>
      /\ \/ toBroker' = <<m>> /\ toManager' = toManager
         \/ toManager' = <<m>> /\ toBroker' = toBroker
      /\ UNCHANGED <<device, changed, exported, setting>>
  BY DEF Exchange
<1>2. m \in Passing
  BY DEF Passing
<1>3. m.msg.message_type \notin {"measured_values", "set_values_cmd"}
  BY <1>2, PassingIsRead
<1> HIDE DEF m
<1>4. NoneOf(<<m>>, "measured_values") /\ NoneOf(<<m>>, "set_values_cmd")
  BY <1>3 DEF NoneOf
<1>5. \A i \in DOMAIN <<m>> : ~LastOf(<<m>>, "measured_values", i) /\ ~LastOf(<<m>>, "set_values_cmd", i)
  BY <1>3 DEF LastOf
<1>6. NoneOf(<<>>, "measured_values") /\ NoneOf(<<>>, "set_values_cmd")
  BY DEF NoneOf
<1>7. RelayTypes'
  <2>1. toBroker' \in Seq(Reports \cup Passing)
    <3>1. toBroker \in Seq(Reports \cup Passing) /\ <<m>> \in Seq(Reports \cup Passing)
      BY <1>2 DEF RelayTypes
    <3> QED
      BY <1>1, <3>1
  <2>2. toManager' \in Seq(Sets \cup Passing)
    <3>1. toManager \in Seq(Sets \cup Passing) /\ <<m>> \in Seq(Sets \cup Passing)
      BY <1>2 DEF RelayTypes
    <3> QED
      BY <1>1, <3>1
  <2> QED
    BY <1>1, <2>1, <2>2 DEF RelayTypes
<1>8. ReportsFollow'
  <2>1. CASE toBroker' = toBroker
    BY <1>1, <2>1, ReportsStay
  <2>2. CASE toBroker' = <<m>>
    BY <1>1, <1>4, <1>5, <1>6, <2>2 DEF ReportsFollow, IsZWave, Shown, LastOf, NoneOf
  <2> QED
    BY <1>1, <2>1, <2>2
<1>9. SettingArrives'
  <2>1. CASE toManager' = toManager
    BY <1>1, <2>1, SettingStays
  <2>2. CASE toManager' = <<m>>
    BY <1>1, <1>4, <1>5, <1>6, <2>2 DEF SettingArrives, LastOf, NoneOf
  <2> QED
    BY <1>1, <2>1, <2>2
<1> QED
  BY <1>7, <1>8, <1>9

\* Nothing happens to the device and the messages.
LEMMA RelayStays ==
    ASSUME RelayInv, UNCHANGED <<device, changed, toBroker, toManager, exported, setting>>
    PROVE  RelayInv'
BY ReportsStay, SettingStays DEF RelayInv, RelayTypes

\* Every step of the device, its manager and the broker preserves it.
THEOREM RelaySteps == RelayInv /\ [RelayNext]_relayVars => RelayInv'
<1> SUFFICES ASSUME RelayInv, [RelayNext]_relayVars PROVE RelayInv'
  OBVIOUS
<1>1. ASSUME NEW t \in Texts, Sense(t[1], t[2]) PROVE RelayInv'
  BY <1>1, SensePreserves
<1>2. CASE ReportNode
  BY <1>2, ReportNodePreserves
<1>3. CASE ReportThrows
  BY <1>3, RelayStays DEF ReportThrows
<1>4. ASSUME NEW line \in Lines, ReportLine(line) PROVE RelayInv'
  BY <1>4, ReportLinePreserves
<1>5. CASE BrokerReceives
  BY <1>5, BrokerReceivesPreserves
<1>6. CASE ManagerReceives
  BY <1>6, ManagerReceivesPreserves
<1>7. ASSUME NEW s \in Settings, SetValue(s[1], s[2]) PROVE RelayInv'
  BY <1>7, SetValuePreserves
<1>8. ASSUME NEW other \in Others, Exchange(other) PROVE RelayInv'
  BY <1>8, ExchangePreserves
<1>9. CASE UNCHANGED relayVars
  BY <1>9, RelayStays DEF relayVars
<1> QED
  BY <1>1, <1>2, <1>3, <1>4, <1>5, <1>6, <1>7, <1>8, <1>9 DEF RelayNext

\* The reports follow the node and the settings arrive, in every behaviour.
THEOREM RelayHolds == RelaySpec => []RelayInv
BY RelayStarts, RelaySteps, PTL DEF RelaySpec

----------------------------------------------------------------------------
(* The properties. *)

\* What to*() reads of any message under way is what from*() made it of, down
\* to the second (ZMQMessage.cpp).
THEOREM MessagesAreDecoded == RelaySpec => []DecodedAsSent
<1>1. ASSUME RelayInv PROVE DecodedAsSent
  <2>1. toBroker \in Seq(Reports \cup Passing) /\ toManager \in Seq(Sets \cup Passing)
    BY <1>1 DEF RelayInv, RelayTypes
  <2>2. \A i \in DOMAIN toBroker : toBroker[i] \in Reports \cup Passing
    BY <2>1
  <2>3. \A i \in DOMAIN toManager : toManager[i] \in Sets \cup Passing
    BY <2>1
  <2> QED
    BY <2>2, <2>3, ReportIsRead, SetIsRead, PassingIsRead DEF DecodedAsSent
<1> QED
  BY <1>1, RelayHolds, PTL

\* A value that the server has set for a restored module is what the device
\* reports for it (setValue(), extractValues() and setLastState()).
THEOREM SettingsAreReported == RelaySpec => []SetThenReported
<1>1. ASSUME RelayInv PROVE SetThenReported
  <2>1. toManager = <<>> => NoneOf(toManager, "set_values_cmd")
    BY DEF NoneOf
  <2> QED
    BY <1>1, <2>1, HeldIsShown
       DEF RelayInv, RelayTypes, SettingArrives, Reflected, SetThenReported
<1> QED
  BY <1>1, RelayHolds, PTL

\* What was last exported of a node that has nothing new to report is what it
\* shows (NotificationProcessor::valueChanged(), ZMQBroker::handleDataMessage()).
THEOREM ExportsFollow == RelaySpec => []ExportFollowsDevice
<1>1. ASSUME RelayInv PROVE ExportFollowsDevice
  <2>1. toBroker = <<>> => NoneOf(toBroker, "measured_values")
    BY DEF NoneOf
  <2> QED
    BY <1>1, <2>1 DEF RelayInv, ReportsFollow, ExportFollowsDevice
<1> QED
  BY <1>1, RelayHolds, PTL

\* No report has two values for a module, and a temperature is the same in
\* either unit (products/*.cpp, ZWaveMessage::getTemperature()).
THEOREM ReportsAreClear == RelaySpec => []ReportsAreUnambiguous
<1>1. RelayInv => ReportsAreUnambiguous
  BY ShownIsClear DEF RelayInv, RelayTypes
<1> QED
  BY <1>1, RelayHolds, PTL
=============================================================================
