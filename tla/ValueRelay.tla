------------------------------ MODULE ValueRelay ------------------------------
(***************************************************************************)
(* The way of a value between a device and the server: a device manager    *)
(* reports what its device shows, the broker exports it; a command of the  *)
(* server is sent to the device manager, which writes it to the device.    *)
(* The tables of products, lines and messages are those of ZWaveProducts,  *)
(* JablotronMessages and ZMQMessages; this module composes them.           *)
(*                                                                         *)
(* One device and its manager, which keep the order of messages (ZeroMQ).  *)
(* Which device manager a command goes to, results and threads are the     *)
(* matter of other modules.                                                *)
(***************************************************************************)
EXTENDS ZWaveProducts, ZMQMessages

Jablotron == INSTANCE JablotronMessages

CONSTANTS
    DeviceStates,   \* records (manufacturer, values); "Jablotron" has a serial
    Texts,          \* what sensors of a Z-Wave node may come to show: (id, text)
    Lines,          \* lines of Jablotron devices
    Settings,       \* what the server sets: (module, value)
    Others,         \* what the other messages are made of: records (to, kind, content)
    MaxInFlight     \* bound on the messages under way

NodeText == [kind : {"number", "bool", "level", "other"}, n : Int]

NodeValue ==
    [id : Nat \X Nat, type : {"Bool", "Byte", "Short", "Int", "List", "Decimal"},
     text : NodeText, unit : STRING]

\* Where a product has what the server may set, by module: its id and its type.
SettingsOf(manufacturer) ==
    CASE manufacturer = "Popp" -> {<<0, SwitchBinary, "Bool">>}
      [] manufacturer = "DLink" -> {<<4, <<112, 3>>, "Byte">>}
      [] manufacturer = "Aeotec" -> {<<6, <<112, 4>>, "List">>, <<8, <<112, 111>>, "Short">>}
      [] OTHER -> {}

SettingIds == {SwitchBinary, <<112, 3>>, <<112, 4>>, <<112, 111>>}

\* The values that OpenZWave knows of a node: settings with their types, one
\* burglar alarm at most, and only temperatures in degrees Fahrenheit.
IsNode(d) ==
    /\ d = [manufacturer |-> d.manufacturer, values |-> d.values]
    /\ d.manufacturer \in DOMAIN Manufacturers
    /\ d.values \in Seq(NodeValue)
    /\ \A s \in SettingsOf(d.manufacturer) :
         \E i \in First(Matching(s[2], d.values)) : d.values[i].type = s[3]
    /\ \A i, j \in Matching(Alarm, d.values) : i = j
    /\ \A i \in DOMAIN d.values : d.values[i].unit = "F" => d.values[i].id = Temperature

IsOutlet(d) ==
    /\ d = [manufacturer |-> "Jablotron", serial |-> d.serial, relay |-> d.relay]
    /\ d.serial \in Int /\ Jablotron!getDeviceType(d.serial) = "AC88"
    /\ d.relay \in Int

IsDevice(d) == IF d.manufacturer = "Jablotron" THEN IsOutlet(d) ELSE IsNode(d)

ASSUME DevicesAssumption == \A d \in DeviceStates : IsDevice(d)

\* A setting does not change by itself.
ASSUME TextsAssumption ==
    \A t \in Texts : t = <<t[1], t[2]>> /\ t[1] \notin SettingIds /\ t[2] \in NodeText

ASSUME LinesAssumption ==
    Lines \subseteq [serial : Int, what : STRING, n : Int, battery : Int, complete : BOOLEAN]

\* The modules of all products are below 10.
ASSUME SettingsAssumption == Settings \subseteq (0..9) \X Int

\* Contents of all kinds, but for those of SetValue and Report.
IsOther(kind, c) ==
    \/ /\ kind = "command" /\ c.name = "GatewayListen"
       /\ c = [name |-> "GatewayListen", duration |-> c.duration] /\ c.duration \in Nat
    \/ /\ kind = "command" /\ c.name = "DeviceUnpair"
       /\ c = [name |-> "DeviceUnpair", device |-> c.device]
    \/ /\ kind = "command" /\ c.name = "ServerDeviceList"
       /\ c = [name |-> "ServerDeviceList", prefix |-> c.prefix]
    \/ /\ kind = "command" /\ c.name = "ServerLastValue"
       /\ c = [name |-> "ServerLastValue", device |-> c.device, module |-> c.module]
       /\ c.module \in 0..9
    \/ /\ kind = "result" /\ c.name = "Result"
       /\ c = [name |-> "Result", status |-> c.status]
    \/ /\ kind = "result" /\ c.name = "ServerDeviceList"
       /\ c = [name |-> "ServerDeviceList", status |-> c.status, devices |-> c.devices]
    \/ /\ kind = "result" /\ c.name = "ServerLastValue"
       /\ c = [name |-> "ServerLastValue", status |-> c.status, value |-> c.value]
    \/ /\ kind = "result" /\ c.name = "DeviceSetValue"
       /\ c = [name |-> "DeviceSetValue", status |-> c.status, setStatus |-> c.setStatus]
    \/ kind = "error" /\ c = [name |-> "error", error |-> c.error, text |-> c.text]
    \/ kind = "hello_request" /\ c = [name |-> "hello_request", prefix |-> c.prefix]
    \/ kind = "hello_response" /\ c = [name |-> "hello_response", manager |-> c.manager]

ASSUME OthersAssumption == \A o \in Others : IsOther(o.kind, o.content)

VARIABLES
    device,         \* the device, with the values that it shows
    alive,          \* FALSE once an exception has ended the manager's thread
    changed,        \* the device has changed and not reported yet
    toBroker,       \* messages under way, each with what it was made of
    toManager,
    exported,       \* the values last exported, while the device shows no others
    setting         \* the last setting by the server: at most one (module, value)

relayVars == <<device, alive, changed, toBroker, toManager, exported, setting>>

IsZWave == device.manufacturer # "Jablotron"

RelayInit ==
    /\ device \in DeviceStates
    /\ alive = TRUE
    /\ changed = FALSE
    /\ toBroker = <<>> /\ toManager = <<>>
    /\ exported = {}
    /\ setting = {}

\* The message ids stand for themselves.
Id == "id"

HasRoom == Len(toBroker) + Len(toManager) < MaxInFlight

Carry(msg, content) == [msg |-> msg, content |-> content]

Report(values) ==
    LET data == [device |-> device.manufacturer, values |-> values]
    IN  toBroker' = Append(toBroker, Carry(fromSensorData(data), data))

----------------------------------------------------------------------------
(* From the device to the server. *)

\* A sensor of a node shows another text.
Sense(id, text) ==
    /\ IsZWave
    /\ \E i \in DOMAIN device.values :
        /\ device.values[i].id = id
        /\ device' = [device EXCEPT !.values[i].text = text]
    /\ changed' = TRUE
    /\ exported' = {}
    /\ UNCHANGED <<alive, toBroker, toManager, setting>>

\* NotificationProcessor::valueChanged(), of a paired device: every value of
\* the node is read.
ReportNode ==
    /\ IsZWave /\ alive /\ changed
    /\ HasRoom
    /\ ~ExtractionThrows(device.manufacturer, device.values)
    /\ changed' = FALSE
    /\ Report(extractValues(device.manufacturer, device.values))
    /\ UNCHANGED <<device, alive, toManager, exported, setting>>

\* The exception is not caught: OpenZWave's thread ends.
ReportThrows ==
    /\ IsZWave /\ alive /\ changed
    /\ ExtractionThrows(device.manufacturer, device.values)
    /\ alive' = FALSE
    /\ UNCHANGED <<device, changed, toBroker, toManager, exported, setting>>

\* JablotronDeviceManager::sendMeasuredValues(), of a known device.  A line
\* of this outlet tells its state.
ReportLine(line) ==
    /\ ~IsZWave
    /\ line.serial = device.serial => line.n = device.relay
    /\ HasRoom
    /\ changed' = (changed /\ line.serial # device.serial)
    /\ Jablotron!parseMessageFromDevice(line) # {}
    /\ Report(Jablotron!parseMessageFromDevice(line))
    /\ UNCHANGED <<device, alive, toManager, exported, setting>>

\* ZMQBroker::handleDataMessage(): measured values are exported; what the
\* other messages say is for other modules.
BrokerReceives ==
    /\ toBroker # <<>>
    /\ toBroker' = Tail(toBroker)
    /\ LET msg == toBroker[1].msg
       IN  exported' = IF msg.message_type = "measured_values" /\ SensorDataParses(msg) /\ ~changed
                       THEN toSensorData(msg).values
                       ELSE exported
    /\ UNCHANGED <<device, alive, changed, toManager, setting>>

----------------------------------------------------------------------------
(* From the server to the device. *)

\* ZMQBroker sends the server's command.
SetValue(module, n) ==
    /\ HasRoom
    /\ setting' = {<<module, n>>}
    /\ LET cmd == [name |-> "DeviceSetValue", device |-> device.manufacturer,
                   module |-> module, value |-> n, timeout |-> 1500]
       IN  toManager' = Append(toManager, Carry(fromCommand(cmd, Id), cmd))
    /\ UNCHANGED <<device, alive, changed, toBroker, exported>>

\* The device after the command: doSetValueCommand() of the managers, and of
\* the Jablotron's its setSwitch(), whose state the only outlet takes over.
AfterCommand(cmd) ==
    IF IsZWave
    THEN [device EXCEPT !.values = setValue(device.manufacturer, cmd.module, cmd.value, @)]
    ELSE [device EXCEPT !.relay = cmd.value]

\* onEvent() of the device manager; other messages do not change the device.
ManagerReceives ==
    /\ toManager # <<>>
    /\ toManager' = Tail(toManager)
    /\ LET msg == toManager[1].msg
       IN  device' = IF msg.message_type = "set_values_cmd"
                     THEN AfterCommand(toDeviceSetValueCommand(msg))
                     ELSE device
    /\ changed' = (changed \/ device' # device)
    /\ exported' = IF changed' THEN {} ELSE exported
    /\ UNCHANGED <<alive, toBroker, setting>>

\* Another message on its way, when there is none: a bound on the states, as
\* these messages change nothing.
Exchange(other) ==
    /\ toBroker = <<>> /\ toManager = <<>>
    /\ LET carried == Carry(Write(other.kind, other.content, Id), other.content)
       IN  IF other.to = "broker" THEN toBroker' = <<carried>> /\ UNCHANGED toManager
                                  ELSE toManager' = <<carried>> /\ UNCHANGED toBroker
    /\ UNCHANGED <<device, alive, changed, exported, setting>>

RelayNext ==
    \/ \E t \in Texts : Sense(t[1], t[2])
    \/ ReportNode \/ ReportThrows
    \/ \E line \in Lines : ReportLine(line)
    \/ BrokerReceives \/ ManagerReceives
    \/ \E s \in Settings : SetValue(s[1], s[2])
    \/ \E other \in Others : Exchange(other)

RelaySpec == RelayInit /\ [][RelayNext]_relayVars

----------------------------------------------------------------------------
(* Properties. *)

\* Durations are carried in whole seconds.
InSeconds(content) ==
    [a \in DOMAIN content |->
        IF a \in {"duration", "timeout"} THEN (content[a] \div 1000) * 1000 ELSE content[a]]

\* What is read from a message is what it was made of, down to the second,
\* whichever class of command, result or data it is; and the receiver takes
\* messages of its type (ZMQMessage.cpp, from*() and to*() of each class).
DecodedAsSent ==
    /\ \A i \in DOMAIN toBroker : Read(toBroker[i].msg) = InSeconds(toBroker[i].content)
    /\ \A i \in DOMAIN toManager : Read(toManager[i].msg) = InSeconds(toManager[i].content)

\* The modules whose last value ZWaveDeviceManager::setLastState() asks the
\* server for and writes to the device, and the Jablotron's outlet.
RestoredModules(manufacturer) ==
    CASE manufacturer = "Popp" -> {0}
      [] manufacturer = "DLink" -> {4}
      [] manufacturer = "Aeotec" -> {6, 8}
      [] manufacturer = "Jablotron" -> {0}
      [] OTHER -> {}

\* The numbers that the device can take for the module.
Accepted(manufacturer, module) ==
    IF manufacturer \in {"Popp", "Jablotron"} THEN 0..1
    ELSE IF manufacturer = "Aeotec" /\ module = 6 THEN 0..5
    ELSE 0..255

Shown == IF IsZWave THEN extractValues(device.manufacturer, device.values)
         ELSE Jablotron!parseMessageFromDevice(
                [serial |-> device.serial, what |-> "RELAY", n |-> device.relay,
                 battery |-> 0, complete |-> TRUE])

\* A value that the server has set for a module whose last value is restored
\* is what the device reports for this module from then on: setValue(),
\* extractValues(), setLastState() and the types of OpenZWave's values agree
\* (ZWaveDeviceManager.cpp:73, 319 and 341, products/*.cpp).
SetThenReported ==
    \A s \in setting :
        /\ toManager = <<>>
        /\ s[1] \in RestoredModules(device.manufacturer)
        /\ s[2] \in Accepted(device.manufacturer, s[1])
        /\ IsZWave => ~ExtractionThrows(device.manufacturer, device.values)
        => Value(s[1], s[2]) \in Shown

\* With everything reported and received, the values last exported are those
\* that the Z-Wave device shows: a report reads all the values of the node
\* again (NotificationProcessor.cpp:97-128, ZMQMessage.cpp:256 and 474).
ExportFollowsDevice ==
    IsZWave /\ ~changed /\ toBroker = <<>> /\ exported # {} => exported = Shown

\* The same node, if it measured in degrees Celsius.
InCelsius ==
    [i \in DOMAIN device.values |->
        IF device.values[i].unit = "F" /\ device.values[i].text.kind = "number"
        THEN [device.values[i] EXCEPT !.unit = "C", !.text.n = ((@ - 32) * 5) \div 9]
        ELSE device.values[i]]

\* No report has two values for a module, and the unit in which a node shows
\* its temperature makes no difference to it (the module tables of
\* products/*.cpp and JablotronDeviceManager.h:26-71, ZWaveMessage.cpp:96).
ReportsAreUnambiguous ==
    /\ \A v, w \in Shown : v.module = w.module => v = w
    /\ IsZWave => Shown = extractValues(device.manufacturer, InCelsius)
=============================================================================
