----------------------------- MODULE ZMQMessages -----------------------------
(***************************************************************************)
(* The messages between the broker and the device managers                 *)
(* (zmq/ZMQMessage): what from*() writes of a command, a result or of      *)
(* measured values, and what to*() reads of it.                            *)
(*                                                                         *)
(* A message is a record with the attributes of the JSON object.           *)
(* Commands, results and measured values are records with the attributes   *)
(* of their classes; durations are numbers of milliseconds; device IDs,    *)
(* prefixes, statuses and the ids of messages stand for themselves.  The   *)
(* values of SensorData, and of its message, are a set: their order, and a *)
(* value that is said twice, tell the receiver nothing.                    *)
(***************************************************************************)
EXTENDS Integers

----------------------------------------------------------------------------
(* Conversions of attributes. *)

\* ModuleID::toString() writes hexadecimal digits: here always two.
ModuleText(module) == <<module \div 16, module % 16>>

\* ModuleID::parse() reads decimal digits, and throws for others.
ModuleTextParses(text) == text[1] < 10 /\ text[2] < 10
ParseModule(text) == 10 * text[1] + text[2]

\* setValue(): the number and its type; setSensorValue() with the module.
RawValue(n) == [raw |-> n, type |-> "double"]
SensorValue(item) == [module_id |-> ModuleText(item.module), raw |-> item.value, type |-> "double"]

\* totalSeconds(), and Timespan::SECONDS times the number (getDuration(), getTimeout()).
Seconds(milliseconds) == milliseconds \div 1000
Milliseconds(seconds) == seconds * 1000

----------------------------------------------------------------------------
(* from*(). *)

fromError(error, text) == [message_type |-> "error", error_code |-> error, error_message |-> text]

fromHelloRequest(prefix) == [message_type |-> "hello_request", device_manager_prefix |-> prefix]

fromHelloResponse(managerID) == [message_type |-> "hello_response", device_manager_id |-> managerID]

\* Faulty fromSensorData: all but the value of the highest module.
fromSensorDataButLast(data) ==
    [message_type |-> "measured_values", device_id |-> data.device,
     values |-> {SensorValue(v) :
                   v \in {w \in data.values : \E x \in data.values : x.module > w.module}}]

fromSensorData(data) ==
    [message_type |-> "measured_values", device_id |-> data.device,
     values |-> {SensorValue(v) : v \in data.values}]

fromGatewayListenCommand(cmd, id) ==
    [message_type |-> "listen_cmd", id |-> id, duration |-> Seconds(cmd.duration)]

fromDeviceSetValueCommand(cmd, id) ==
    [message_type |-> "set_values_cmd", id |-> id, timeout |-> Seconds(cmd.timeout),
     device_id |-> cmd.device,
     values |-> SensorValue(cmd)]

fromDeviceUnpairCommand(cmd, id) ==
    [message_type |-> "device_unpair_cmd", id |-> id, device_id |-> cmd.device]

\* The device managers set the id of the messages of the next two themselves.
fromServerDeviceListCommand(cmd, id) ==
    [message_type |-> "device_list_cmd", id |-> id, device_manager_prefix |-> cmd.prefix]

fromServerLastValueCommand(cmd, id) ==
    [message_type |-> "device_last_value_cmd", id |-> id,
     device_id |-> cmd.device, module_id |-> ModuleText(cmd.module)]

\* By the class of the command; the id is GlobalID::random() or the manager's.
fromCommand(cmd, id) ==
    CASE cmd.name = "GatewayListen" -> fromGatewayListenCommand(cmd, id)
      [] cmd.name = "DeviceSetValue" -> fromDeviceSetValueCommand(cmd, id)
      [] cmd.name = "ServerDeviceList" -> fromServerDeviceListCommand(cmd, id)
      [] cmd.name = "ServerLastValue" -> fromServerLastValueCommand(cmd, id)
      [] cmd.name = "DeviceUnpair" -> fromDeviceUnpairCommand(cmd, id)

fromDefaultResult(result, id) ==
    [message_type |-> "default_result", id |-> id, result_status |-> result.status]

fromServerDeviceListResult(result, id) ==
    [message_type |-> "device_list_result", id |-> id,
     result_status |-> result.status, device_list |-> result.devices]

fromServerLastValueResult(result, id) ==
    [message_type |-> "device_last_value_result", id |-> id,
     result_status |-> result.status, values |-> RawValue(result.value)]

fromDeviceSetValueResult(result, id) ==
    [message_type |-> "set_values_result", id |-> id,
     result_status |-> result.status, extented_set_status |-> result.setStatus]

\* By the class of the result; the broker sets the id of the command's message.
fromResult(result, id) ==
    CASE result.name = "Result" -> fromDefaultResult(result, id)
      [] result.name = "ServerDeviceList" -> fromServerDeviceListResult(result, id)
      [] result.name = "ServerLastValue" -> fromServerLastValueResult(result, id)
      [] result.name = "DeviceSetValue" -> fromDeviceSetValueResult(result, id)
----------------------------------------------------------------------------
(* to*(). *)

\* getModuleID() of every value must not throw.
SensorDataParses(msg) == \A v \in msg.values : ModuleTextParses(v.module_id)

toSensorData(msg) ==
    [device |-> msg.device_id,
     values |-> {[module |-> ParseModule(v.module_id), value |-> v.raw] : v \in msg.values}]

toGatewayListenCommand(msg) ==
    [name |-> "GatewayListen", duration |-> Milliseconds(msg.duration)]

\* Faulty toDeviceSetValueCommand: the module is left at its default.
toSetDefaultModule(msg) ==
    [name |-> "DeviceSetValue", device |-> msg.device_id, module |-> 0,
     value |-> msg.values.raw, timeout |-> Milliseconds(msg.timeout)]

toDeviceSetValueCommand(msg) ==
    [name |-> "DeviceSetValue", device |-> msg.device_id,
     module |-> ParseModule(msg.values.module_id),
     value |-> msg.values.raw, timeout |-> Milliseconds(msg.timeout)]

toDeviceUnpairCommand(msg) == [name |-> "DeviceUnpair", device |-> msg.device_id]

toDeviceListRequest(msg) ==
    [name |-> "ServerDeviceList", prefix |-> msg.device_manager_prefix]

toServerLastValueCommand(msg) ==
    [name |-> "ServerLastValue", device |-> msg.device_id, module |-> ParseModule(msg.module_id)]

\* toDefaultResult() and the others set the status, and what the class adds.
toDefaultResult(msg) == [name |-> "Result", status |-> msg.result_status]

toServerDeviceListResult(msg) ==
    [name |-> "ServerDeviceList", status |-> msg.result_status, devices |-> msg.device_list]

toServerLastValueResult(msg) ==
    [name |-> "ServerLastValue", status |-> msg.result_status, value |-> msg.values.raw]

toDeviceSetValueResult(msg) ==
    [name |-> "DeviceSetValue", status |-> msg.result_status,
     setStatus |-> msg.extented_set_status]

toError(msg) == [name |-> "error", error |-> msg.error_code, text |-> msg.error_message]

toHelloRequest(msg) == [name |-> "hello_request", prefix |-> msg.device_manager_prefix]

toHelloResponse(msg) == [name |-> "hello_response", manager |-> msg.device_manager_id]

----------------------------------------------------------------------------
(* Messages by their type (ZMQMessageType) and the classes they carry. *)

Write(kind, content, id) ==
    CASE kind = "command" -> fromCommand(content, id)
      [] kind = "result" -> fromResult(content, id)
      [] kind = "error" -> fromError(content.error, content.text)
      [] kind = "hello_request" -> fromHelloRequest(content.prefix)
      [] kind = "hello_response" -> fromHelloResponse(content.manager)

\* The to*() for every type.
Read(msg) ==
    CASE msg.message_type = "measured_values" -> toSensorData(msg)
      [] msg.message_type = "listen_cmd" -> toGatewayListenCommand(msg)
      [] msg.message_type = "set_values_cmd" -> toDeviceSetValueCommand(msg)
      [] msg.message_type = "device_unpair_cmd" -> toDeviceUnpairCommand(msg)
      [] msg.message_type = "device_list_cmd" -> toDeviceListRequest(msg)
      [] msg.message_type = "device_last_value_cmd" -> toServerLastValueCommand(msg)
      [] msg.message_type = "default_result" -> toDefaultResult(msg)
      [] msg.message_type = "device_list_result" -> toServerDeviceListResult(msg)
      [] msg.message_type = "device_last_value_result" -> toServerLastValueResult(msg)
      [] msg.message_type = "set_values_result" -> toDeviceSetValueResult(msg)
      [] msg.message_type = "error" -> toError(msg)
      [] msg.message_type = "hello_request" -> toHelloRequest(msg)
      [] msg.message_type = "hello_response" -> toHelloResponse(msg)
=============================================================================
