---------------------------- MODULE MCValueRelay ----------------------------
(***************************************************************************)
(* ValueRelay for TLC: nodes of every product, some with sensors of which  *)
(* they have two, an outlet of Jablotron, a line of every type of sensor.  *)
(***************************************************************************)
EXTENDS ValueRelay

ZWaveValue(id, type, n, unit) ==
    [id |-> id, type |-> type, unit |-> unit,
     text |-> Text(IF type = "Bool" THEN "bool" ELSE IF type = "List" THEN "level" ELSE "number", n)]

Sensor(id, unit) == ZWaveValue(id, IF id = SensorBinary THEN "Bool" ELSE "Decimal", 0, unit)

Node(manufacturer, values) == [manufacturer |-> manufacturer, values |-> values]

MCDevices == {
    Node("Aeotec", <<Sensor(Temperature, "F"), Sensor(Alarm, ""),
                     ZWaveValue(<<112, 4>>, "List", 2, ""), ZWaveValue(<<112, 111>>, "Short", 60, "")>>),
    Node("Aeotec", <<Sensor(Ultraviolet, ""), Sensor(Luminance, ""), Sensor(Humidity, ""),
                     ZWaveValue(<<112, 111>>, "Short", 60, ""), ZWaveValue(<<112, 4>>, "List", 2, "")>>),
    Node("DLink", <<Sensor(Battery, "%"), ZWaveValue(<<112, 3>>, "Byte", 0, ""),
                    Sensor(Temperature, "C"), Sensor(Alarm, "")>>),
    Node("DLink", <<ZWaveValue(<<112, 3>>, "Byte", 0, ""), Sensor(Luminance, ""),
                    Sensor(Temperature, "F"), Sensor(Temperature, "C")>>),
    Node("Fibaro", <<Sensor(SensorBinary, ""), Sensor(SensorBinary, ""), Sensor(Battery, "%")>>),
    Node("Philio", <<Sensor(Battery, "%"), Sensor(SensorBinary, ""), Sensor(Temperature, "F")>>),
    Node("Popp", <<ZWaveValue(SwitchBinary, "Bool", 0, ""), ZWaveValue(<<37, 1>>, "Bool", 0, "")>>),
    [manufacturer |-> "Jablotron", serial |-> \hCF0001, relay |-> 0] }

MCTexts ==
    {<<id, Text("number", 41)>> : id \in {Temperature, Luminance, Battery}}
    \cup {<<id, Text("other", 0)>> : id \in {Temperature, Humidity, SensorBinary}}
    \cup {<<Alarm, Text("number", n)>> : n \in {3, 8}}
    \cup {<<SensorBinary, Text("bool", 1)>>, <<SensorBinary, Text("bool", 0)>>}

MCSettings ==
    {<<0, 0>>, <<0, 1>>, <<4, 3>>, <<4, 300>>, <<6, 5>>, <<6, 9>>, <<8, 240>>}

Line(serial, what, n) ==
    [serial |-> serial, what |-> what, n |-> n, battery |-> n, complete |-> TRUE]

MCLines ==
    {Line(\hCF0001, "RELAY", n) : n \in 0..1} \cup {
    Line(\h1C0000, "SENSOR", 0), Line(\h1BFFFF, "TAMPER", 1), Line(\h7F0000, "SENSOR", 0),
    Line(\h65FFFF, "TAMPER", 1), Line(\h760000, "DEFECT", 0), Line(\h76FFFF, "BUTTON", 1),
    Line(\h800000, "PANIC", 0), Line(\h97FFFF, "ARM", 1), Line(\h240000, "SET", 22),
    Line(\h25FFFF, "INT", 22), Line(\h580000, "SENSOR", 1),
    [Line(\h1C0000, "SENSOR", 0) EXCEPT !.complete = FALSE] }

Other(to, kind, content) == [to |-> to, kind |-> kind, content |-> content]

MCOthers == {
    Other("manager", "command", [name |-> "GatewayListen", duration |-> 2500]),
    Other("manager", "command", [name |-> "DeviceUnpair", device |-> "Popp"]),
    Other("broker", "command", [name |-> "ServerDeviceList", prefix |-> "zwave"]),
    Other("broker", "command", [name |-> "ServerLastValue", device |-> "Aeotec", module |-> 8]),
    Other("broker", "result", [name |-> "Result", status |-> "SUCCESS"]),
    Other("manager", "result", [name |-> "ServerDeviceList", status |-> "SUCCESS", devices |-> <<"Popp", "DLink">>]),
    Other("manager", "result", [name |-> "ServerLastValue", status |-> "FAILED", value |-> 3]),
    Other("manager", "result", [name |-> "DeviceSetValue", status |-> "SUCCESS", setStatus |-> "DONE"]),
    Other("broker", "hello_request", [name |-> "hello_request", prefix |-> "jablotron"]),
    Other("manager", "hello_response", [name |-> "hello_response", manager |-> 513]),
    Other("manager", "error", [name |-> "error", error |-> 2, text |-> "json syntax"]) }
=============================================================================
