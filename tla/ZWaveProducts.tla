---------------------------- MODULE ZWaveProducts ----------------------------
(***************************************************************************)
(* The Z-Wave products that the device manager supports: what a product's  *)
(* extractValues() reports from the values of its node, and what its       *)
(* setValue() writes to the node (z-wave/ZWaveMessage, z-wave/products,    *)
(* z-wave/manufacturers).                                                  *)
(*                                                                         *)
(* A text is a record [kind, n]: a "number"; a "bool", "True" for 1 and    *)
(* "False" for 0; a "level", the nth label of the Aeotec's PIR list; or    *)
(* an "other" text.  The numbers are integers.  A value of a node is a     *)
(* record with its id (command class, index), its type, text and unit.     *)
(***************************************************************************)
EXTENDS Integers, Sequences

Text(kind, n) == [kind |-> kind, n |-> n]

\* (command class, index)
Battery == <<128, 0>>
Humidity == <<49, 5>>
Luminance == <<49, 3>>
Temperature == <<49, 1>>
Ultraviolet == <<49, 27>>
SensorBinary == <<48, 0>>
SwitchBinary == <<37, 0>>
Alarm == <<113, 10>>

----------------------------------------------------------------------------
(* ZWaveMessage: the readings.  A reading is the set of at most one text.  *)

IsNumber(text) == text.kind = "number"

\* Where the node has values of this id: isEqual() in every loop.
Matching(id, values) == {i \in DOMAIN values : values[i].id = id}

\* The first of these places, if there are any.
First(places) == {i \in places : \A j \in places : i <= j}

\* The first that can be parsed as such a text; the others are skipped.
FirstOf(id, kind, values) ==
    {values[i] : i \in First({j \in Matching(id, values) : values[j].text.kind = kind})}

\* The text of the first, whatever it is.
getSpecificValue(id, values) == {values[i].text : i \in First(Matching(id, values))}

\* Faulty getTemperature: takes every unit for degrees Celsius.
TemperatureWithoutUnit(values) ==
    {v.text : v \in FirstOf(Temperature, "number", values)}

\* In degrees Celsius.
getTemperature(values) ==
    {Text("number", IF v.unit = "F" THEN ((v.text.n - 32) * 5) \div 9 ELSE v.text.n) :
        v \in FirstOf(Temperature, "number", values)}

\* getSwitchBinary() and getSensorValue(): "1" or "0".
getSwitchBinary(values) ==
    {Text("number", v.text.n) : v \in FirstOf(SwitchBinary, "bool", values)}
getSensorValue(values) ==
    {Text("number", v.text.n) : v \in FirstOf(SensorBinary, "bool", values)}

----------------------------------------------------------------------------
(* ZWaveMessage::setActuator(): the values of the node afterwards.         *)

\* What OpenZWave makes of a text for a value of this type, as it will show
\* it: sendActuatorValue() parses a number, or selects an item of the list;
\* with any other text, or an item that the list has not, the value stays.
\* A number beyond the type is cut off, as the usual conversions do it.
Written(value, text) ==
    CASE value.type = "Bool" /\ IsNumber(text) ->
            Text("bool", IF text.n = 0 THEN 0 ELSE 1)
      [] value.type = "Byte" /\ IsNumber(text) -> Text("number", text.n % 256)
      [] value.type = "Short" /\ IsNumber(text) ->
            Text("number", ((text.n + 32768) % 65536) - 32768)
      [] value.type = "Int" /\ IsNumber(text) -> text
      [] value.type = "List" /\ text.kind = "level" -> text
      [] OTHER -> value.text

\* The first value of this id, when the node has one.
setActuator(id, text, values) ==
    [i \in DOMAIN values |->
        IF i \in First(Matching(id, values))
        THEN [values[i] EXCEPT !.text = Written(values[i], text)]
        ELSE values[i]]

----------------------------------------------------------------------------
(* The products.  A report is a set of records (module, value).            *)

Value(module, n) == [module |-> module, value |-> n]

AeotecReadings(values) == {
    <<2, getSpecificValue(Ultraviolet, values)>>,
    <<3, getSpecificValue(Luminance, values)>>,
    <<4, getTemperature(values)>>,
    <<5, getSpecificValue(Humidity, values)>>,
    \* getPirSensitivity(): the number of the label
    <<6, {Text("number", t.n) : t \in {u \in getSpecificValue(<<112, 4>>, values) : u.kind = "level"}}>>,
    <<7, getSpecificValue(Battery, values)>>,
    <<8, getSpecificValue(<<112, 111>>, values)>> }

\* SHAKE, MOTION and any other state.
AeotecDetection(n) ==
    CASE n = 3 -> {Value(0, 1)}
      [] n = 8 -> {Value(1, 1)}
      [] OTHER -> {Value(0, 0), Value(1, 0)}

AeotecSetting(module, n, values) ==
    CASE module = 6 /\ n \in 0..5 -> setActuator(<<112, 4>>, Text("level", n), values)
      [] module = 8 -> setActuator(<<112, 111>>, Text("number", n), values)
      [] OTHER -> values

\* Faulty DLinkReadings: the two modules after the temperature exchanged.
DLinkReadingsExchanged(values) == {
    <<1, getSpecificValue(Luminance, values)>>,
    <<2, getTemperature(values)>>,
    <<5, getSpecificValue(<<112, 3>>, values)>>,
    <<4, getSpecificValue(Battery, values)>> }

DLinkReadings(values) == {
    <<1, getSpecificValue(Luminance, values)>>,
    <<2, getTemperature(values)>>,
    <<4, getSpecificValue(<<112, 3>>, values)>>,
    <<5, getSpecificValue(Battery, values)>> }

\* ALARM_SAFETY, ALARM_MOTION and any other state.
DLinkDetection(n) ==
    CASE n = 3 -> {Value(3, 1)}
      [] n = 8 -> {Value(0, 1)}
      [] OTHER -> {Value(0, 0), Value(3, 0)}

DLinkSetting(module, n, values) ==
    IF module = 4 THEN setActuator(<<112, 3>>, Text("number", n), values) ELSE values

FibaroReadings(values) == {
    <<0, getSensorValue(values)>>,
    <<1, getSpecificValue(Battery, values)>> }

PhilioReadings(values) == {
    <<2, getSpecificValue(Luminance, values)>>,
    <<1, getTemperature(values)>>,
    <<0, getSensorValue(values)>>,
    <<3, getSpecificValue(Battery, values)>> }

PoppReadings(values) == { <<0, getSwitchBinary(values)>> }

PoppSetting(module, n, values) ==
    IF module = 0 THEN setActuator(SwitchBinary, Text("number", n), values) ELSE values

----------------------------------------------------------------------------
(* GenericZWaveMessageFactory and the manufacturers' factories.            *)

\* registerManufacturer() for each, with the product its create() knows.
Manufacturers ==
    [Aeotec |-> "ZW100", DLink |-> "DchZ120", Fibaro |-> "FGK107",
     Philio |-> "PST021C", Popp |-> "123601"]

\* create() returns a message of the manufacturer's product, or throws.
Supported(manufacturer, product) ==
    manufacturer \in DOMAIN Manufacturers /\ Manufacturers[manufacturer] = product

Readings(manufacturer, values) ==
    CASE manufacturer = "Aeotec" -> AeotecReadings(values)
      [] manufacturer = "DLink" -> DLinkReadings(values)
      [] manufacturer = "Fibaro" -> FibaroReadings(values)
      [] manufacturer = "Philio" -> PhilioReadings(values)
      [] manufacturer = "Popp" -> PoppReadings(values)

\* parseFloat() in extractValues() throws for a reading that is no number.
ExtractionThrows(manufacturer, values) ==
    \E r \in Readings(manufacturer, values) : \E text \in r[2] : ~IsNumber(text)

Detection(manufacturer, n) ==
    CASE manufacturer = "Aeotec" -> AeotecDetection(n)
      [] manufacturer = "DLink" -> DLinkDetection(n)
      [] OTHER -> {}

\* getDetectionSensor(): what every alarm that is a number stands for.
Detections(manufacturer, values) ==
    UNION {Detection(manufacturer, values[i].text.n) :
             i \in {j \in Matching(Alarm, values) : IsNumber(values[j].text)}}

\* The readings that there are, and the detections.
extractValues(manufacturer, values) ==
    (UNION {{Value(r[1], text.n) : text \in r[2]} : r \in Readings(manufacturer, values)})
    \cup Detections(manufacturer, values)

\* setValue() with one value, on the values of the node.
setValue(manufacturer, module, n, values) ==
    CASE manufacturer = "Aeotec" -> AeotecSetting(module, n, values)
      [] manufacturer = "DLink" -> DLinkSetting(module, n, values)
      [] manufacturer = "Popp" -> PoppSetting(module, n, values)
      [] OTHER -> values
=============================================================================
