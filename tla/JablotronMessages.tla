-------------------------- MODULE JablotronMessages --------------------------
(***************************************************************************)
(* The lines of the Jablotron dongle, as JablotronDeviceManager parses     *)
(* them (parseMessageFromDevice()).                                        *)
(*                                                                         *)
(* A line is a record: the serial number; "what" the third token says      *)
(* ("SENSOR", "TAMPER", "SET", ...); its number, of the third token        *)
(* ("RELAY:1", "ARM:0", "SET:22"), or of the last one ("ACT:1"); the       *)
(* number after "LB:".  A line of fewer tokens or of other characters      *)
(* where a number is expected is not "complete".                           *)
(***************************************************************************)
EXTENDS Integers

Value(module, n) == [module |-> module, value |-> n]

\* The ranges of getDeviceType(), with the names of its results.
Ranges == <<
    [first |-> \hCF0000, last |-> \hCFFFFF, type |-> "AC88"],
    [first |-> \h580000, last |-> \h59FFFF, type |-> "JA80L"],
    [first |-> \h240000, last |-> \h25FFFF, type |-> "TP82N"],
    [first |-> \h1C0000, last |-> \h1DFFFF, type |-> "JA83M"],
    [first |-> \h180000, last |-> \h1BFFFF, type |-> "JA81M"],
    [first |-> \h7F0000, last |-> \h7FFFFF, type |-> "JA82SH"],
    [first |-> \h640000, last |-> \h65FFFF, type |-> "JA83P"],
    [first |-> \h760000, last |-> \h76FFFF, type |-> "JA85ST"],
    [first |-> \h800000, last |-> \h97FFFF, type |-> "RC86K"] >>

getDeviceType(serial) ==
    LET of == {i \in DOMAIN Ranges : serial \in Ranges[i].first..Ranges[i].last}
    IN  IF of = {} THEN "unknown" ELSE Ranges[CHOOSE i \in of : TRUE].type

\* UNSET_STATE for 1; for others SET_STATE, or UNKNOWN_STATE when not reversed.
convert(n, reverse) == IF n = 1 THEN 1 ELSE IF reverse THEN 2 ELSE 0

\* LOW_BATTERY or FULL_BATTERY.
getBatteryStatus(n) == IF n # 0 THEN 5 ELSE 100

----------------------------------------------------------------------------
(* What a line of each type says: the set of at most one value.  An empty  *)
(* one is the exception for an unknown attribute.                          *)

\* FIRE_SENSOR, FIRE_SENSOR_ALARM, FIRE_SENSOR_ERROR.
parseMessageFromJA85ST(line) ==
    CASE line.what \in {"SENSOR", "BUTTON"} -> {Value(0, 1)}
      [] line.what = "TAMPER" -> {Value(1, convert(line.n, TRUE))}
      [] line.what = "DEFECT" -> {Value(2, convert(line.n, TRUE))}
      [] OTHER -> {}

\* SENSOR, SENSOR_ALARM.
parseMessageFromJA83P_JA82SH(line) ==
    CASE line.what = "SENSOR" -> {Value(0, 1)}
      [] line.what = "TAMPER" -> {Value(1, convert(line.n, TRUE))}
      [] OTHER -> {}

\* DOOR_CONTACT, DOOR_CONTACT_ALARM.
parseMessageFromJA81M_JA83M(line) ==
    CASE line.what = "SENSOR" -> {Value(0, convert(line.n, TRUE))}
      [] line.what = "TAMPER" -> {Value(1, convert(line.n, TRUE))}
      [] OTHER -> {}

\* REMOTE_CONTROL_ALARM, REMOTE_CONTROL.
parseMessageFromRC86K(line) ==
    IF line.what = "PANIC" THEN {Value(1, 1)} ELSE {Value(0, convert(line.n, TRUE))}

\* REQUESTD_ROOM_TEMPERATURE, CURRENT_ROOM_TEMPERATURE.
parseMessageFromTP82N(line) == {Value(IF line.what = "SET" THEN 1 ELSE 0, line.n)}

Reading(line) ==
    LET type == getDeviceType(line.serial)
    IN  CASE type \in {"JA81M", "JA83M"} -> parseMessageFromJA81M_JA83M(line)
          [] type \in {"JA83P", "JA82SH"} -> parseMessageFromJA83P_JA82SH(line)
          [] type = "JA85ST" -> parseMessageFromJA85ST(line)
          [] type = "RC86K" -> parseMessageFromRC86K(line)
          [] type = "TP82N" -> parseMessageFromTP82N(line)
          [] OTHER -> {}

\* BATTERY_STATE of the type.
BatteryModule(type) == IF type = "JA85ST" THEN 3 ELSE 2

\* The values of a line; none when parsing throws.
parseMessageFromDevice(line) ==
    LET type == getDeviceType(line.serial)
    IN  CASE ~line.complete -> {}
          [] line.complete /\ type = "AC88" -> {Value(0, convert(line.n, FALSE))}
          [] line.complete /\ type # "AC88" ->
                IF Reading(line) = {} THEN {}
                ELSE {Value(BatteryModule(type), getBatteryStatus(line.battery))}
                     \cup Reading(line)

\* Lines that set m_sensorEvent, to be switched off again.
SetsEvent(line) ==
    /\ parseMessageFromDevice(line) # {}
    /\ \/ line.what = "SENSOR" /\ getDeviceType(line.serial) \in {"JA85ST", "JA83P", "JA82SH"}
       \/ line.what = "PANIC" /\ getDeviceType(line.serial) = "RC86K"
=============================================================================
