--------------------------- MODULE JablotronManager ---------------------------
(***************************************************************************)
(* The Jablotron device manager (jablotron/JablotronDeviceManager): the    *)
(* thread of run(), which reads the dongle's serial line (SerialControl),  *)
(* the ZMQClient's thread, which calls onEvent(), and the thread of a      *)
(* Poco::Timer.  Two threads set the outlets of Jablotron.                 *)
(*                                                                         *)
(* The dongle is external: it knows devices by its slots, in their order,  *)
(* and drives with PGX the first outlet (AC-88) of the slots, with PGY the *)
(* second.  Its lines OK and ERROR, which readFromSerial() skips, are left *)
(* out.  What a line says is modelled in JablotronMessages; the requests   *)
(* of the manager and their Answers in DeviceRequests.                     *)
(***************************************************************************)
EXTENDS Integers, Sequences

CONSTANTS
    Slots,          \* the devices in the dongle's slots
    Outlets,        \* those that are an AC-88; the others' lines set an event
    States,         \* of an outlet
    Repeats,        \* MAX_NUMBER_FAILED_REPEATS
    Retries,        \* NUMBER_OF_RETRIES
    Lists,          \* of devices that the server may send
    MaxLines, MaxSets, MaxListens, MaxUnpairs, MaxUnplugs, MaxGarbled,  \* bounds
    None

Devices == {Slots[i] : i \in DOMAIN Slots}

\* A device has one slot, and the dongle has two outputs.
ASSUME SlotsAssumption ==
    /\ Slots \in Seq(Devices) /\ Outlets \subseteq Devices
    /\ \A i, j \in DOMAIN Slots : Slots[i] = Slots[j] => i = j
    /\ \A i, j, k \in DOMAIN Slots :
            i < j /\ j < k => ~({Slots[i], Slots[j], Slots[k]} \subseteq Outlets)
ASSUME RepeatsAssumption == Repeats \in Nat \ {0} /\ Retries \in Nat \ {0}
ASSUME NoneAssumption == None \notin Devices \cup States

Threads == {"main", "client"}

VARIABLES
    main,           \* progress of run()
    slot,           \* of loadRegDevices()
    client,         \* the ZMQClient's thread
    job,            \* setSwitch() of each thread
    pgx, pgy,
    registered,     \* m_devices
    loaded,         \* loadDevices of run()
    fd,             \* m_serialFd: closed, open, or stale, of a dongle that was unplugged
    plugged,        \* the dongle is there
    outputs,        \* what the dongle was last sent for PGX and PGY
    wanted,         \* history: what each outlet was last set to
    stale,          \* history: the outputs may be others than pgx and pgy
    mixed,          \* history: threads whose setSwitch() has met the other's
    misplaced,      \* history: outlets that may be in the wrong one of pgx and pgy
    misread,        \* history: a slot was read as another or missed
    serial,         \* lines that the dongle has sent
    replies,        \* its late replies to requests for a slot
    buffer,         \* m_buffer
    line,           \* the line that readFromSerial() has returned
    emitted,        \* history: number of lines
    handled,        \* history: the lines that readFromSerial() has returned
    swallowed,      \* history: lines lost in loadRegDevices(), by sopen() or unplugged
    event,          \* m_sensorEvent
    devices,        \* m_devicesWithFlag
    listen,         \* m_listen
    listenTimer,    \* m_deferAfter
    requested,      \* device lists requested
    asked,          \* outlets whose last value is requested
    answers,        \* answered, in m_queue
    dirty,          \* taken by checkQueue()
    count           \* of what the bounds are for

switchVars == <<job, pgx, pgy, outputs, wanted, stale, mixed, misplaced>>
lineVars == <<serial, replies, buffer, line, emitted, handled, swallowed, event>>
loadVars == <<slot, registered, loaded, misread>>
portVars == <<fd, plugged>>
requestVars == <<requested, asked, answers>>
listenVars == <<listen, listenTimer>>
vars == <<main, client, switchVars, lineVars, loadVars, portVars, requestVars, listenVars,
          dirty, devices, count>>

NoJob == [phase |-> "none"]

Init ==
    /\ main = "start" /\ client = "off"
    /\ slot = 1 /\ registered = <<>> /\ loaded = FALSE
    /\ job = [t \in Threads |-> NoJob]
    /\ pgx = 0 /\ pgy = 0
    /\ fd = "closed" /\ plugged \in BOOLEAN
    /\ outputs = <<0, 0>>
    /\ wanted = [o \in Outlets |-> None]
    /\ stale = FALSE /\ mixed = {} /\ misplaced = {} /\ misread = FALSE
    /\ serial = <<>> /\ replies = <<>> /\ buffer = <<>> /\ line = None
    /\ emitted = 0 /\ handled = <<>> /\ swallowed = {}
    /\ event = FALSE
    /\ devices = {} /\ listen = FALSE /\ listenTimer = "new"
    /\ requested = 0 /\ asked = {} /\ answers = <<>> /\ dirty = <<>>
    /\ count = [sets |-> 0, listens |-> 0, unpairs |-> 0, unplugs |-> 0,
                garbled |-> 0]

Goto(label) == main' = label

----------------------------------------------------------------------------
(* setSwitch(), by either thread. *)

\* The dongle's second outlet.
IsSecond(outlet) ==
    \E i, j \in DOMAIN Slots : i < j /\ Slots[i] \in Outlets /\ Slots[j] = outlet

\* m_devices has the second outlet only after the first.
InSlotOrder ==
    \A i \in DOMAIN registered :
        registered[i] \in Outlets /\ IsSecond(registered[i]) =>
            \E j \in 1..(i - 1) : registered[j] \in Outlets /\ ~IsSecond(registered[j])

\* Faulty FirstOutlet: the loop goes on after the first.
LastOutlet(sequence) ==
    LET last == {i \in DOMAIN sequence :
                    /\ sequence[i] \in Outlets
                    /\ \A j \in (i + 1)..Len(sequence) : sequence[j] \notin Outlets}
    IN  IF last = {} THEN None ELSE sequence[CHOOSE i \in last : TRUE]

FirstOutlet(sequence) ==
    LET found == {i \in DOMAIN sequence :
                    /\ sequence[i] \in Outlets
                    /\ \A j \in 1..(i - 1) : sequence[j] \notin Outlets}
    IN  IF found = {} THEN None ELSE sequence[CHOOSE i \in found : TRUE]

\* The first AC-88 of m_devices goes with pgx, every other device with pgy.
BeginSwitch(t, outlet, state) ==
    /\ job[t] = NoJob
    /\ IF FirstOutlet(registered) = outlet
       THEN pgx' = state /\ UNCHANGED pgy
       ELSE pgy' = state /\ UNCHANGED pgx
    /\ job' = [job EXCEPT ![t] = [phase |-> "format"]]
    /\ wanted' = [wanted EXCEPT ![outlet] = state]
    /\ mixed' = IF \A u \in Threads : job[u] = NoJob THEN mixed \ {t} ELSE Threads
    /\ misplaced' = IF FirstOutlet(registered) # None /\ (misread => InSlotOrder)
                    THEN misplaced \ {outlet}
                    ELSE Outlets
    /\ UNCHANGED <<outputs, stale>>

\* setString, of the state at this time.
Format(t) ==
    /\ job[t].phase = "format"
    /\ job' = [job EXCEPT ![t] =
            [phase |-> "write", pair |-> <<pgx, pgy>>, written |-> 0, failed |-> 0]]
    /\ UNCHANGED <<main, client, pgx, pgy, outputs, wanted, stale, mixed, misplaced, lineVars, loadVars, portVars,
                   requestVars, listenVars, dirty, devices, count>>

\* retransmissionPacket(): ssend() returns true when write() fails; it is
\* written Repeats times, or until write() has failed Retries times.
Transmit(t) ==
    /\ job[t].phase = "write"
    /\ job[t].written < Repeats /\ job[t].failed < Retries
    /\ IF fd = "open"
       THEN /\ outputs' = job[t].pair
            /\ job' = [job EXCEPT ![t].written = @ + 1]
       ELSE /\ job' = [job EXCEPT ![t].failed = @ + 1]
            /\ UNCHANGED outputs
    /\ UNCHANGED <<main, client, pgx, pgy, wanted, stale, mixed, misplaced, lineVars, loadVars,
                   portVars, requestVars, listenVars, dirty, devices, count>>

EndSwitch(t) ==
    /\ job[t].phase = "write"
    /\ job[t].written = Repeats \/ job[t].failed = Retries
    /\ job' = [job EXCEPT ![t] = NoJob]
    /\ stale' = (t \in mixed \/ job[t].written = 0)
    /\ UNCHANGED <<main, client, pgx, pgy, outputs, wanted, mixed, misplaced, lineVars, loadVars, portVars,
                   requestVars, listenVars, dirty, devices, count>>

----------------------------------------------------------------------------
(* run(). *)

\* initJablotronSerial(), runClient(); the client's thread starts.
Start ==
    /\ main = "start"
    /\ Goto("started")
    /\ client' = "up"
    /\ UNCHANGED <<switchVars, lineVars, loadVars, portVars, requestVars, listenVars, dirty,
                   devices, count>>

\* getDeviceList().
Request ==
    /\ devices' = {}
    /\ requested' = requested + 1
    /\ UNCHANGED <<asked, answers>>

FirstRequest ==
    /\ main = "started"
    /\ Goto("loop")
    /\ Request
    /\ UNCHANGED <<client, switchVars, lineVars, loadVars, portVars, listenVars, dirty,
                   count>>

\* checkQueue() takes the dirty Answers.
CheckQueue ==
    /\ main = "loop"
    /\ Goto("check")
    /\ dirty' = answers
    /\ answers' = <<>>
    /\ UNCHANGED <<client, switchVars, lineVars, loadVars, portVars, requested, asked, listenVars,
                   devices, count>>

\* A device list replaces m_devicesWithFlag; a last value sets the switch; one
\* without success ends checkQueue(), and the Answers after it are lost.
TakeAnswer ==
    /\ main = "check" /\ dirty # <<>> /\ job["main"] = NoJob
    /\ LET answer == dirty[1]
       IN  CASE answer.type = "list" ->
                    /\ devices' = answer.devices /\ dirty' = Tail(dirty)
                    /\ UNCHANGED switchVars
             [] answer.type = "value" ->
                    /\ BeginSwitch("main", answer.outlet, answer.state) /\ dirty' = Tail(dirty)
                    /\ UNCHANGED devices
             [] answer.type = "failed" ->
                    dirty' = <<>> /\ UNCHANGED <<devices, switchVars>>
    /\ UNCHANGED <<main, client, lineVars, loadVars, portVars, requestVars, listenVars,
                   count>>

\* Without a device, nothing is loaded or read.
EndCheck ==
    /\ main = "check" /\ dirty = <<>> /\ job["main"] = NoJob
    /\ Goto(IF devices = {} THEN "loop" ELSE "open")
    /\ UNCHANGED <<client, switchVars, lineVars, loadVars, portVars, requestVars, listenVars,
                   dirty, devices, count>>

\* What has come is lost.
Discard ==
    /\ serial' = <<>>
    /\ replies' = <<>>
    /\ swallowed' = swallowed \cup {serial[i].n : i \in DOMAIN serial}

\* sopen() flushes what has come before.
SOpen ==
    IF plugged THEN fd' = "open" /\ Discard
               ELSE UNCHANGED <<fd, serial, replies, swallowed>>

\* loadJablotronDevices(): opens the line if need be; without, sleeps.
Open ==
    /\ main = "open"
    /\ IF fd = "closed" THEN SOpen ELSE UNCHANGED <<fd, serial, replies, swallowed>>
    /\ loaded' = (loaded /\ fd' # "closed")
    /\ slot' = 1
    /\ Goto(IF fd' = "closed" THEN "loop" ELSE IF loaded THEN "read" ELSE "slots")
    /\ UNCHANGED <<client, switchVars, buffer, line, emitted, handled, event, registered, misread,
                   plugged, requestVars, listenVars, dirty, devices, count>>

\* sread() without data: it opens the line, or closes it after a failed read().
ReadNothing ==
    /\ fd # "open"
    /\ IF fd = "closed" THEN SOpen
       ELSE fd' = "closed" /\ UNCHANGED <<serial, replies, swallowed>>

\* A sequence without its first n elements.
After(sequence, n) == SubSeq(sequence, n + 1, Len(sequence))

\* sread() takes the first `gone` elements off the line, one of them in part.
Reads(sequence) ==
    {read \in [whole : 0..Len(sequence), gone : 0..Len(sequence)] :
        read.gone \in {read.whole, read.whole + 1}}

\* loadRegDevices(): the dongle is asked for a slot and replies with `own`;
\* sread() returns 64 bytes of what comes within 20 ms, maybe without the reply,
\* maybe with a line or a late reply before it.  The first serial number in it,
\* if any, is registered.
ReadSlot(own) ==
    LET expected == replies \o own
    IN  \E r \in Reads(expected), l \in Reads(serial) :
            LET found == {expected[i] : i \in {1} \cap 1..r.whole}
                            \cup {serial[i].device : i \in {1} \cap 1..l.whole}
            IN  /\ \/ found = {} /\ registered' = registered
                   \/ \E d \in found : registered' = Append(registered, d)
                /\ replies' = After(expected, r.gone)
                /\ serial' = After(serial, l.gone)
                /\ swallowed' = swallowed \cup {serial[i].n : i \in 1..l.gone}
                /\ misread' = (misread \/ registered' # registered \o own)

\* (A request that could not be written has no reply.)
LoadSlot ==
    /\ main = "slots" /\ slot \in DOMAIN Slots
    /\ slot' = slot + 1
    /\ \/ fd = "open" /\ ReadSlot(<<Slots[slot]>>) /\ UNCHANGED fd
       \/ ReadNothing /\ misread' = TRUE /\ UNCHANGED registered
    /\ UNCHANGED <<main, client, switchVars, buffer, line, emitted, handled, event, loaded,
                   plugged, requestVars, listenVars, dirty, devices, count>>

\* The reply for an empty slot has no serial number.
LoadEmptySlot ==
    /\ main = "slots"
    /\ \/ fd = "open" /\ ReadSlot(<<>>) /\ UNCHANGED fd
       \/ ReadNothing /\ UNCHANGED <<registered, misread>>
    /\ UNCHANGED <<main, client, switchVars, buffer, line, emitted, handled, event, slot, loaded,
                   plugged, requestVars, listenVars, dirty, devices, count>>

\* A garbled serial number, of more than 32 bits, ends loadRegDevices(); what
\* m_devices has so far stays there, what was read with the number is lost.
FailLoad ==
    /\ main = "slots" /\ fd = "open"
    /\ count.garbled < MaxGarbled
    /\ count' = [count EXCEPT !.garbled = @ + 1]
    /\ \E g \in 0..Len(serial) :
            /\ serial' = After(serial, g)
            /\ swallowed' = swallowed \cup {serial[i].n : i \in 1..g}
    /\ replies' \in {<<>>, replies}
    /\ Goto("loop")
    /\ UNCHANGED <<client, switchVars, buffer, line, emitted, handled, event, loadVars,
                   portVars, requestVars, listenVars, dirty, devices>>

\* After the slots: getLastValue() of the outlets.  Replies that are still to
\* come are lines of two words, which run() skips.
EndLoad ==
    /\ main = "slots" /\ slot > Len(Slots)
    /\ loaded' = TRUE
    /\ asked' = asked \cup (devices \cap Outlets)
    /\ replies' = <<>>
    /\ Goto("read")
    /\ UNCHANGED <<client, switchVars, serial, buffer, line, emitted, handled, swallowed, event,
                   slot, registered, misread, portVars, requested, answers, listenVars, dirty,
                   devices, count>>

\* readFromSerial(): the 64 bytes that sread() returns go to m_buffer.  A line
\* that is read in parts is there with the last of them.
Receive ==
    /\ main = "read"
    /\ \/ /\ fd = "open"
          /\ \E k \in 0..Len(serial) :
                /\ buffer' = buffer \o SubSeq(serial, 1, k)
                /\ serial' = After(serial, k)
          /\ UNCHANGED <<fd, replies, swallowed>>
       \/ ReadNothing /\ UNCHANGED buffer
    /\ Goto("line")
    /\ UNCHANGED <<client, switchVars, line, emitted, handled, event, loadVars, plugged, requestVars,
                   listenVars, dirty, devices, count>>

\* Faulty TakeLine: what is left in the buffer is cleared with the line.
TakeLineAndClear ==
    /\ main = "line"
    /\ buffer' = <<>>
    /\ IF buffer = <<>>
       THEN Goto("loop") /\ UNCHANGED <<line, handled>>
       ELSE line' = buffer[1] /\ handled' = Append(handled, buffer[1].n) /\ Goto("send")
    /\ UNCHANGED <<client, switchVars, serial, replies, emitted, swallowed, event, loadVars, portVars,
                   requestVars, listenVars, dirty, devices, count>>

\* The first line of m_buffer is taken.
TakeLine ==
    /\ main = "line"
    /\ IF buffer = <<>>
       THEN Goto("loop") /\ UNCHANGED <<buffer, line, handled>>
       ELSE /\ buffer' = Tail(buffer)
            /\ line' = buffer[1]
            /\ handled' = Append(handled, buffer[1].n)
            /\ Goto("send")
    /\ UNCHANGED <<client, switchVars, serial, replies, emitted, swallowed, event, loadVars, portVars,
                   requestVars, listenVars, dirty, devices, count>>

\* sendMeasuredValues(): a line that cannot be parsed is skipped.  Parsing sets
\* m_sensorEvent even if the line is dropped then; with it, a second message is
\* sent, whichever device the line is from.
Send ==
    /\ main = "send"
    /\ LET sets == line.device \notin Outlets
           sends == line.device \in devices \/ listen
       IN  event' \in {event, ~sends /\ (event \/ sets)}
    /\ line' = None
    /\ Goto("loop")
    /\ UNCHANGED <<client, switchVars, serial, replies, buffer, emitted, handled, swallowed, loadVars,
                   portVars, requestVars, listenVars, dirty, devices, count>>

----------------------------------------------------------------------------
(* onEvent(), in the client's thread, and the timer's. *)

ClientIdle == client = "up" /\ job["client"] = NoJob

\* doSetValuesCommand().
SetValuesCommand(outlet, state) ==
    /\ ClientIdle /\ count.sets < MaxSets
    /\ count' = [count EXCEPT !.sets = @ + 1]
    /\ BeginSwitch("client", outlet, state)
    /\ UNCHANGED <<main, client, lineVars, loadVars, portVars, requestVars, listenVars, dirty,
                   devices>>

\* doDeviceUnpairCommand().
UnpairCommand(d) ==
    /\ ClientIdle /\ count.unpairs < MaxUnpairs
    /\ count' = [count EXCEPT !.unpairs = @ + 1]
    /\ devices' = devices \ {d}
    /\ UNCHANGED <<main, client, switchVars, lineVars, loadVars, portVars, requestVars, listenVars,
                   dirty>>

\* doListenCommand(): a second start of the timer throws.
ListenCommand ==
    /\ ClientIdle /\ count.listens < MaxListens
    /\ count' = [count EXCEPT !.listens = @ + 1]
    /\ listen' = TRUE
    /\ IF listenTimer = "new" THEN listenTimer' = "running" /\ UNCHANGED client
                              ELSE client' = "dead" /\ UNCHANGED listenTimer
    /\ UNCHANGED <<main, switchVars, lineVars, loadVars, portVars, requestVars, dirty, devices>>

\* doTypeDeviceListResult().
ListResult ==
    /\ ClientIdle /\ requested > 0
    /\ requested' = requested - 1
    /\ \E list \in Lists : answers' = Append(answers, [type |-> "list", devices |-> list])
    /\ UNCHANGED <<main, client, switchVars, lineVars, loadVars, portVars, asked, listenVars,
                   dirty, devices, count>>

\* doDeviceLastValueResult().
ValueResult(outlet) ==
    /\ ClientIdle /\ outlet \in asked
    /\ asked' = asked \ {outlet}
    /\ \E answer \in {[type |-> "failed"]}
                \cup {[type |-> "value", outlet |-> outlet, state |-> s] : s \in States} :
            answers' = Append(answers, answer)
    /\ UNCHANGED <<main, client, switchVars, lineVars, loadVars, portVars, requested, listenVars,
                   dirty, devices, count>>

\* Faulty StopListen: m_listen stays set.
KeepListening ==
    /\ listenTimer = "running"
    /\ listenTimer' = "fired"
    /\ Request
    /\ UNCHANGED <<main, client, switchVars, lineVars, loadVars, portVars, listen, dirty,
                   count>>

\* stopListen(), in the timer's thread.
StopListen ==
    /\ listenTimer = "running"
    /\ listenTimer' = "fired"
    /\ listen' = FALSE
    /\ Request
    /\ UNCHANGED <<main, client, switchVars, lineVars, loadVars, portVars, dirty, count>>

----------------------------------------------------------------------------
(* The dongle. *)

Emit(d) ==
    /\ plugged /\ emitted < MaxLines
    /\ emitted' = emitted + 1
    /\ serial' = Append(serial, [n |-> emitted + 1, device |-> d])
    /\ UNCHANGED <<main, client, switchVars, replies, buffer, line, handled, swallowed, event, loadVars,
                   portVars, requestVars, listenVars, dirty, devices, count>>

Unplug ==
    /\ plugged /\ count.unplugs < MaxUnplugs
    /\ count' = [count EXCEPT !.unplugs = @ + 1]
    /\ plugged' = FALSE
    /\ fd' = IF fd = "open" THEN "stale" ELSE fd
    /\ Discard
    /\ UNCHANGED <<main, client, switchVars, buffer, line, emitted, handled, event, loadVars,
                   requestVars, listenVars, dirty, devices>>

Plug ==
    /\ ~plugged
    /\ plugged' = TRUE
    /\ UNCHANGED <<main, client, switchVars, lineVars, loadVars, fd, requestVars, listenVars,
                   dirty, devices, count>>

----------------------------------------------------------------------------

Main ==
    \/ Start \/ FirstRequest \/ CheckQueue \/ TakeAnswer \/ EndCheck
    \/ Open \/ LoadSlot \/ LoadEmptySlot \/ FailLoad \/ EndLoad \/ Receive \/ TakeLine \/ Send

Switch(t) == Format(t) \/ Transmit(t) \/ EndSwitch(t)

Next ==
    \/ Main
    \/ \E t \in Threads : Switch(t)
    \/ \E o \in Outlets, s \in States : SetValuesCommand(o, s)
    \/ \E d \in Devices : UnpairCommand(d) \/ Emit(d)
    \/ ListenCommand \/ ListResult \/ StopListen
    \/ \E o \in Outlets : ValueResult(o)
    \/ Unplug \/ Plug

\* The threads go on, and the timer fires.
Spec ==
    /\ Init /\ [][Next]_vars
    /\ WF_vars(Main) /\ \A t \in Threads : WF_vars(Switch(t))
    /\ WF_vars(StopListen)

----------------------------------------------------------------------------
(* Properties. *)

\* The output of an outlet, as the dongle numbers them.
Output(outlet) == IF IsSecond(outlet) THEN outputs[2] ELSE outputs[1]

\* When setSwitch() has run alone and reached the dongle, every outlet is what
\* it was last set to, whichever thread set it, whatever two threads setting
\* switches at once have written before (stale), and however often the slots were
\* read again (JablotronDeviceManager.cpp:302-339 and 565-601).  Outlets that
\* were last set before any was loaded, or while a missed or misread slot had put
\* the second before the first, are excused until they are set again
\* (misplaced): the manager then drives the other output.
OutletsAreSet ==
    ~stale /\ (\A t \in Threads : job[t] = NoJob) =>
        \A o \in Outlets \ misplaced : wanted[o] = None \/ Output(o) = wanted[o]

\* The numbers of the lines returned, in m_buffer and on the serial line.
Numbers(lines) == [i \in DOMAIN lines |-> lines[i].n]
Lines == handled \o Numbers(buffer) \o Numbers(serial)

\* Every line is returned once and in order, but for those that come before the
\* line is opened, while the slots are read, or before the dongle is unplugged
\* (JablotronDeviceManager.cpp:302-358, SerialControl.cpp:37-118).
LinesStayInOrder ==
    /\ {Lines[i] : i \in DOMAIN Lines} = (1..emitted) \ swallowed
    /\ \A i, j \in DOMAIN Lines : i < j => Lines[i] < Lines[j]

\* Listening ends, unless a second listen command comes after the timer has
\* fired: it sets m_listen, fails to start the timer again, and ends the client's
\* thread (JablotronDeviceManager.cpp:192-198 and 635-647).
ListenEnds == listen ~> \/ ~listen
                        \/ client = "dead" /\ count.listens > 1 /\ listenTimer = "fired"
=============================================================================
