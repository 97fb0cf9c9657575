# A TLA+ model of the BeeeOn gateway

This directory specifies the gateway in `src/` (C++, Poco, ZeroMQ, OpenZWave):
TLA+ modules, TLC configurations that check them on small instances, and
theorems that the TLA+ proof system proves for all instances. `PROJECT.json`
lists the parts, the runs, the correspondence of every definition with the
source, the hazards and the theorems.

File names below are relative to `src/src/`.

## 1. The system

A gateway is a set of objects that `main.cpp` creates from a configuration. One
process holds the broker with the server's side, every kind of device has a
device manager, usually a process of its own.

    virtual sensors --+                      +-- JablotronDeviceManager -- dongle
                      v                      |      (ZMQClient)
    named pipe <- distributor <- ZMQBroker <-+
                                 |     ^     |
                  CommandDispatcher    |     +-- ZWaveDeviceManager -- OpenZWave
                      |                |            (ZMQClient)
                  handlers (the server's stand-in, the broker itself)

| Part | State | Operations | Threads |
| --- | --- | --- | --- |
| Answers (`core/Answer`, `core/Result`, `core/AnswerQueue`) | dirty flags, statuses, the list of Answers, an auto-reset event, a lock per Answer and one per queue | construct, remove, set a status, notify, wait | any thread updates, the owner of the queue waits |
| Commands (`core/CommandDispatcher`, `core/CommandRunner`) | commands and Results of every Answer, the thread pool | `dispatch()`, `handle()` of every handler that accepts | the caller; a pool thread per handler |
| Registration (`zmq/ZMQClient`, `zmq/ZMQBroker`, `zmq/ZMQDeviceManagerTable`) | the table of identities, the identity of every client, the hello sockets | hello request and response, restart | a thread per client, the broker's |
| Commands through the broker (`zmq/ZMQBroker`) | `m_cmdTable`, `m_settingTable`, the data socket | `accept()`, `handle()`, `doDefaultResult()`, `checkSettingTable()` | pool threads, the broker's, a timer |
| Requests of device managers (`jablotron/`, `z-wave/`, `zmq/FakeHandlerTest`) | `m_table`, known devices, the broker's `m_resultTable` | request a device list or a last value, serve it, collect the response | main thread, listen timer, client thread; the broker's, pool threads |
| Export (`core/BasicDistributor`, `exporters/NamedPipeExporter`) | the pipe, a descriptor | `exportData()`, `ship()` | sensors, the broker's |
| Jablotron manager (`jablotron/JablotronDeviceManager`, `jablotron/SerialControl`) | serial line, read buffer, the dongle's slots, the states of two outlets, listen mode | read, parse, send, switch, load the slots, reopen | main thread, client thread, timer |
| Z-Wave manager (`z-wave/ZWaveDeviceManager`, `z-wave/NotificationProcessor`) | map of nodes, start-up, listen mode, the controller's command | notifications, commands, start, stop | OpenZWave's thread, main thread, client thread, two timers |
| Messages and products (`zmq/ZMQMessage`, `z-wave/ZWaveMessage`, `z-wave/products/`, the Jablotron parser) | none | conversions | any |

What is hard, and which property is about it:

- *Answers*: a wake-up lost between the scan and the wait; a flag cleared before
  the Result is read; one event for many Answers (`NoLostUpdate`, `NoStaleView`,
  `ImplementsMailbox`).
- *Commands*: an Answer that looks complete while its handlers still run, one that
  nobody hears about, a pool without a free thread, locks held over the start of
  tasks (`NoFalseCompletion`, `CompletionIsAnnounced`, `CompletionIsFinal`,
  `EveryCommandEnds`).
- *Registration*: restarts on both sides, requests of a client that is gone,
  8-bit idents that wrap, a full table (`ImplementsLease`, `RegisteredOnce`,
  `EveryRequestIsAnswered`).
- *Commands through the broker*: two frames per message on one socket used by
  several threads; replies in any order; a timer over unfinished Results
  (`RepliesAreKnown`, `ResultsAreGenuine`, `ImplementsBoard`,
  `RepliesArriveAtResults`).
- *Requests*: a response faster than the bookkeeping on either side, double
  notifications, a status visible before its data, a handler that cannot be
  started (`DirtyIsRecorded`, `OneResponse`, `ImplementsQueries`,
  `RequestsAreAnswered`).
- *Export*: concurrent records, partial writes, a pipe that is replaced or full,
  descriptors on every way out (`RecordsStayTogether`, `ImplementsLog`,
  `DescriptorIsReleased`, `EveryExportEnds`).
- *Jablotron*: two outlets driven by one message from two threads, with a mapping
  that depends on slots read again after every unplugging, of which any may be
  missed or misread; lines that come while the slots are read (`OutletsAreSet`, `LinesStayInOrder`, `ListenEnds`).
- *Z-Wave*: notifications from another thread against commands, timers and
  `stop()`; a map kept by increments; a wait on a condition without a predicate
  (`MapFollowsNetwork`, `ListenEnds`, `ControllerIsReleased`, `StartUpEnds`).
- *Messages and products*: two tables of modules per product that must agree,
  units, hexadecimal and decimal digits, durations cut to seconds
  (`DecodedAsSent`, `SetThenReported`, `ExportFollowsDevice`,
  `ReportsAreUnambiguous`).

`PROJECT.json` "hazards" has the complete list with the line of each.

## 2. The modules

| Module | Models | Used by |
| --- | --- | --- |
| `UpdateMailbox` | what an AnswerQueue promises: an update is unseen until one waiter collects it or its Answer is removed, and no update waits for ever | refined by `AnswerQueue` |
| `AnswerQueue` | `Answer`, `Result`, `AnswerQueue` with locks, flags, event and scan | `MCAnswerQueue`, `AnswerQueueProofs` |
| `CommandExecution` | `CommandDispatcher`, `CommandRunner`, the thread pool, Results and completion; it uses the queue as the mailbox it was shown to be | `MCCommandExecution`, `CommandExecutionProofs` |
| `DeviceManagerTable` | `ZMQDeviceManagerTable` and `DeviceManagerID` | `HelloRegistration` |
| `IdentityLease` | what the hello exchange promises: an identity is offered to one client, kept until its end, and never given out again by the same broker | refined by `HelloRegistration` |
| `HelloRegistration` | the hello exchange, with restarts | `MCHelloRegistration`, `HelloRegistrationProofs` |
| `CommandBoard` | what the broker promises of its commands: a Result before the execution, one execution at most, one end of the Result, with its status | refined by `BrokerCommands` |
| `BrokerCommands` | the broker as a command handler, frame by frame | `MCBrokerCommands`, `BrokerCommandsProofs` |
| `ServerQueries` | what a request promises: one answer of the server, of which the device manager learns and takes over nothing else, part by part | refined by `DeviceRequests` |
| `DeviceRequests` | requests of a device manager, through the broker, to the server's handler and back | `MCDeviceRequests`, `DeviceRequestsProofs` |
| `ExportLog` | what the export promises: each takes place at once, ends truthfully, and writes a short record whole or not at all | refined by `PipeExport` |
| `PipeExport` | distributor and named pipe | `MCPipeExport`, `PipeExportProofs` |
| `ZWaveManager` | `run()`, `stop()`, the commands and timers of the Z-Wave device manager, and the `NotificationProcessor` | `MCZWaveManager`, `ZWaveProofs` |
| `JablotronManager` | the Jablotron main loop over `SerialControl`, switches, commands, listen mode | `MCJablotronManager`, `JablotronManagerProofs` |
| `ZWaveProducts` | `ZWaveMessage`, the five products and their factories: pure operators | `ValueRelay` |
| `JablotronMessages` | the parser of the dongle's lines: pure operators | `ValueRelay` |
| `ZMQMessages` | `ZMQMessage`: every `from*()` and `to*()`: pure operators | `ValueRelay` |
| `ValueRelay` | the way of a value from a device to the exporter and from the server to the device; composes the three modules above | `MCValueRelay`, `ZWaveProofs` |

`MC...` modules only give values to constants. In all modules an action is one
handler, or one part of it between two points where another thread can come in:
taking a lock, giving it up, sending, starting a task. Containers that the code
shares without a lock are used in one step each; the undefined behaviour of two
threads inside one container is outside the models. "Faulty" operators are
variants of an action with a plausible mistake; no specification uses them, they
show that the properties can tell the difference (`PROJECT.json` "mutants").

Five modules are shown to implement an abstract one, which says in a few actions
what the users of the component may rely on. The mappings (`Mailbox`, `Lease`,
`Board`, `Queries`, `Log`, in the properties of the detailed modules) name the
abstract variables in terms of the code's: the table as the set of identities
given out, `m_cmdTable` as the messages that have a Result, the handler's Result
as what the server has said once the handler is done, the stream without what
the holder of the mutex has written so far as the log of the exports.

### How state and actions correspond to the code

*AnswerQueue.* `queued` is `m_answerList`, `dirty` the `m_dirty` of every Answer,
`event` the event. A writer takes the Answer's lock (`Lock`), changes a Result
(`SetStatusUnlocked`) or announces the Answer (`NotifyUpdated`), sets the event
(`SetEvent`) and unlocks. A waiter calls `wait()` (`CallWait`), takes the queue's
mutex (`BeginScan`), visits the Answers one lock at a time (`ScanAnswer`), and
returns its list or blocks (`EndScan`, `ConsumeEvent`, `GiveUp`). `ReadAnswer` is
the loop of its client, `ZMQBroker::checkQueue()` for example. `seen` remembers
what the client last read.

*CommandExecution.* `phase` is the progress of `dispatch()`, which holds the
dispatcher's mutex from `AddCommands` on and the Answer's lock from the check of
`isPendingUnlocked()` to its end. `task` follows the `CommandRunner` of each
handler; a pool without a free thread makes `TaskManager::start()` throw
(`NoThreadAvailable`). `ResultCounts` says how many Results a handler may add
before it returns: one for most, one per device manager for the broker's, which
may be none or two. A handler that throws (`Fail`) leaves those it has added.
`SetStatus` is separate from the handler since the reply of
a device manager may set the status long after `handle()` has returned.

*HelloRegistration.* `deviceManagers` is the table of the running broker, `broker`
its number. `hello` is what is under way on a client's REQ socket; a response
dies with its client, a request may not (`orphans`). `RestartBroker` loses any part
of what is under way.

*BrokerCommands.* A message is identified by the command and the manager it is
made for, which stands for its random id. `SendIdentity` and `SendBody` are the two
frames; frames that interleave are routed by the first one, a body without
identity is dropped.  The broker's own frames on that socket (responses, errors)
are left out, they would add to the mixing of which the module already has
enough.  `CheckSettingTable` throws at its first entry with a Result, since the
Result is never a `DeviceSetValueResult`.

*DeviceRequests.* A request is its Answer, its id and its entry in `m_table`.
`Send` and `Insert` are the two halves of `getDeviceList()` and `getLastValue()`;
`ReceiveResponse`, `SetResponseStatus` and `SetResponseData` the steps of the
client's thread, `CollectDirty`, `TakeList`, `TakeLastValue` and `RefuseLastValue`
those of `checkQueue()`. Jablotron and Z-Wave have the same code here; the map
refers to one or the other. An uninitialised last value is any value. In the
broker, `ServeRequest` enters the Answer into `m_resultTable` and starts the
server's handler; `RefuseRequest` does the first and fails in the second, as the
pool of threads may. The handler of a device list looks at `m_activeAction` and
starts its timer without a lock (`CheckAction`, `StartAction`), so that two lists
can both start it, and the second start throws. `HandleDeviceList` and
`HandleLastValue` fill the Result and notify under the Answer's lock, which is
held until `Release`; a last value notifies once more before that. `SendResult`,
the broker's `checkQueue()`, waits for that lock.

*PipeExport.* One action per system call, with its errors: `OpenFile`,
`OpenMissing`, `OpenFails`, `MakePipe`, `MakeFails`, `Stat`, `Write`, `Interrupt`,
`WriteFails`, `Close`, `Catch`. The reader, the file and other users of the
descriptor are the environment.

*ZWaveManager.* `main` is the progress of `run()`: the client's thread is started,
the Manager created, the condition waited for (`Wait`: a broadcast only wakes who
waits), the first list requested, then the loop. OpenZWave makes one change of the
network at a time (`NodeAppears`, `ValueDisappears`, ...) and delivers its
notification (`pending`) before the next; `OnNodeAdded`, `OnRemoved`,
`OnValueAdded`, `OnValueChanged` are the branches of `onNotification()`.
`ListenCommand` and `AddNode` are the two halves of `doListenCommand()`, between
which a short timer may fire. A call through `Manager::Get()` when there is no
Manager ends the process (`Crash`), an exception in `onEvent()` the client's
thread (`client = "dead"`), one in `setLastState()` `run()` (`main = "dead"`).

*JablotronManager.* `main` follows the loop of `run()`: `CheckQueue`, `TakeAnswer`,
`EndCheck`, `Open` with the slots and `EndLoad`, `Receive`, `TakeLine`, `Send`.
Reading a slot (`LoadSlot`, `LoadEmptySlot`) returns what comes within 20 ms: the
reply, nothing, a late reply to an earlier request (`replies`), a line that has
come before, or a part of any; `ReadSlot` registers the first serial number that
is whole, if any. `FailLoad` is a number that cannot be converted, which ends
`loadRegDevices()` and keeps what `m_devices` has so far. `Receive` takes any
number of the lines that have come: 64 bytes may end within a line, whose rest
completes it with the next read; that a half read before an unplugging is
completed by another line after it is left out.
`BeginSwitch`, `Format`, `Transmit` and `EndSwitch` are `setSwitch()` in either
thread: the state is stored, the message built from both states, and sent up to
`Repeats` times. `ssend()` returns true when it fails, so the loop of
`retransmissionPacket()` counts the successes as failures, and the other way
round; the model does what the code does. `fd` is "stale" when the dongle was
unplugged and the descriptor not yet closed. Four histories say for which
outlets the code has lost track, and are reset when it finds it again: `mixed`
(threads whose `setSwitch()` has met the other's), `stale` (the last
`setSwitch()` to end was mixed or wrote nothing), `misplaced` (outlets last set
while the first of `m_devices` need not be the dongle's) and `misread` (a slot
was missed or taken for another, which makes that possible).

*ZWaveProducts, JablotronMessages, ZMQMessages.* One operator per function, with
its name. A text is a record of its kind and number, a message a record of its
attributes. `Reading`s that are missing are empty sets; an exception is a
predicate of its own (`ExtractionThrows`, `ModuleTextParses`). The values of a
report, a vector in the code, are a set: nobody looks at their order, and an
item that is there twice says nothing new (two items of one module with
different values would, which `ReportsAreUnambiguous` excludes). The loops over
the values of a node take the first match (`First`), as a place in the node's
sequence; no definition is recursive.

*ValueRelay.* One device and its manager. A message under way carries what it was
made of, so that `DecodedAsSent` can compare; `setting` is the last value the
server set, `exported` the last report that reached the exporter. All other kinds
of message pass once, in both directions.

## 3. What is checked

| Run | Instance and bounds | Shows |
| --- | --- | --- |
| `answer_queue` | 2 Answers (one with a Result), 2 writers, 1 waiter, all timeouts | type, `NoLostUpdate`, `NoStaleView`, and the refinement `ImplementsMailbox` with its liveness |
| `command_execution` | 2 Answers, one accepted by up to 3 handlers, of which the broker's adds no Result or two, one by none; pool of 2 | type, completion is neither false nor quiet nor withdrawn, commands end |
| `hello_registration` | 2 Z-Wave managers and 1 Jablotron manager, 3 idents, 2 starts each, 2 brokers | type, one registration per client, answers, and the refinement `ImplementsLease` |
| `broker_commands` | a set value and a listen, 2 managers that register at any time and answer | type, replies find their Result and no other, and the refinement `ImplementsBoard` |
| `device_requests` | 2 device lists (main thread and timer), 1 last value, 1 device, 2 values | type, entries are known, one response per request, requests are answered, and the refinement `ImplementsQueries` |
| `pipe_export` | 3 exports of length 3, atomic size 2, capacity 4, 3 attempts | type, records stay together, descriptors are closed, exports end, and the refinement `ImplementsLog` |
| `value_relay` | 7 Z-Wave nodes of all products and a Jablotron outlet, lines of every type, 7 settings, 11 other messages, 2 messages under way | messages are read as sent, a set value is what the device then reports, the last export is what the device shows, reports have one value per module whatever the unit |
| `zwave_manager` | 1 node with 1 value, 1 listen, 2 unpairs, start-up and `stop()` at any time | the map follows the network; listening, the controller's commands and the start-up end |
| `jablotron_manager` | 2 outlets, 1 set by the server besides restored last values, 1 unpair, 1 unplugging, 1 garbled reply, any missed, late or misread | each outlet is what it was last set to |
| `jablotron_lines` | 2 sensors, 3 lines, 2 listens, 1 unplugging | no line is lost, repeated or overtaken; listening ends |

The bounds are the least with which the interesting cases happen: two writers, so
that one can update behind the scan that the other caused, and one waiter (the
proofs are for any number of both); fewer threads than handlers, and a handler
that adds two Results beside others that add one (the second Answer, which nobody
accepts, only shares the dispatcher's mutex); as many idents as
managers, so that orphans and restarts fill the table; a command for one manager
and one for both, so that frames for different managers meet; a timer's request
beside the main thread's; a record that is longer than the atomic size and a pipe
with less room than two records (the conjunct of `ExportLog` about short records
speaks of others, which the theorem covers); two messages under way, so that a report and a
set value cross (the other messages, `Exchange`, only pass when nothing is under
way: they change nothing); one node, as the map treats nodes separately, which
the proof shows for any number; a listen and two unpairs, so that both timers
and both commands of the controller meet, and one of the timers is started
again; one switch of the server beside the last values that the main thread
restores, so that the threads meet, and one unplugging and one garbled reply, so
that the slots are read again; two listens, one of them after the timer. The two halves of
`JablotronManager` are checked apart since their product is too large: with
outlets, no lines come, with lines, nothing is switched. `MaxStarts`,
`MaxBrokers`, `MaxInFlight`, `MaxListens`, `MaxUnpairs`, `MaxLines`, `MaxSets`,
`MaxUnplugs` and `MaxGarbled` cap counters in the guards of the actions they are named for.
Deadlock is not checked where the system really stops: all commands, requests or
exports done, all starts used, a process ended.

Some properties excuse a case in which the code does not keep them, each named
in the comment of the property:

- `OutletsAreSet`: until the next `setSwitch()` that runs alone and reaches the
  dongle, a set that met the other thread's or wrote nothing (`stale`); and an
  outlet last set while none was loaded or a missed or misread slot had put the
  second before the first (`misplaced`), until it is set in their order;
- `LinesStayInOrder`: the lines that come before the line is opened or while slots
  are read (`swallowed`);
- `NoFalseCompletion`: an Answer for which one handler has added two Results;
  `CompletionIsFinal`: the second Result of a handler that still runs;
- `RequestsAreAnswered`: a request that the pool refuses (`refused`), and a device
  list whose handler could not start its timer (`failed`);
- `ControllerIsReleased`: the timer that fires before `AddNode()` (`early`), and a
  second unpair after the first one's timer;
- Jablotron's `ListenEnds`: a second listen after the first one's timer (that of
  Z-Wave has no excuse: its second listen is the run `listen_again`);
- `StartUpEnds`: the broadcast that comes before the wait.

Each excuse is tied to the state the code is left in, so that the same symptom
from another cause is still a violation. Section 5 says what happens in these
cases.

Runs that must find a violation; each is a statement of the repository that the
code does not keep, quoted in `PROJECT.json` "findings":

| Run | Statement | Why it fails |
| --- | --- | --- |
| `concurrent_handlers` | `handle()` is thread-safe (`core/CommandHandler.h:38`) | two frames per message without a lock |
| `listen_again` | a listen has a time during which devices can occur (`commands/GatewayListenCommand.h:11`) | Poco's timer starts once; the second listen sets `m_listen`, then throws |

### Fairness

Fairness is assumed of threads, never of the environment. A thread that is inside
a function goes on (weak fairness of its next step); where it competes for a
mutex or for the event, strong fairness says that it gets it in the end if it is
free again and again, which an operating system's scheduler provides. Loops of
`run()` and of `checkQueue()` go on polling, and a Poco timer that was started
fires. Nothing obliges a client to register or to dispatch, a device manager to
answer, a finite timeout to run out, a process to end, a reader to read, a dongle
to be plugged in or a signal to come. `BrokerCommands` has in addition that time
passes and its timer calls. `ZWaveManager` assumes of OpenZWave that its driver
becomes ready or fails, and that it announces that the nodes have been queried
(strong fairness, since other notifications come in between); without that the
start-up cannot end.

## 4. What is proved

TLAPS checks the theorems for every value of the constants, under the named
assumptions of the modules only (a Result belongs to an Answer, `None` is not a
member of the sets, there are finitely many handlers, sizes are positive, the
dongle has a slot once per device and at most two outlets, and the like).

- `AnswerQueueProofs`. `NoUpdateIsLost` and `NoViewIsStale` for any number of Answers
  and threads, and `QueueIsMailbox`: initial states and every step map to those of
  `UpdateMailbox`. `NoLostUpdate` is not inductive: a waiter that clears a flag or
  consumes the event must be known to be on its way over all Answers that were
  dirty before, and a writer between flag and event to hold the lock of its own
  Answer. The invariant adds the ownership of the locks (in `TypeOK`) and
  that what a waiter has found lies in its hands until it was read.
- `CommandExecutionProofs`. `CompletionIsAlwaysAnnounced` needs that an Answer that
  `dispatch()` has locked has no Results yet (`LockedOut`), so that it is pending
  as long as a command is to be started. No theorem bounds the number of Results
  that a handler adds. `NoAnswerIsFalselyComplete` speaks of Answers in a state
  without two Results of one handler (`OneResultEach`), as the property does: as
  many Results as commands is then an injection between finite sets of one size,
  which reaches every handler. `CompletionIsAlwaysFinal` is for all Answers: once
  no handler runs no Result is added, and before that a Result added to a complete
  Answer is the second of its handler (`SecondResult`).
- `HelloRegistrationProofs`. `IdentitiesAreUnique` (no two clients hold the same
  identity of the same broker), `ClientsAreRegistered`, and the refinement
  `HelloIsLease`. The
  strengthening says that the idents of the table are 0, 1, 2, ... in order (the
  broker never unregisters, so `getFirstEmptyID()` counts to the end), and that
  whatever identity of the running broker is held or under way is an entry of
  the table; identities of earlier brokers differ in the broker's number. The
  guard in `fromPrefix()` keeps the wrap-around of `uint8_t` from ever happening. So
  the ident of a registration is the length of the table, which no entry has:
  what `IdentityLease` demands of a gift, also one to a client that is gone.
- `BrokerCommandsProofs`. `NoReplyIsUnknown`, `NoResultIsMixedUp`,
  `NothingIsExecutedTwice`, and the refinement `BrokerIsBoard`, for any
  interleaving of frames. The strengthening
  (`RecordedFirst`, `RepliesAreGenuine`, `SentOnce`) follows a message from the
  loop of `handle()` to its reply: it is recorded before its first frame, sent in
  one visit of its manager, in at most one inbox, not executed while it is
  there, and replied to as it was executed. The refinement needs in addition
  that every entry of `m_cmdTable` is for a manager its command is for
  (`EntriesAreAddressed`). By whom a message is executed `CommandBoard` leaves
  open, since the code does: see the run `concurrent_handlers`.
- `DeviceRequestsProofs`. `DirtyIsAlwaysRecorded`, `ResponsesAreUnique`,
  `ResultsAreAlwaysServers`, and the refinement `RequestsAreQueries`, for any number
  of requests. `Progress` puts every request in exactly one place (sent,
  dispatched, handled, under way, collected); that the second notification of a
  last value does not put it in two is due to the Answer's lock; `ResponsesAreServers` ties what is under way, or
  in work by the client's thread, to the Result of the handler, which nobody
  changes after it was notified; `ServerIsSane` gives the kind of the data, from
  which the type of `m_devices` follows. In the refinement the three steps of
  the client's thread are each a `Learn` of `ServerQueries`, which is why that
  has a status and data known apart.
- `PipeExportProofs`. `DescriptorsAreReleased`, `RecordsAreTogether`,
  `OutcomesAreTrue`, and the refinement `ExportsAreAtomic`, for any sizes and any
  number of exports. `EndIsHolders` says
  that what the holder of the distributor's mutex has written are the last bytes
  of the stream, all of its record that are there; so another record can only
  begin after them. The count of bytes in the stream is that of the holder's
  progress (`WrittenSoFar`). An export takes effect in `ExportLog` when it gives up
  the mutex: all steps before are hidden since the mapping cuts the last
  `written` bytes off the stream, and `ShortIsWhole` says that there is no
  such part of a record of at most `PIPE_BUF` bytes.
- `ZWaveProofs`, of `ZWaveManager`. `MapAlwaysFollows`, for any nodes and values. While a
  notification is being delivered, exactly the entry it is about is behind the
  network, in a way that the notification makes up for (`EntryIsBehind`); no other
  thread touches the map, and `stop()` drops the notification for good.
- `JablotronManagerProofs`. `LinesAreInOrder`, for any lines and any unpluggings:
  the property says of the lines handled, buffered and on the wire together that
  they are increasing and are those emitted and not swallowed, which is inductive
  with the types of these variables (`LInv`). The sequences are compared by the
  numbers of their lines, which needs no recursion. A read that swallows the
  first lines on the wire is one lemma (`SwallowStep`), whoever reads.
  `OutletsStaySet`, for any slots, numbers of repeats and sets. `PairIsWanted` says
  that `pgx` is what the first outlet was set to and `pgy` what the second was, but
  for those that are `misplaced`; a set keeps it only if the first outlet of
  `m_devices` is the dongle's first. As long as no slot is missed or misread,
  `SlotsInOrder` gives that: before every device of `m_devices` are those of all
  earlier slots, also when the slots are read again and `m_devices` holds them
  twice. After that it is asked of the state itself (`InSlotOrder`). `PairIsWritten`
  takes the pair through `retransmissionPacket()` to the outputs of a thread that
  has met no other, and `OneJob` says that such a thread is alone.

- `ZWaveProofs`, of `ValueRelay`. `MessagesAreDecoded`, `SettingsAreReported`,
  `ExportsFollow` and `ReportsAreClear`, for any nodes of the five products, with
  values in any order and number, for any outlet, lines, settings, texts and
  other messages, and any number of messages under way. `RelayTypes` says that a
  message under way is one of the code's `from*()` for a content of its class
  (`Reports`, `Sets`, `Passing`), from which the lemmas `ReportIsRead`, `SetIsRead`
  and `PassingIsRead` compute what `to*()` makes of it; and that the device stays
  a device whatever is written to it (`IsDevice`). `ExportFollowsDevice` speaks of
  empty queues and is not inductive: `ReportsFollow` says that the last report
  under way has what the node shows or, without one, the last export has.
  `SetThenReported` becomes `SettingArrives` in the same way: the last command
  under way carries the setting or, without one, the device holds it (`Holds`).
  That what a device holds is what it reports (`HeldIsShown`) compares the tables
  of `setValue()` and `extractValues()` module by module, with the type to which
  OpenZWave cuts the number.

`ValueRelay` assumes of its constants what the code takes for granted of its
environment, each in an assumption that TLC evaluates on the instance:
`DevicesAssumption` (a node is of a known manufacturer, has the settings of its
product with the types that OpenZWave's configuration of the product gives them,
and one burglar alarm at most; of its values only temperatures are in degrees
Fahrenheit; what a Jablotron's command switches is an AC-88), `TextsAssumption`
(a sensor's new text is not that of a setting, which only the manager writes),
`LinesAssumption`, `SettingsAssumption` and `OthersAssumption` (modules are below
10, which the tables of all products are; durations are not negative). Without
the first part of `DevicesAssumption` `setActuator()` finds nothing to write to;
with an alarm twice, two detections could contradict each other; with modules
from 10 on `toString()` and `parse()` of `ModuleID` differ (section 5).

The invariants were first checked with TLC on the instances above. Out of the
prover's reach, and left to TLC: properties under fairness (`ImplementsMailbox`
beyond its safety part, `EveryCommandEnds`, `EveryRequestIsAnswered`,
`RepliesArriveAtResults`, `RequestsAreAnswered`, `EveryExportEnds`, `ListenEnds`,
`ControllerIsReleased`, `StartUpEnds`), `ENABLED`, induction over data, and
recursive operators (none is used). Every safety property
of the passing runs is stated by a theorem.

## 5. What is not modelled, and known divergences

Not modelled:

- `main.cpp`, dependency injection and configuration; `FakeHandler`, which is in no
  configuration. `registerHandler()` and the other setters run before any
  thread is started; `FakeHandlerTest::fire()` adds a Result to a new Answer and
  dispatches one of the commands of `BrokerCommands` with it. Nobody waits on the
  queue of that Answer.
- The loop of the virtual sensors (a stop event and a call of `exportData()`),
  and the wording of the formatters: no state. They appear as the exporting
  threads of `PipeExport`.
- ZeroMQ, Poco, OpenZWave, the dongle and the operating system: only as the code
  uses them. The text of JSON.
- Malformed and unexpected messages: both sides log them and send an error back
  (`parseMessage()`, `zmq/ZMQConnector.cpp:67-108`; `zmq/ZMQBroker.cpp:194-216,
  242-250, 273-277`; `zmq/ZMQClient.cpp:130`). The broker does so on the data socket
  even for hellos, in one frame, without the one that names the receiver.
- What two threads do inside one unprotected container (`m_settingTable`,
  `m_cmdTable`, the table of device managers, `m_devicesWithFlag`): undefined;
  every operation on one is one step here. `checkSettingTable()` also erases
  from the map it iterates over.
- Floating point: readings are integers. Terminal attributes of the serial line.
- The base library, a submodule without content.

Some statements of the repository do not hold of the code. Two have a run
(section 3). The others are part of the models, which do what the code does; the
properties are stated so that they hold with it:

- `Answer::isPending()` is "the check if the Result are in the terminal state"
  (`core/Answer.h:54`), but it also compares the number of Results with the
  number of commands (`core/Answer.cpp:65`). The broker adds one Result per
  registered manager, or none (`zmq/ZMQBroker.cpp:82-86`). A listen command with
  two managers is complete when the first one answers before the second Result
  is added, then pending again, and for ever; one without managers is pending
  for ever. Where another handler accepts the same command, the broker's second
  Result can stand for that handler's, which is then not waited for.
- A request may be lost for ever without a word to its sender: when the pool has
  no thread for the handler, `TaskManager::start()` throws (`core/Answer.cpp:84`)
  and the broker logs it (`zmq/ZMQBroker.cpp:251`), the Answer staying in
  `m_resultTable`; and when two device lists find `m_activeAction` set, or the pool
  has no thread for the timer, `startAction()` throws before a Result is made
  (`zmq/FakeHandlerTest.cpp:76-80`). Where the pool was
  the reason, `m_activeAction` stays set, so that every later list fails as well.
- An identity is "a unique identification" (`model/DeviceManagerID.h:11`). A
  restarted broker numbers from 0 again (`zmq/ZMQDeviceManagerTable.cpp:44`), while
  clients of the earlier one keep theirs: `ImplementsLease` and `UniqueIdentity` are
  per broker.
- A set value that expires must be reported (`commands/DeviceSetValueCommand.h:16-20`).
  `handle()` makes plain Results (`zmq/ZMQBroker.cpp:86`), so that the cast in
  `checkSettingTable()` (line 362) gives null and the timer throws at its first
  entry with a Result.
- The result of a device list "includes device list"
  (`commands/ServerDeviceListResult.h:15`). `toServerDeviceListResult()` sets the
  status, which notifies, before the list (`zmq/ZMQMessage.cpp:526`): a main thread
  that collects the Answer in between takes an empty list, or an
  uninitialised last value, which it then writes to the device.
- `ship()` returns false when buffers are full (`core/Exporter.h:20`); a full pipe
  throws (`exporters/NamedPipeExporter.cpp:147`), although the loop's comment says
  that it blocks. After a failed write the descriptor is closed twice (`Catch`);
  by then it may belong to another thread.
- A sensor's event is to be switched off by a second message
  (`jablotron/JablotronDeviceManager.cpp:360-364`). The value is inserted into the
  first message's data, after it was sent; the second message is empty (line
  390). The flag also stays set by a line that is dropped, and then belongs to
  the next line of another device.
- A switch is recommended to be sent three times (lines 561-564). `ssend()`
  returns true when it fails, so it is sent ten times, and given up after three
  failures.
- The Z-Wave start-up waits on a condition without a predicate
  (`z-wave/NotificationProcessor.cpp:30`): if the driver fails, or all nodes are
  queried, before the wait, nobody wakes `run()`.
- A last value without success ends `checkQueue()`
  (`jablotron/JablotronDeviceManager.cpp:143`, the same in the Z-Wave manager):
  Answers collected with it are dropped although their flags were cleared. A
  response that is faster than the entry in `m_table` is dropped, too.
- The Jablotron main loop reads nothing while no device is known (line 72),
  listen mode or not: on a gateway without paired Jablotron devices, a listen
  finds none.
- Module ids are written as hexadecimal and read as decimal digits
  (`model/ModuleID.cpp:38`). The modules in use are below 10, where the two agree.
- A text that is no number where a product expects one ends OpenZWave's thread
  (`z-wave/NotificationProcessor.cpp:115`); a paired node that is not identified
  yet ends `run()` (`z-wave/ZWaveDeviceManager.cpp:348`).
- Poco's timers start once. In Jablotron, too, a second listen sets `m_listen`
  before `start()` throws (`jablotron/JablotronDeviceManager.cpp:635-640`) and ends
  the client's thread: the manager listens for ever. A second unpair in Z-Wave
  has given the controller `RemoveNode()` by then
  (`z-wave/ZWaveDeviceManager.cpp:103-111`): no timer cancels it, and the controller
  keeps removing nodes.
- The dongle replies to a request for a slot when it can, `sread()` waits 20 ms
  (`jablotron/SerialControl.cpp:94-117`), and `loadRegDevices()` skips a slot without
  a serial number (`jablotron/JablotronDeviceManager.cpp:317`), or takes whatever
  number has come; a number that cannot be converted ends it (lines 321-325).
  If that leaves the second outlet before the first in `m_devices`, the manager
  switches one for the other, until the program starts again: `m_devices` only
  grows.
- `setSwitch()` has no lock (line 582). When two threads are in it, the dongle may
  keep the older pair of states, until something else sets a switch.
- With a listen of less than a second, the timer may cancel the controller's
  command before `AddNode()` has given it (`z-wave/ZWaveDeviceManager.cpp:128`);
  the controller then keeps adding nodes.

## 6. Plan

Done: all parts of section 1, and proofs of the safety properties of all modules
and of five refinements. What could follow, in this order:

1. An abstract life of a command's Answer for `CommandExecution`, composed with
   `CommandBoard`, so that completion speaks of the device managers' replies.
2. The table of device managers with `unregisterDaemon()`, should the broker come
   to use it; then the idents are no longer 0, 1, 2, ... and the proof of
   `IdentitiesAreUnique` changes.
3. A composition of `BrokerCommands` with `ZWaveManager` and `JablotronManager`, in
   which a command's Result depends on the thread that was ended by another one.
