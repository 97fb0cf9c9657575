---------------------------- MODULE DeviceRequests ----------------------------
(***************************************************************************)
(* The requests of a device manager to the server: core/DeviceManager with *)
(* jablotron/JablotronDeviceManager or z-wave/ZWaveDeviceManager on one    *)
(* side, zmq/ZMQBroker and the handler that stands in for the server       *)
(* (zmq/FakeHandlerTest) on the other.                                     *)
(*                                                                         *)
(* A request has an Answer and a message id; it is represented by one      *)
(* value here.  The thread that issues it sends it, then enters it into    *)
(* m_table.  The response is turned into a Result by the client's thread   *)
(* and collected from the queue by the main thread.                        *)
(***************************************************************************)
EXTENDS Naturals, FiniteSets, Sequences

CONSTANTS
    Lists,          \* requests for the device list (ServerDeviceListCommand)
    LastValues,     \* requests for a last value (ServerLastValueCommand)
    OfMain,         \* those the main thread issues; a timer issues the others
    Devices,        \* devices that the server can have paired
    Values,         \* values of a module ...
    Zero,           \* ... one of which is 0
    None

Requests == Lists \cup LastValues

ASSUME RequestsAssumption == Lists \cap LastValues = {} /\ OfMain \subseteq Requests
ASSUME ZeroAssumption == Zero \in Values
ASSUME NoneAssumption == None \notin Requests \cup Values

PENDING == 0
SUCCESS == 1
FAILED == 2
Status == {PENDING, SUCCESS, FAILED}

\* The list or the value of a Result or a message: a set, if it has been set.
Data == [isSet : BOOLEAN, value : SUBSET (Devices \cup Values)]
Unset == [isSet |-> FALSE, value |-> {}]
Is(value) == [isSet |-> TRUE, value |-> value]
ResultType == [status : Status, data : Data]

VARIABLES
    pc,             \* progress of getDeviceList() or getLastValue()
    table,          \* m_table of the device manager
    results,        \* Results of the request's Answer at the device manager
    dirty,          \* Answers with a raised dirty flag at the device manager
    job,            \* the response in work by the client's thread
    handed,         \* the dirtyList of checkQueue()
    devices,        \* m_devicesWithFlag (Jablotron), m_devices (Z-Wave)
    switched,       \* last value set in response to a last value
    toBroker,       \* requests under way
    resultTable,    \* m_resultTable of the broker
    task,           \* the handler's CommandRunner for a request
    server,         \* the Result the server's handler made for a request
    active,         \* m_activeAction of the server's handler
    timer,          \* its timer has been started
    brokerDirty,    \* Answers with a raised dirty flag at the broker
    responses,      \* responses under way
    paired          \* devices paired according to the server

managerVars == <<pc, table, results, dirty, job, handed, devices, switched>>
brokerVars == <<resultTable, task, server, active, timer, brokerDirty, paired>>
wireVars == <<toBroker, responses>>
vars == <<managerVars, brokerVars, wireVars>>

\* A CommandRunner is not made; was refused by the pool; is in handle(): is
\* about to start the timer, about to make a device list, holds the Answer's
\* lock; has returned; was ended by an exception before it made a Result.
TaskState == {"none", "refused", "started", "arming", "ready", "holding", "done", "failed"}

NoResult == [status |-> PENDING, data |-> Unset]
Idle == [id |-> None, status |-> PENDING, data |-> Unset, step |-> "idle"]

Init ==
    /\ pc = [r \in Requests |-> "new"]
    /\ table = {}
    /\ results = [r \in Requests |-> <<>>]
    /\ dirty = {}
    /\ job = Idle
    /\ handed = {}
    /\ devices = {}
    /\ switched = None
    /\ toBroker = {}
    /\ resultTable = {}
    /\ task = [r \in Requests |-> "none"]
    /\ server = [r \in Requests |-> NoResult]
    /\ active = TRUE
    /\ timer = FALSE
    /\ brokerDirty = {}
    /\ responses = {}
    /\ paired \in SUBSET Devices

----------------------------------------------------------------------------
(* The device manager's main and timer threads. *)

\* The main thread is not inside getDeviceList() or getLastValue().
MainIsFree == \A r \in OfMain : pc[r] # "sent"

\* getDeviceList() forgets the devices; both functions send their message ...
\* (Last values are requested between two calls of checkQueue() by Jablotron
\* and from within one by Z-Wave.)
Send(r) ==
    /\ pc[r] = "new"
    /\ r \in OfMain => MainIsFree /\ (r \in Lists => handed = {})
    /\ pc' = [pc EXCEPT ![r] = "sent"]
    /\ devices' = IF r \in Lists THEN {} ELSE devices
    /\ toBroker' = toBroker \cup {r}
    /\ UNCHANGED <<table, results, dirty, job, handed, switched, brokerVars, responses>>

\* ... and then enter the Answer into m_table.
Insert(r) ==
    /\ pc[r] = "sent"
    /\ pc' = [pc EXCEPT ![r] = "inserted"]
    /\ table' = table \cup {r}
    /\ UNCHANGED <<results, dirty, job, handed, devices, switched, brokerVars, wireVars>>

\* checkQueue(): wait() returns all dirty Answers and clears their flags.
CollectDirty ==
    /\ MainIsFree
    /\ handed = {}
    /\ dirty # {}
    /\ handed' = dirty
    /\ dirty' = {}
    /\ UNCHANGED <<pc, table, results, job, devices, switched, brokerVars, wireVars>>

\* The loop of checkQueue() reaches r.  (Its break at an Answer that is not in
\* m_table is never taken: see TypeOK.)
Visit(r) == MainIsFree /\ r \in handed \cap table

\* A device list, of whatever status, replaces the known devices.
TakeList(r) ==
    /\ Visit(r)
    /\ r \in Lists
    /\ devices' = results[r][1].data.value
    /\ handed' = handed \ {r}
    /\ UNCHANGED <<pc, table, results, dirty, job, switched, brokerVars, wireVars>>

\* A last value: m_value is not initialised, one that is not set yet is any.
TakeLastValue(r) ==
    /\ Visit(r)
    /\ r \in LastValues
    /\ LET result == results[r][1] IN
         /\ result.status = SUCCESS
         /\ switched' \in (IF result.data.isSet THEN result.data.value ELSE Values)
    /\ handed' = handed \ {r}
    /\ UNCHANGED <<pc, table, results, dirty, job, devices, brokerVars, wireVars>>

\* A last value without success: return drops the rest of the dirtyList.
RefuseLastValue(r) ==
    /\ Visit(r)
    /\ r \in LastValues
    /\ results[r][1].status # SUCCESS
    /\ handed' = {}
    /\ UNCHANGED <<pc, table, results, dirty, job, devices, switched, brokerVars,
                   wireVars>>

----------------------------------------------------------------------------
(* The client's thread: onEvent() -> do...Result(). *)

\* Faulty ReceiveResponse: the Answer of a request not entered yet is used.
ReceiveUnknown(m) ==
    /\ job.step = "idle"
    /\ m \in responses
    /\ responses' = responses \ {m}
    /\ results' = [results EXCEPT ![m.id] = Append(@, NoResult)]
    /\ job' = [id |-> m.id, status |-> m.status, data |-> m.data, step |-> "status"]
    /\ UNCHANGED <<pc, table, dirty, handed, devices, switched, brokerVars, toBroker>>

\* A new Result for the Answer with the response's id.  A response that finds
\* no such Answer in m_table is lost.
ReceiveResponse(m) ==
    /\ job.step = "idle"
    /\ m \in responses
    /\ responses' = responses \ {m}
    /\ IF m.id \in table
         THEN /\ results' = [results EXCEPT ![m.id] = Append(@, NoResult)]
              /\ job' = [id |-> m.id, status |-> m.status, data |-> m.data,
                         step |-> "status"]
         ELSE UNCHANGED <<results, job>>
    /\ UNCHANGED <<pc, table, dirty, handed, devices, switched, brokerVars, toBroker>>

\* toServer...Result(): setStatus() comes first ...
SetResponseStatus ==
    /\ job.step = "status"
    /\ IF job.status > PENDING
         THEN /\ results' = [results EXCEPT ![job.id][Len(results[job.id])].status
                                              = job.status]
              /\ dirty' = dirty \cup {job.id}
         ELSE UNCHANGED <<results, dirty>>
    /\ job' = [job EXCEPT !.step = "data"]
    /\ UNCHANGED <<pc, table, handed, devices, switched, brokerVars, wireVars>>

\* ... setDeviceList() or setValue() second.
SetResponseData ==
    /\ job.step = "data"
    /\ results' = [results EXCEPT ![job.id][Len(results[job.id])].data = job.data]
    /\ job' = Idle
    /\ UNCHANGED <<pc, table, dirty, handed, devices, switched, brokerVars, wireVars>>

----------------------------------------------------------------------------
(* The broker and the server's handler. *)

\* doDeviceListCommand(), doDeviceLastValueCommand(): the Answer goes into
\* m_resultTable, then dispatch() starts the handler or does not.
Serve(r, outcome) ==
    /\ r \in toBroker
    /\ toBroker' = toBroker \ {r}
    /\ resultTable' = resultTable \cup {r}
    /\ task' = [task EXCEPT ![r] = outcome]
    /\ UNCHANGED <<managerVars, server, active, timer, brokerDirty, responses, paired>>

\* Faulty ServeRequest: the Answer is dispatched and forgotten.
ServeUnrecorded(r) ==
    /\ r \in toBroker
    /\ toBroker' = toBroker \ {r}
    /\ task' = [task EXCEPT ![r] = "started"]
    /\ UNCHANGED <<managerVars, resultTable, server, active, timer, brokerDirty,
                   responses, paired>>

ServeRequest(r) == Serve(r, "started")

\* No thread of the pool is free: dispatch() throws, the broker logs it and
\* the Answer stays in m_resultTable.
RefuseRequest(r) == Serve(r, "refused")

\* FakeHandlerTest::handle() of a device list looks at m_activeAction ...
CheckAction(r) ==
    /\ r \in Lists
    /\ task[r] = "started"
    /\ task' = [task EXCEPT ![r] = IF active THEN "arming" ELSE "ready"]
    /\ UNCHANGED <<managerVars, resultTable, server, active, timer, brokerDirty,
                   wireVars, paired>>

\* ... and starts the timer, unlocked.  The first start succeeds if a thread of
\* the pool is free; one that fails, and every later one, throws.
StartAction(r) ==
    /\ task[r] = "arming"
    /\ timer' = TRUE
    /\ \/ /\ ~ timer
          /\ active' = FALSE
          /\ task' = [task EXCEPT ![r] = "ready"]
       \/ /\ task' = [task EXCEPT ![r] = "failed"]
          /\ UNCHANGED active
    /\ UNCHANGED <<managerVars, resultTable, server, brokerDirty, wireVars, paired>>

\* Faulty Complete: the broker's queue is not notified.
CompleteQuietly(r, result) ==
    /\ task' = [task EXCEPT ![r] = "holding"]
    /\ server' = [server EXCEPT ![r] = result]
    /\ UNCHANGED <<managerVars, resultTable, active, timer, brokerDirty, wireVars, paired>>

\* The handler makes its Result, one for each Answer, and fills it with the
\* Answer locked; a status above PENDING notifies the broker's queue.
Complete(r, result) ==
    /\ task' = [task EXCEPT ![r] = "holding"]
    /\ server' = [server EXCEPT ![r] = result]
    /\ brokerDirty' = IF result.status > PENDING THEN brokerDirty \cup {r} ELSE brokerDirty
    /\ UNCHANGED <<managerVars, resultTable, active, timer, wireVars, paired>>

\* The device list of the devices paired so far.
HandleDeviceList(r) ==
    /\ r \in Lists
    /\ task[r] = "ready"
    /\ Complete(r, [status |-> SUCCESS, data |-> Is(paired)])

\* A last value is known; unknown with a failure and the value 0 (Jablotron);
\* unknown, pending and not set (Z-Wave).
HandleLastValue(r) ==
    /\ r \in LastValues
    /\ task[r] = "started"
    /\ \/ \E v \in Values : Complete(r, [status |-> SUCCESS, data |-> Is({v})])
       \/ Complete(r, [status |-> FAILED, data |-> Is({Zero})])
       \/ Complete(r, NoResult)

\* The lock is given up; a last value has been notified once more before,
\* except by the exception for an unknown device of Jablotron.
Release(r) ==
    /\ task[r] = "holding"
    /\ task' = [task EXCEPT ![r] = "done"]
    /\ brokerDirty' = IF r \in LastValues /\ server[r].status # FAILED
                        THEN brokerDirty \cup {r} ELSE brokerDirty
    /\ UNCHANGED <<managerVars, resultTable, server, active, timer, wireVars, paired>>

Response(r, id) == [id |-> id, status |-> server[r].status, data |-> server[r].data]

\* Faulty SendResult: the id of another request of the same kind.
SendResultToAnother(r) ==
    /\ r \in brokerDirty
    /\ task[r] # "holding"
    /\ brokerDirty' = brokerDirty \ {r}
    /\ \E id \in resultTable :
         /\ id \in Lists <=> r \in Lists
         /\ responses' = responses \cup {Response(r, id)}
    /\ UNCHANGED <<managerVars, resultTable, task, server, active, timer, toBroker, paired>>

\* Faulty SendResult: the queue does not take the Answer's lock.
SendResultUnlocked(r) ==
    /\ r \in brokerDirty
    /\ brokerDirty' = brokerDirty \ {r}
    /\ responses' = responses \cup {Response(r, r)}
    /\ UNCHANGED <<managerVars, resultTable, task, server, active, timer, toBroker, paired>>

\* ZMQBroker::checkQueue() for one dirty Answer with its one Result;
\* listDirty() waits for the Answer's lock.
SendResult(r) ==
    /\ r \in brokerDirty
    /\ task[r] # "holding"
    /\ brokerDirty' = brokerDirty \ {r}
    /\ responses' = responses \cup {Response(r, r)}
    /\ UNCHANGED <<managerVars, resultTable, task, server, active, timer, toBroker, paired>>

\* addPairedDeviceID(), for measured values of a device.
AddPairedDevice(d) ==
    /\ d \notin paired
    /\ paired' = paired \cup {d}
    /\ UNCHANGED <<managerVars, resultTable, task, server, active, timer, brokerDirty,
                   wireVars>>

----------------------------------------------------------------------------

Messages == [id : Requests, status : Status, data : Data]

Manager(r) ==
    \/ Send(r) \/ Insert(r)
    \/ TakeList(r) \/ TakeLastValue(r) \/ RefuseLastValue(r)

Broker(r) ==
    \/ ServeRequest(r) \/ RefuseRequest(r)
    \/ CheckAction(r) \/ StartAction(r)
    \/ HandleDeviceList(r) \/ HandleLastValue(r) \/ Release(r)
    \/ SendResult(r)

Next ==
    \/ \E r \in Requests : Manager(r) \/ Broker(r)
    \/ CollectDirty
    \/ \E m \in responses : ReceiveResponse(m)
    \/ SetResponseStatus
    \/ SetResponseData
    \/ \E d \in Devices : AddPairedDevice(d)

SafeSpec == Init /\ [][Next]_vars

\* The broker's thread and the handlers go on.
Fairness == \A r \in Requests : WF_vars(Broker(r))

Spec == SafeSpec /\ Fairness

----------------------------------------------------------------------------
(* Properties. *)

\* Every variable has its type; an Answer the device manager's queue knows is
\* in m_table, so that checkQueue() never breaks off with "unknown result".
TypeOK ==
    /\ pc \in [Requests -> {"new", "sent", "inserted"}]
    /\ table \in SUBSET Requests
    /\ results \in [Requests -> Seq(ResultType)]
    /\ dirty \cup handed \in SUBSET table
    /\ job \in [id : Requests \cup {None}, status : Status, data : Data,
                step : {"idle", "status", "data"}]
    /\ devices \in SUBSET Devices
    /\ switched \in Values \cup {None}
    /\ toBroker \in SUBSET Requests
    /\ resultTable \in SUBSET Requests
    /\ task \in [Requests -> TaskState]
    /\ server \in [Requests -> ResultType]
    /\ active \in BOOLEAN /\ timer \in BOOLEAN
    /\ brokerDirty \in SUBSET Requests
    /\ responses \in SUBSET Messages
    /\ paired \in SUBSET Devices

\* ZMQBroker.cpp:117-120 uses the entry of m_resultTable without a check: a
\* dirty Answer always has one, however fast its handler is.
DirtyIsRecorded == brokerDirty \subseteq resultTable

\* A request gets one response and its Answer one Result, although the handler
\* of a last value notifies twice (FakeHandlerTest.cpp:98-111, 115-131): the
\* queue cannot look at the Answer between the two, its lock is held.
OneResponse ==
    \A r \in Requests :
        Cardinality({m \in responses : m.id = r}) + Len(results[r]) <= 1

\* What a Result at the device manager holds, the server said in answer to
\* this very request.
ResultsAreServers ==
    \A r \in Requests : \A i \in DOMAIN results[r] :
        /\ results[r][i].status \in {PENDING, server[r].status}
        /\ results[r][i].data \in {Unset, server[r].data}

\* What the server may say to a request: devices to a list, a value or none to a
\* last value, and a success never without them.
Possible ==
    [r \in Requests |->
        {x \in ResultType :
            /\ x.data.value \in SUBSET (IF r \in Lists THEN Devices ELSE Values)
            /\ x.status = SUCCESS => x.data.isSet}]

Asked == {r \in Requests : pc[r] # "new"}
\* The handler has filled its Result.
Handled(r) == task[r] \in {"holding", "done"}
Said == [r \in Requests |-> IF Handled(r) THEN <<server[r]>> ELSE <<>>]

Queries == INSTANCE ServerQueries WITH
    New <- NoResult, NoDevices <- {}, asked <- Asked, said <- Said, known <- results

\* However the threads of the device manager, the broker's and the handler's
\* interleave: a request is answered once, what its Answer holds was said in
\* answer to it, and the devices taken over are those of such an answer
\* (JablotronDeviceManager.cpp:85-166, ZMQBroker.cpp:106-133, 279-303).
ImplementsQueries == Queries!Spec

\* Every request that reaches the broker is answered to its sender, except for
\* the two ways to lose one for ever, of which its sender is told nothing: the
\* pool has no thread for the handler (Answer.cpp:84, ZMQBroker.cpp:251), or a
\* device list meets a handler whose timer cannot be started
\* (FakeHandlerTest.cpp:76-80).
RequestsAreAnswered ==
    \A r \in Requests :
        r \in toBroker ~>
            \/ \E m \in responses : m.id = r
            \/ task[r] = "refused"
            \/ r \in Lists /\ task[r] = "failed"
=============================================================================
