------------------------- MODULE DeviceRequestsProofs -------------------------
(***************************************************************************)
(* Proofs about DeviceRequests, for any set of requests, devices and       *)
(* values: every response belongs to one request and carries what the      *)
(* server said in answer to it.                                            *)
(***************************************************************************)
EXTENDS DeviceRequests, FiniteSetTheorems, TLAPS

\* A response for r is under way.
Answered(r) == \E m \in responses : m.id = r

\* The way of a request: sent, dispatched, handled, answered, collected, and
\* never in two of these places.
Progress ==
    \A r \in Requests :
        /\ pc[r] = "new" => r \notin toBroker /\ task[r] = "none"
        /\ r \in toBroker => task[r] = "none"
        /\ task[r] # "none" => r \in resultTable
        /\ r \in brokerDirty => Handled(r)
        /\ ~ Handled(r) => server[r] = NoResult
        /\ (task[r] # "done" \/ r \in brokerDirty \/ Answered(r)) => results[r] = <<>>
        /\ (task[r] # "done" \/ r \in brokerDirty) => ~ Answered(r)
        /\ results[r] = <<>> => r \notin dirty \cup handed /\ job.id # r
        /\ results[r] # <<>> => r \in table
        /\ Len(results[r]) \in {0, 1}

\* What the server's handler made: a list for a list, a value for a value, and
\* never a success without data.
ServerIsSane ==
    \A r \in Requests :
        /\ r \in Lists => server[r].data.value \in SUBSET Devices
        /\ r \in LastValues => server[r].data.value \in SUBSET Values
        /\ server[r].status = SUCCESS => server[r].data.isSet

\* A response under way, or in work by the client's thread, is what the
\* server's handler made for its request.
ResponsesAreServers ==
    /\ \A m \in responses :
          m.status = server[m.id].status /\ m.data = server[m.id].data
    /\ job # Idle =>
          /\ job.id \in Requests
          /\ job.status = server[job.id].status
          /\ job.data = server[job.id].data
    /\ job.step = "idle" => job = Idle

IInv == TypeOK /\ Progress /\ ServerIsSane /\ ResponsesAreServers /\ ResultsAreServers

----------------------------------------------------------------------------

\* The values a Result can have.
LEMMA UnsetIsData == Unset \in Data /\ NoResult \in ResultType
BY DEF Unset, Data, NoResult, ResultType, Status, PENDING

LEMMA DataIsData ==
    ASSUME NEW v \in SUBSET (Devices \cup Values)
    PROVE  Is(v) \in Data
BY DEF Is, Data

LEMMA InitHolds == Init => IInv
<1> SUFFICES ASSUME Init PROVE IInv
  OBVIOUS
<1>1. TypeOK
  <2>1. Unset \in Data /\ NoResult \in ResultType /\ PENDING \in Status
    BY UnsetIsData DEF Status
  <2>2. job \in [id : Requests \cup {None}, status : Status, data : Data,
                 step : {"idle", "status", "data"}]
    BY <2>1 DEF Init, Idle
  <2>3. task \in [Requests -> TaskState]
    BY DEF Init, TaskState
  <2>4. results \in [Requests -> Seq(ResultType)]
    BY DEF Init
  <2> QED
    BY <2>1, <2>2, <2>3, <2>4 DEF Init, TypeOK
<1>2. Progress
  BY NoneAssumption DEF Init, Progress, Answered, Handled, Idle
<1>3. ServerIsSane /\ ResponsesAreServers /\ ResultsAreServers
  BY DEF Init, ServerIsSane, ResponsesAreServers, ResultsAreServers, NoResult, Unset, PENDING, SUCCESS
<1> QED
  BY <1>1, <1>2, <1>3 DEF IInv

----------------------------------------------------------------------------
(* The Results of a request's Answer at the device manager. *)

LEMMA ResultTypeParts ==
    /\ \A x \in ResultType : x.status \in Status /\ x.data \in Data
    /\ \A x \in ResultType, t \in Status : [x EXCEPT !.status = t] \in ResultType
    /\ \A x \in ResultType, d \in Data : [x EXCEPT !.data = d] \in ResultType
BY DEF ResultType

\* The first Result is the only one and holds devices or values, as the
\* request asked for.
LEMMA FirstResult ==
    ASSUME IInv, NEW r \in Requests, results[r] # <<>>
    PROVE  /\ Len(results[r]) = 1
           /\ DOMAIN results[r] = {1}
           /\ results[r][1] \in ResultType
           /\ r \in Lists => results[r][1].data.value \in SUBSET Devices
           /\ r \in LastValues => results[r][1].data.value \in SUBSET Values
<1>1. results[r] \in Seq(ResultType) /\ Len(results[r]) = 1
  BY DEF IInv, TypeOK, Progress
<1>2. DOMAIN results[r] = {1} /\ results[r][1] \in ResultType
  BY <1>1
<1>3. results[r][1].data \in {Unset, server[r].data}
  BY <1>2 DEF IInv, ResultsAreServers
<1>4. Unset.value = {}
  BY DEF Unset
<1> QED
  BY <1>1, <1>2, <1>3, <1>4 DEF IInv, ServerIsSane

\* A sequence of one Result after a change of it.
LEMMA ChangedResult ==
    ASSUME NEW s \in Seq(ResultType), Len(s) = 1, NEW x \in ResultType
    PROVE  LET t == [s EXCEPT ![1] = x] IN
             t \in Seq(ResultType) /\ t # <<>> /\ Len(t) = 1 /\ DOMAIN t = {1} /\ t[1] = x
OBVIOUS

\* A sequence with its first Result.
LEMMA AppendedResult ==
    LET t == Append(<<>>, NoResult) IN
      t \in Seq(ResultType) /\ t # <<>> /\ Len(t) = 1 /\ DOMAIN t = {1} /\ t[1] = NoResult
BY UnsetIsData

\* What the client's thread is working on has one Result.
LEMMA JobInWork ==
    ASSUME IInv, job # Idle
    PROVE  /\ job.id \in Requests
           /\ results[job.id] # <<>>
           /\ results[job.id] \in Seq(ResultType)
           /\ Len(results[job.id]) = 1
           /\ job.status \in Status /\ job.data \in Data
<1>1. job.id \in Requests /\ job.status \in Status /\ job.data \in Data
  BY DEF IInv, ResponsesAreServers, TypeOK
<1>2. results[job.id] # <<>>
  BY <1>1 DEF IInv, Progress
<1> QED
  BY <1>1, <1>2 DEF IInv, Progress, TypeOK

----------------------------------------------------------------------------
(* Every step keeps the invariant. *)

LEMMA SendStep ==
    ASSUME IInv, NEW r \in Requests, Send(r)
    PROVE  IInv'
<1> USE DEF Send, managerVars, brokerVars, wireVars
<1>1. TypeOK'
  BY DEF IInv, TypeOK
<1>2. Progress'
  BY DEF IInv, TypeOK, Progress, Answered, Handled
<1>3. ServerIsSane'
  BY DEF IInv, ServerIsSane
<1>4. ResponsesAreServers'
  BY DEF IInv, TypeOK, ResponsesAreServers
<1>5. ResultsAreServers'
  BY DEF IInv, TypeOK, ResultsAreServers
<1> QED
  BY <1>1, <1>2, <1>3, <1>4, <1>5 DEF IInv

LEMMA InsertStep ==
    ASSUME IInv, NEW r \in Requests, Insert(r)
    PROVE  IInv'
<1> USE DEF Insert, managerVars, brokerVars, wireVars
<1>1. TypeOK'
  BY DEF IInv, TypeOK
<1>2. Progress'
  BY DEF IInv, TypeOK, Progress, Answered, Handled
<1>3. ServerIsSane'
  BY DEF IInv, ServerIsSane
<1>4. ResponsesAreServers'
  BY DEF IInv, TypeOK, ResponsesAreServers
<1>5. ResultsAreServers'
  BY DEF IInv, TypeOK, ResultsAreServers
<1> QED
  BY <1>1, <1>2, <1>3, <1>4, <1>5 DEF IInv

LEMMA CollectDirtyStep ==
    ASSUME IInv, CollectDirty
    PROVE  IInv'
<1> USE DEF CollectDirty, managerVars, brokerVars, wireVars
<1>1. TypeOK'
  BY DEF IInv, TypeOK
<1>2. Progress'
  BY DEF IInv, TypeOK, Progress, Answered, Handled
<1>3. ServerIsSane'
  BY DEF IInv, ServerIsSane
<1>4. ResponsesAreServers'
  BY DEF IInv, TypeOK, ResponsesAreServers
<1>5. ResultsAreServers'
  BY DEF IInv, TypeOK, ResultsAreServers
<1> QED
  BY <1>1, <1>2, <1>3, <1>4, <1>5 DEF IInv

LEMMA TakeListStep ==
    ASSUME IInv, NEW r \in Requests, TakeList(r)
    PROVE  IInv'
<1> USE DEF TakeList, Visit, managerVars, brokerVars, wireVars
<1>1. TypeOK'
  <2>1. r \in Requests /\ results[r] # <<>>
    BY DEF IInv, TypeOK, Progress
  <2>2. devices' \in SUBSET Devices
    BY <2>1, FirstResult
  <2> QED
    BY <2>2 DEF IInv, TypeOK
<1>2. Progress'
  BY DEF IInv, TypeOK, Progress, Answered, Handled
<1>3. ServerIsSane'
  BY DEF IInv, ServerIsSane
<1>4. ResponsesAreServers'
  BY DEF IInv, TypeOK, ResponsesAreServers
<1>5. ResultsAreServers'
  BY DEF IInv, TypeOK, ResultsAreServers
<1> QED
  BY <1>1, <1>2, <1>3, <1>4, <1>5 DEF IInv

LEMMA TakeLastValueStep ==
    ASSUME IInv, NEW r \in Requests, TakeLastValue(r)
    PROVE  IInv'
<1> USE DEF TakeLastValue, Visit, managerVars, brokerVars, wireVars
<1>1. TypeOK'
  <2>1. r \in Requests /\ results[r] # <<>>
    BY DEF IInv, TypeOK, Progress
  <2>2. switched' \in Values
    BY <2>1, FirstResult
  <2> QED
    BY <2>2 DEF IInv, TypeOK
<1>2. Progress'
  BY DEF IInv, TypeOK, Progress, Answered, Handled
<1>3. ServerIsSane'
  BY DEF IInv, ServerIsSane
<1>4. ResponsesAreServers'
  BY DEF IInv, TypeOK, ResponsesAreServers
<1>5. ResultsAreServers'
  BY DEF IInv, TypeOK, ResultsAreServers
<1> QED
  BY <1>1, <1>2, <1>3, <1>4, <1>5 DEF IInv

LEMMA RefuseLastValueStep ==
    ASSUME IInv, NEW r \in Requests, RefuseLastValue(r)
    PROVE  IInv'
<1> USE DEF RefuseLastValue, Visit, managerVars, brokerVars, wireVars
<1>1. TypeOK'
  BY DEF IInv, TypeOK
<1>2. Progress'
  BY DEF IInv, TypeOK, Progress, Answered, Handled
<1>3. ServerIsSane'
  BY DEF IInv, ServerIsSane
<1>4. ResponsesAreServers'
  BY DEF IInv, TypeOK, ResponsesAreServers
<1>5. ResultsAreServers'
  BY DEF IInv, TypeOK, ResultsAreServers
<1> QED
  BY <1>1, <1>2, <1>3, <1>4, <1>5 DEF IInv

LEMMA ReceiveResponseStep ==
    ASSUME IInv, NEW m \in responses, ReceiveResponse(m)
    PROVE  IInv'
<1> USE DEF ReceiveResponse, managerVars, brokerVars, wireVars
<1>1. /\ m.id \in Requests /\ m.status \in Status /\ m.data \in Data
      /\ results[m.id] = <<>> /\ job = Idle
      /\ m.status = server[m.id].status /\ m.data = server[m.id].data
      /\ task[m.id] = "done" /\ m.id \notin brokerDirty
  BY DEF IInv, TypeOK, Messages, Progress, Answered, ResponsesAreServers
<1>2. \A n \in responses : n.id = m.id => n = m
  <2>1. ASSUME NEW n \in responses, n.id = m.id PROVE n = m
    <3>1. n \in Messages /\ m \in Messages
      BY DEF IInv, TypeOK
    <3>2. n.status = m.status /\ n.data = m.data
      BY <1>1, <2>1 DEF IInv, ResponsesAreServers
    <3>3. /\ n = [id |-> n.id, status |-> n.status, data |-> n.data]
          /\ m = [id |-> m.id, status |-> m.status, data |-> m.data]
      BY <3>1 DEF Messages
    <3> QED
      BY <2>1, <3>2, <3>3
  <2> QED
    BY <2>1
<1>3. CASE m.id \in table
  <2> DEFINE t == Append(<<>>, NoResult)
  <2>a. t \in Seq(ResultType) /\ t # <<>> /\ Len(t) = 1 /\ DOMAIN t = {1} /\ t[1] = NoResult
    BY AppendedResult
  <2>b. results' = [results EXCEPT ![m.id] = t] /\ results \in [Requests -> Seq(ResultType)]
    BY <1>1, <1>3 DEF IInv, TypeOK
  <2> HIDE DEF t
  <2>1. /\ results' \in [Requests -> Seq(ResultType)]
        /\ Len(results'[m.id]) = 1 /\ DOMAIN results'[m.id] = {1}
        /\ results'[m.id][1] = NoResult /\ results'[m.id] # <<>>
        /\ \A r \in Requests \ {m.id} : results'[r] = results[r]
    BY <1>1, <2>a, <2>b
  <2>2. job' = [id |-> m.id, status |-> m.status, data |-> m.data, step |-> "status"]
    BY <1>3
  <2>3. TypeOK'
    BY <1>1, <2>1, <2>2 DEF IInv, TypeOK
  <2>4. Progress'
    BY <1>1, <1>2, <2>1, <2>2 DEF IInv, Progress, Answered, Handled, Idle
  <2>5. ResponsesAreServers'
    BY <1>1, <2>2 DEF IInv, ResponsesAreServers, Idle
  <2>6. ResultsAreServers'
    BY <2>1 DEF IInv, ResultsAreServers, NoResult
  <2> QED
    BY <2>3, <2>4, <2>5, <2>6 DEF IInv, ServerIsSane
<1>4. CASE m.id \notin table
  <2>1. TypeOK'
    BY <1>4 DEF IInv, TypeOK
  <2>2. Progress'
    BY <1>4 DEF IInv, Progress, Answered, Handled
  <2> QED
    BY <1>4, <2>1, <2>2 DEF IInv, ServerIsSane, ResponsesAreServers, ResultsAreServers
<1> QED
  BY <1>3, <1>4

LEMMA SetResponseStatusStep ==
    ASSUME IInv, SetResponseStatus
    PROVE  IInv'
<1> USE DEF SetResponseStatus, managerVars, brokerVars, wireVars
<1>1. job # Idle
  BY DEF Idle
<1>2. /\ job.id \in Requests /\ results[job.id] # <<>>
      /\ results[job.id] \in Seq(ResultType) /\ Len(results[job.id]) = 1
      /\ job.status \in Status /\ job.data \in Data
      /\ job.status = server[job.id].status /\ job.data = server[job.id].data
  BY <1>1, JobInWork DEF IInv, ResponsesAreServers
<1>3. job' = [job EXCEPT !.step = "data"] /\ job'.id = job.id /\ job'.status = job.status
      /\ job'.data = job.data /\ job'.step = "data" /\ job' # Idle
      /\ job' \in [id : Requests \cup {None}, status : Status, data : Data,
                   step : {"idle", "status", "data"}]
  BY DEF IInv, TypeOK, Idle
<1>4. CASE job.status > PENDING
  <2> DEFINE x == [results[job.id][1] EXCEPT !.status = job.status]
  <2>1. x \in ResultType /\ x.status = job.status /\ x.data = results[job.id][1].data
    BY <1>2, ResultTypeParts, FirstResult DEF ResultType
  <2>2. results' = [results EXCEPT ![job.id] = [results[job.id] EXCEPT ![1] = x]]
    BY <1>2, <1>4 DEF IInv, TypeOK
  <2> HIDE DEF x
  <2>3. /\ results' \in [Requests -> Seq(ResultType)]
        /\ Len(results'[job.id]) = 1 /\ DOMAIN results'[job.id] = {1}
        /\ results'[job.id][1] = x /\ results'[job.id] # <<>>
        /\ \A r \in Requests \ {job.id} : results'[r] = results[r]
    BY <1>2, <2>1, <2>2, ChangedResult DEF IInv, TypeOK
  <2>4. TypeOK'
    BY <1>2, <1>3, <1>4, <2>3 DEF IInv, TypeOK, Progress
  <2>5. Progress'
    BY <1>2, <1>3, <1>4, <2>3 DEF IInv, Progress, Answered, Handled
  <2>6. ResponsesAreServers'
    BY <1>2, <1>3 DEF IInv, ResponsesAreServers
  <2>7. ResultsAreServers'
    BY <1>2, <2>1, <2>3, FirstResult DEF IInv, ResultsAreServers
  <2> QED
    BY <2>4, <2>5, <2>6, <2>7 DEF IInv, ServerIsSane
<1>5. CASE ~ (job.status > PENDING)
  <2>1. TypeOK'
    BY <1>3, <1>5 DEF IInv, TypeOK
  <2>2. Progress'
    BY <1>3, <1>5 DEF IInv, Progress, Answered, Handled
  <2>3. ResponsesAreServers'
    BY <1>2, <1>3 DEF IInv, ResponsesAreServers
  <2> QED
    BY <1>5, <2>1, <2>2, <2>3 DEF IInv, ServerIsSane, ResultsAreServers
<1> QED
  BY <1>4, <1>5

LEMMA SetResponseDataStep ==
    ASSUME IInv, SetResponseData
    PROVE  IInv'
<1> USE DEF SetResponseData, managerVars, brokerVars, wireVars
<1>1. job # Idle
  BY DEF Idle
<1>2. /\ job.id \in Requests /\ results[job.id] # <<>>
      /\ results[job.id] \in Seq(ResultType) /\ Len(results[job.id]) = 1
      /\ job.data \in Data /\ job.data = server[job.id].data
  BY <1>1, JobInWork DEF IInv, ResponsesAreServers
<1> DEFINE x == [results[job.id][1] EXCEPT !.data = job.data]
<1>3. x \in ResultType /\ x.data = job.data /\ x.status = results[job.id][1].status
  BY <1>2, ResultTypeParts, FirstResult DEF ResultType
<1>4. results' = [results EXCEPT ![job.id] = [results[job.id] EXCEPT ![1] = x]]
  BY <1>2 DEF IInv, TypeOK
<1> HIDE DEF x
<1> DEFINE t == [results[job.id] EXCEPT ![1] = x]
<1>a. t \in Seq(ResultType) /\ t # <<>> /\ Len(t) = 1 /\ DOMAIN t = {1} /\ t[1] = x
  BY <1>2, <1>3, ChangedResult
<1>b. results' = [results EXCEPT ![job.id] = t] /\ results \in [Requests -> Seq(ResultType)]
  BY <1>4 DEF IInv, TypeOK
<1> HIDE DEF t
<1>5. /\ results' \in [Requests -> Seq(ResultType)]
      /\ Len(results'[job.id]) = 1 /\ DOMAIN results'[job.id] = {1}
      /\ results'[job.id][1] = x /\ results'[job.id] # <<>>
      /\ \A r \in Requests \ {job.id} : results'[r] = results[r]
  BY <1>2, <1>a, <1>b
<1>6. TypeOK'
  BY <1>5, UnsetIsData DEF IInv, TypeOK, Idle, NoResult, ResultType
<1>7. Progress'
  BY <1>2, <1>5, NoneAssumption DEF IInv, Progress, Answered, Handled, Idle
<1>8. ResponsesAreServers'
  BY DEF IInv, ResponsesAreServers
<1>9. ResultsAreServers'
  BY <1>2, <1>3, <1>5, FirstResult DEF IInv, ResultsAreServers
<1> QED
  BY <1>6, <1>7, <1>8, <1>9 DEF IInv, ServerIsSane

LEMMA ServeStep ==
    ASSUME IInv, NEW r \in Requests, ServeRequest(r) \/ RefuseRequest(r)
    PROVE  IInv'
<1> USE DEF ServeRequest, RefuseRequest, Serve, managerVars, brokerVars, wireVars
<1>1. TypeOK'
  BY DEF IInv, TypeOK, TaskState
<1>2. Progress'
  BY DEF IInv, TypeOK, Progress, Answered, Handled
<1>3. ServerIsSane'
  BY DEF IInv, ServerIsSane
<1>4. ResponsesAreServers'
  BY DEF IInv, TypeOK, ResponsesAreServers
<1>5. ResultsAreServers'
  BY DEF IInv, TypeOK, ResultsAreServers
<1> QED
  BY <1>1, <1>2, <1>3, <1>4, <1>5 DEF IInv

LEMMA CheckActionStep ==
    ASSUME IInv, NEW r \in Requests, CheckAction(r)
    PROVE  IInv'
<1> USE DEF CheckAction, managerVars, brokerVars, wireVars
<1>1. TypeOK'
  BY DEF IInv, TypeOK, TaskState
<1>2. Progress'
  BY DEF IInv, TypeOK, Progress, Answered, Handled
<1>3. ServerIsSane'
  BY DEF IInv, ServerIsSane
<1>4. ResponsesAreServers'
  BY DEF IInv, TypeOK, ResponsesAreServers
<1>5. ResultsAreServers'
  BY DEF IInv, TypeOK, ResultsAreServers
<1> QED
  BY <1>1, <1>2, <1>3, <1>4, <1>5 DEF IInv

LEMMA StartActionStep ==
    ASSUME IInv, NEW r \in Requests, StartAction(r)
    PROVE  IInv'
<1> USE DEF StartAction, managerVars, brokerVars, wireVars
<1>1. TypeOK'
  BY DEF IInv, TypeOK, TaskState
<1>2. Progress'
  BY DEF IInv, TypeOK, Progress, Answered, Handled
<1>3. ServerIsSane'
  BY DEF IInv, ServerIsSane
<1>4. ResponsesAreServers'
  BY DEF IInv, TypeOK, ResponsesAreServers
<1>5. ResultsAreServers'
  BY DEF IInv, TypeOK, ResultsAreServers
<1> QED
  BY <1>1, <1>2, <1>3, <1>4, <1>5 DEF IInv

LEMMA ReleaseStep ==
    ASSUME IInv, NEW r \in Requests, Release(r)
    PROVE  IInv'
<1> USE DEF Release, managerVars, brokerVars, wireVars
<1>1. TypeOK'
  BY DEF IInv, TypeOK, TaskState
<1>2. Progress'
  BY DEF IInv, TypeOK, Progress, Answered, Handled
<1>3. ServerIsSane'
  BY DEF IInv, ServerIsSane
<1>4. ResponsesAreServers'
  BY DEF IInv, TypeOK, ResponsesAreServers
<1>5. ResultsAreServers'
  BY DEF IInv, TypeOK, ResultsAreServers
<1> QED
  BY <1>1, <1>2, <1>3, <1>4, <1>5 DEF IInv

LEMMA SendResultStep ==
    ASSUME IInv, NEW r \in Requests, SendResult(r)
    PROVE  IInv'
<1> USE DEF SendResult, Response, managerVars, brokerVars, wireVars
<1>1. TypeOK'
  <2>1. server[r] \in ResultType
    BY DEF IInv, TypeOK
  <2>2. Response(r, r) \in Messages
    BY <2>1 DEF Messages, ResultType
  <2> QED
    BY <2>2 DEF IInv, TypeOK
<1>2. Progress'
  BY DEF IInv, TypeOK, Progress, Answered, Handled
<1>3. ServerIsSane'
  BY DEF IInv, ServerIsSane
<1>4. ResponsesAreServers'
  BY DEF IInv, TypeOK, ResponsesAreServers
<1>5. ResultsAreServers'
  BY DEF IInv, TypeOK, ResultsAreServers
<1> QED
  BY <1>1, <1>2, <1>3, <1>4, <1>5 DEF IInv

LEMMA AddPairedDeviceStep ==
    ASSUME IInv, NEW d \in Devices, AddPairedDevice(d)
    PROVE  IInv'
<1> USE DEF AddPairedDevice, managerVars, brokerVars, wireVars
<1>1. TypeOK'
  BY DEF IInv, TypeOK
<1>2. Progress'
  BY DEF IInv, TypeOK, Progress, Answered, Handled
<1>3. ServerIsSane'
  BY DEF IInv, ServerIsSane
<1>4. ResponsesAreServers'
  BY DEF IInv, TypeOK, ResponsesAreServers
<1>5. ResultsAreServers'
  BY DEF IInv, TypeOK, ResultsAreServers
<1> QED
  BY <1>1, <1>2, <1>3, <1>4, <1>5 DEF IInv

LEMMA CompleteStep ==
    ASSUME IInv, NEW r \in Requests, HandleDeviceList(r) \/ HandleLastValue(r)
    PROVE  IInv'
<1>1. PICK x \in ResultType :
            /\ Complete(r, x) /\ task[r] \in {"started", "ready"}
            /\ r \in Lists => x.data.value \in SUBSET Devices
            /\ r \in LastValues => x.data.value \in SUBSET Values
            /\ x.status = SUCCESS => x.data.isSet
  <2> USE DEF ResultType, Status, PENDING, SUCCESS, FAILED
  <2>1. CASE HandleDeviceList(r)
    <3>1. paired \in SUBSET Devices /\ Is(paired) \in Data
      BY DataIsData DEF IInv, TypeOK
    <3>2. r \in Lists /\ r \notin LastValues
      BY <2>1, RequestsAssumption DEF HandleDeviceList
    <3> DEFINE x == [status |-> SUCCESS, data |-> Is(paired)]
    <3>3. x \in ResultType /\ x.data.value = paired /\ x.data.isSet
      BY <3>1 DEF Is
    <3>4. Complete(r, x) /\ task[r] = "ready"
      BY <2>1 DEF HandleDeviceList
    <3> QED
      BY <3>1, <3>2, <3>3, <3>4
  <2>2. CASE HandleLastValue(r)
    <3>1. \A v \in Values : Is({v}) \in Data
      BY DataIsData
    <3>2. r \in LastValues /\ r \notin Lists
      BY <2>2, RequestsAssumption DEF HandleLastValue
    <3>a. task[r] = "started"
      BY <2>2 DEF HandleLastValue
    <3>3. CASE \E v \in Values : Complete(r, [status |-> SUCCESS, data |-> Is({v})])
      BY <3>1, <3>2, <3>3, <3>a DEF Is
    <3>4. CASE Complete(r, [status |-> FAILED, data |-> Is({Zero})])
      BY <3>1, <3>2, <3>4, <3>a, ZeroAssumption DEF Is
    <3>5. CASE Complete(r, NoResult)
      <4>1. NoResult \in ResultType /\ NoResult.data.value = {} /\ NoResult.status # SUCCESS
        BY UnsetIsData DEF NoResult, Unset
      <4> QED
        BY <3>2, <3>5, <3>a, <4>1
    <3> QED
      BY <2>2, <3>3, <3>4, <3>5 DEF HandleLastValue
  <2> QED
    BY <2>1, <2>2
<1> USE DEF Complete, managerVars, brokerVars, wireVars
<1>2. results[r] = <<>> /\ ~ Answered(r) /\ job.id # r
  BY <1>1 DEF IInv, Progress
<1>3. TypeOK'
  BY <1>1 DEF IInv, TypeOK, TaskState
<1>4. Progress'
  BY <1>1, <1>2 DEF IInv, TypeOK, Progress, Answered, Handled
<1>5. ServerIsSane'
  BY <1>1 DEF IInv, TypeOK, ServerIsSane
<1>6. ResponsesAreServers'
  BY <1>1, <1>2 DEF IInv, TypeOK, ResponsesAreServers, Answered
<1>7. ResultsAreServers'
  BY <1>1, <1>2 DEF IInv, TypeOK, ResultsAreServers
<1> QED
  BY <1>3, <1>4, <1>5, <1>6, <1>7 DEF IInv

LEMMA InvStep == IInv /\ [Next]_vars => IInv'
<1> SUFFICES ASSUME IInv, [Next]_vars PROVE IInv'
  OBVIOUS
<1>1. ASSUME NEW r \in Requests, Manager(r) PROVE IInv'
  BY <1>1, SendStep, InsertStep, TakeListStep, TakeLastValueStep, RefuseLastValueStep
     DEF Manager
<1>2. ASSUME NEW r \in Requests, Broker(r) PROVE IInv'
  BY <1>2, ServeStep, CheckActionStep, StartActionStep, CompleteStep, ReleaseStep,
     SendResultStep DEF Broker
<1>3. CASE UNCHANGED vars
  BY <1>3 DEF vars, managerVars, brokerVars, wireVars, IInv, TypeOK, Progress, Answered, Handled,
              ServerIsSane, ResponsesAreServers, ResultsAreServers
<1> QED
  BY <1>1, <1>2, <1>3, CollectDirtyStep, ReceiveResponseStep, SetResponseStatusStep,
     SetResponseDataStep, AddPairedDeviceStep DEF Next

THEOREM InvAlways == Spec => []IInv
BY InitHolds, InvStep, PTL DEF Spec, SafeSpec

\* Every variable has its type; whatever the queue of a device manager hands
\* out is in m_table, so that the break of checkQueue()
\* (JablotronDeviceManager.cpp:133-136) is never taken.
THEOREM TypeCorrect == Spec => []TypeOK
<1>1. IInv => TypeOK
  BY DEF IInv
<1> QED
  BY <1>1, InvAlways, PTL

\* The unchecked look-up of ZMQBroker::checkQueue() (ZMQBroker.cpp:117-120)
\* always finds its entry.
THEOREM DirtyIsAlwaysRecorded == Spec => []DirtyIsRecorded
<1>1. IInv => DirtyIsRecorded
  BY DEF IInv, TypeOK, Progress, Handled, DirtyIsRecorded
<1> QED
  BY <1>1, InvAlways, PTL

\* No request is answered twice, and no Answer gets a second Result
\* (ZMQBroker.cpp:110-133, JablotronDeviceManager.cpp:128-166).
THEOREM ResponsesAreUnique == Spec => []OneResponse
<1>1. ASSUME IInv, NEW r \in Requests
      PROVE  Cardinality({m \in responses : m.id = r}) + Len(results[r]) <= 1
  <2>1. ASSUME NEW m \in responses, NEW n \in responses, m.id = n.id PROVE m = n
    <3>1. m \in Messages /\ n \in Messages
      BY <1>1 DEF IInv, TypeOK
    <3>2. m.status = n.status /\ m.data = n.data
      BY <1>1, <2>1 DEF IInv, ResponsesAreServers
    <3>3. /\ m = [id |-> m.id, status |-> m.status, data |-> m.data]
          /\ n = [id |-> n.id, status |-> n.status, data |-> n.data]
      BY <3>1 DEF Messages
    <3> QED
      BY <2>1, <3>2, <3>3
  <2> DEFINE S == {m \in responses : m.id = r}
  <2>2. ASSUME Answered(r) PROVE Cardinality(S) + Len(results[r]) <= 1
    <3>1. PICK m \in responses : m.id = r
      BY <2>2 DEF Answered
    <3>2. S = {m}
      BY <2>1, <3>1
    <3>3. results[r] = <<>>
      BY <1>1, <2>2 DEF IInv, Progress
    <3>4. Len(results[r]) = 0 /\ Cardinality({m}) = 1
      BY <3>3, FS_Singleton
    <3> HIDE DEF S
    <3> QED
      BY <3>2, <3>4
  <2>3. ASSUME ~ Answered(r) PROVE Cardinality(S) + Len(results[r]) <= 1
    <3>1. S = {}
      BY <2>3 DEF Answered
    <3>2. Len(results[r]) = 0 \/ Len(results[r]) = 1
      BY <1>1 DEF IInv, Progress
    <3> HIDE DEF S
    <3>3. Cardinality(S) = 0
      BY <3>1, FS_EmptySet
    <3>4. Cardinality(S) \in {0, 1} /\ 0 + 0 <= 1 /\ 0 + 1 <= 1
      BY <3>3
    <3>5. CASE Len(results[r]) = 0
      BY <3>3, <3>4, <3>5
    <3>6. CASE Len(results[r]) = 1
      BY <3>3, <3>4, <3>6
    <3> QED
      BY <3>2, <3>5, <3>6
  <2>4. Cardinality(S) + Len(results[r]) <= 1
    BY <2>2, <2>3
  <2> QED
    BY <2>4
<1>2. IInv => OneResponse
  BY <1>1 DEF OneResponse
<1> QED
  BY <1>2, InvAlways, PTL

\* A device manager never takes the answer to one request for that to another
\* (ZMQMessage.cpp:521-548, ZMQBroker.cpp:110-133).
THEOREM ResultsAreAlwaysServers == Spec => []ResultsAreServers
<1>1. IInv => ResultsAreServers
  BY DEF IInv
<1> QED
  BY <1>1, InvAlways, PTL

----------------------------------------------------------------------------
(* The refinement. *)

Same == UNCHANGED <<Asked, Said, results, devices>>

LEMMA AskStep ==
    ASSUME IInv, NEW r \in Requests, Send(r) PROVE Queries!Ask(r)
<1>1. r \notin Asked /\ Asked' = Asked \cup {r}
  BY DEF Send, Asked, IInv, TypeOK
<1>2. Said' = Said /\ results' = results
  BY DEF Send, Said, Handled, brokerVars
<1>3. devices' = IF r \in Lists THEN {} ELSE devices
  BY DEF Send
<1> QED
  BY <1>1, <1>2, <1>3 DEF Queries!Ask

\* The server's handler says something that it may say, once.
LEMMA SayStep ==
    ASSUME IInv, IInv', NEW r \in Requests, HandleDeviceList(r) \/ HandleLastValue(r)
    PROVE  \E x \in Possible[r] : Queries!Say(r, x)
<1>1. PICK x : Complete(r, x)
  BY DEF HandleDeviceList, HandleLastValue
<1>2. /\ ~ Handled(r) /\ task' = [task EXCEPT ![r] = "holding"]
      /\ server' = [server EXCEPT ![r] = x]
      /\ UNCHANGED <<pc, results, devices>>
  BY <1>1 DEF HandleDeviceList, HandleLastValue, Handled, Complete, managerVars
<1>3. server'[r] = x /\ x \in ResultType
  <2>1. server' \in [Requests -> ResultType] /\ server \in [Requests -> ResultType]
    BY DEF IInv, TypeOK
  <2> QED
    BY <1>2, <2>1
<1>4. x \in Possible[r]
  <2>1. /\ r \in Lists => x.data.value \in SUBSET Devices
        /\ r \in LastValues => x.data.value \in SUBSET Values
        /\ x.status = SUCCESS => x.data.isSet
    BY <1>3 DEF IInv, ServerIsSane
  <2> QED
    BY <1>3, <2>1 DEF Possible, Requests
<1>5. Said[r] = <<>> /\ Said' = [Said EXCEPT ![r] = <<x>>]
  BY <1>2 DEF Said, Handled, IInv, TypeOK
<1>6. r \in Asked /\ Asked' = Asked
  <2>1. task[r] # "none"
    BY DEF HandleDeviceList, HandleLastValue
  <2> QED
    BY <1>2, <2>1 DEF Asked, IInv, Progress
<1>7. Queries!Say(r, x)
  BY <1>2, <1>5, <1>6 DEF Queries!Say
<1> QED
  BY <1>4, <1>7

\* A Result gets what the server has said, or keeps what it has.
LEMMA LearnIs ==
    ASSUME IInv, NEW r \in Requests, task[r] = "done", NEW x \in ResultType,
           results' = [results EXCEPT ![r] = <<x>>],
           LET before == IF results[r] = <<>> THEN NoResult ELSE results[r][1] IN
             x.status \in {before.status, server[r].status} /\ x.data \in {before.data, server[r].data},
           UNCHANGED <<pc, task, server, devices>>
    PROVE  Queries!Learn(r)
<1>1. Said[r] = <<server[r]>> /\ Said[r] # <<>> /\ Said[r][1] = server[r]
  BY DEF Said, Handled
<1>2. x = [status |-> x.status, data |-> x.data]
  BY DEF ResultType
<1>3. Asked' = Asked /\ Said' = Said
  BY DEF Asked, Said, Handled
<1> QED
  BY <1>1, <1>2, <1>3 DEF Queries!Learn

LEMMA ReceiveLearns ==
    ASSUME IInv, NEW m \in responses, ReceiveResponse(m)
    PROVE  Queries!Learn(m.id) \/ Same
<1>1. /\ m.id \in Requests /\ results[m.id] = <<>> /\ task[m.id] = "done"
      /\ UNCHANGED <<pc, task, server, devices>>
  BY DEF IInv, TypeOK, Messages, Progress, Answered, ReceiveResponse, brokerVars
<1>2. CASE m.id \in table
  <2>1. results' = [results EXCEPT ![m.id] = <<NoResult>>]
    <3>1. results' = [results EXCEPT ![m.id] = Append(results[m.id], NoResult)]
      BY <1>2 DEF ReceiveResponse
    <3>2. Append(<<>>, NoResult) = <<NoResult>>
      OBVIOUS
    <3> QED
      BY <1>1, <3>1, <3>2
  <2> QED
    BY <1>1, <2>1, UnsetIsData, LearnIs
<1>3. CASE m.id \notin table
  <2>1. results' = results
    BY <1>3 DEF ReceiveResponse
  <2> QED
    BY <1>1, <2>1 DEF Same, Asked, Said, Handled
<1> QED
  BY <1>2, <1>3

\* A sequence of one Result is its first.
LEMMA OneResult ==
    ASSUME NEW s \in Seq(ResultType), Len(s) = 1, NEW x \in ResultType
    PROVE  [s EXCEPT ![1] = x] = <<x>>
<1>1. DOMAIN s = {1}
  OBVIOUS
<1>2. [s EXCEPT ![1] = x] = [i \in {1} |-> x]
  BY <1>1
<1>3. <<x>> = [i \in {1} |-> x]
  OBVIOUS
<1> QED
  BY <1>2, <1>3

LEMMA StatusLearns ==
    ASSUME IInv, SetResponseStatus
    PROVE  Queries!Learn(job.id) \/ Same
<1>1. job # Idle
  BY DEF SetResponseStatus, Idle
<1>2. /\ job.id \in Requests /\ results[job.id] # <<>>
      /\ results[job.id] \in Seq(ResultType) /\ Len(results[job.id]) = 1
      /\ job.status \in Status /\ job.status = server[job.id].status
      /\ task[job.id] = "done"
      /\ UNCHANGED <<pc, task, server, devices>>
  BY <1>1, JobInWork DEF IInv, ResponsesAreServers, Progress, SetResponseStatus, brokerVars
<1>3. CASE job.status > PENDING
  <2> DEFINE x == [results[job.id][1] EXCEPT !.status = job.status]
  <2>1. x \in ResultType /\ x.status = job.status /\ x.data = results[job.id][1].data
    BY <1>2, ResultTypeParts, FirstResult DEF ResultType
  <2>2. results' = [results EXCEPT ![job.id] = [results[job.id] EXCEPT ![1] = x]]
    BY <1>2, <1>3 DEF IInv, TypeOK, SetResponseStatus
  <2> HIDE DEF x
  <2>3. results' = [results EXCEPT ![job.id] = <<x>>]
    BY <1>2, <2>1, <2>2, OneResult
  <2> QED
    BY <1>2, <2>1, <2>3, LearnIs
<1>4. CASE ~ (job.status > PENDING)
  <2>1. results' = results
    BY <1>4 DEF SetResponseStatus
  <2> QED
    BY <1>2, <2>1 DEF Same, Asked, Said, Handled
<1> QED
  BY <1>3, <1>4

LEMMA DataLearns ==
    ASSUME IInv, SetResponseData
    PROVE  Queries!Learn(job.id)
<1>1. job # Idle
  BY DEF SetResponseData, Idle
<1>2. /\ job.id \in Requests /\ results[job.id] # <<>>
      /\ results[job.id] \in Seq(ResultType) /\ Len(results[job.id]) = 1
      /\ job.data \in Data /\ job.data = server[job.id].data
      /\ task[job.id] = "done"
      /\ UNCHANGED <<pc, task, server, devices>>
  BY <1>1, JobInWork DEF IInv, ResponsesAreServers, Progress, SetResponseData, brokerVars
<1> DEFINE x == [results[job.id][1] EXCEPT !.data = job.data]
<1>3. x \in ResultType /\ x.data = job.data /\ x.status = results[job.id][1].status
  BY <1>2, ResultTypeParts, FirstResult DEF ResultType
<1>4. results' = [results EXCEPT ![job.id] = [results[job.id] EXCEPT ![1] = x]]
  BY <1>2 DEF IInv, TypeOK, SetResponseData
<1> HIDE DEF x
<1>5. results' = [results EXCEPT ![job.id] = <<x>>]
  BY <1>2, <1>3, <1>4, OneResult
<1> QED
  BY <1>2, <1>3, <1>5, LearnIs

LEMMA QueryStep ==
    IInv /\ IInv' /\ [Next]_vars => [Queries!Next]_(Queries!queryVars)
<1> SUFFICES ASSUME IInv, IInv', [Next]_vars PROVE Queries!Next \/ Same
  BY DEF Queries!queryVars, Same
<1>1. ASSUME NEW r \in Requests, TakeList(r) PROVE Queries!Take(r) /\ r \in Lists
  <2>1. r \in Lists /\ results[r] # <<>> /\ devices' = results[r][1].data.value
    BY <1>1 DEF TakeList, Visit, IInv, Progress
  <2>2. Asked' = Asked /\ Said' = Said /\ results' = results
    BY <1>1 DEF TakeList, brokerVars, Asked, Said, Handled
  <2> QED
    BY <2>1, <2>2 DEF Queries!Take
<1>2. ASSUME NEW r \in Requests, Insert(r) PROVE Same
  <2>1. Asked' = Asked
    BY <1>2 DEF Insert, Asked, IInv, TypeOK
  <2> QED
    BY <1>2, <2>1 DEF Insert, Same, Said, Handled, brokerVars
<1>3. ASSUME NEW r \in Requests, TakeLastValue(r) \/ RefuseLastValue(r) \/ SendResult(r)
      PROVE  Same
  <2>1. UNCHANGED <<pc, task, server, results, devices>>
    BY <1>3 DEF TakeLastValue, RefuseLastValue, SendResult, managerVars, brokerVars
  <2> QED
    BY <2>1 DEF Same, Asked, Said, Handled
<1>4. ASSUME NEW r \in Requests,
             ServeRequest(r) \/ RefuseRequest(r) \/ CheckAction(r) \/ StartAction(r) \/ Release(r)
      PROVE  Same
  <2>1. PICK t \in TaskState :
            /\ task' = [task EXCEPT ![r] = t]
            /\ t \in {"holding", "done"} <=> Handled(r)
    BY <1>4 DEF ServeRequest, RefuseRequest, Serve, CheckAction, StartAction, Release,
                Handled, TaskState, IInv, Progress
  <2>2. \A q \in Requests : (Handled(q))' <=> Handled(q)
    BY <2>1 DEF Handled, IInv, TypeOK
  <2>3. UNCHANGED <<pc, server, results, devices>>
    BY <1>4 DEF ServeRequest, RefuseRequest, Serve, CheckAction, StartAction, Release, managerVars
  <2> QED
    BY <2>2, <2>3 DEF Same, Asked, Said
<1>5. CASE CollectDirty \/ UNCHANGED vars \/ \E d \in Devices : AddPairedDevice(d)
  <2>1. UNCHANGED <<pc, task, server, results, devices>>
    BY <1>5 DEF CollectDirty, AddPairedDevice, vars, managerVars, brokerVars
  <2> QED
    BY <2>1 DEF Same, Asked, Said, Handled
<1>6. ASSUME NEW r \in Requests, Manager(r) PROVE Queries!Next \/ Same
  BY <1>1, <1>2, <1>3, <1>6, AskStep DEF Manager, Queries!Next
<1>7. ASSUME NEW r \in Requests, Broker(r) PROVE Queries!Next \/ Same
  BY <1>3, <1>4, <1>7, SayStep DEF Broker, Queries!Next
<1>8. ASSUME NEW m \in responses, ReceiveResponse(m) PROVE Queries!Next \/ Same
  <2>1. m.id \in Requests
    BY DEF IInv, TypeOK, Messages
  <2> QED
    BY <1>8, <2>1, ReceiveLearns DEF Queries!Next
<1>9. CASE SetResponseStatus \/ SetResponseData
  <2>1. job.id \in Requests
    BY <1>9, JobInWork DEF SetResponseStatus, SetResponseData, Idle
  <2> QED
    BY <1>9, <2>1, StatusLearns, DataLearns DEF Queries!Next
<1> QED
  BY <1>5, <1>6, <1>7, <1>8, <1>9 DEF Next

\* A request is answered once, what the device manager learns was said in answer
\* to it, and the devices it takes over are those of such an answer, for any
\* requests, devices and values (JablotronDeviceManager.cpp:85-166,
\* ZMQBroker.cpp:106-133 and 279-303).
THEOREM RequestsAreQueries == Spec => ImplementsQueries
<1>1. Init => Queries!Init
  BY DEF Init, Queries!Init, Asked, Said, Handled
<1>2. IInv /\ IInv' /\ [Next]_vars => [Queries!Next]_(Queries!queryVars)
  BY QueryStep
<1> QED
  BY <1>1, <1>2, InvAlways, PTL DEF Spec, SafeSpec, ImplementsQueries, Queries!Spec
=============================================================================
