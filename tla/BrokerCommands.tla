---------------------------- MODULE BrokerCommands ----------------------------
(***************************************************************************)
(* zmq/ZMQBroker as a command handler: handle() runs in a pool thread for  *)
(* every command, sends it to the registered device managers over the one  *)
(* data socket and leaves a Result in m_cmdTable, which the broker's own   *)
(* thread finishes when the DEFAULT_RESULT of the device manager arrives.  *)
(*                                                                         *)
(* A message to the ROUTER socket is sent as two frames, the identity and  *)
(* the body.  No lock keeps the frames of two handlers apart: frames that  *)
(* are interleaved form one message, routed by its first frame.  (ZeroMQ   *)
(* leaves the use of a socket by two threads undefined; the order of whole *)
(* frames is the outcome modelled here.)                                   *)
(***************************************************************************)
EXTENDS Naturals

CONSTANTS
    Commands,   \* commands dispatched to the broker
    SetValues,  \* those that are DeviceSetValueCommands, no two for one device
    Managers,   \* device managers, as identities of the data socket
    Targets,    \* Targets[c]: managers whose prefix c is for; all for a listen
    Connected,  \* managers whose client is there under its identity
    Repliers,   \* managers that answer a command with a DEFAULT_RESULT
    None

ASSUME TargetsAssumption ==
    SetValues \subseteq Commands /\ Targets \in [Commands -> SUBSET Managers]
ASSUME RepliersAssumption == Repliers \subseteq Managers /\ Connected \subseteq Managers
ASSUME NoneAssumption == None \notin Managers

PENDING == 0
SUCCESS == 1
FAILED == 2

\* The id of a message is random: it stands for the command and the manager.
MessageID == Commands \X Managers

VARIABLES
    registered, \* m_deviceManagersTable
    pc,         \* progress of handle() for every command
    todo,       \* managers the loop of handle() has still to visit
    current,    \* the manager of the current iteration
    result,     \* status of the Results, of those created so far
    cmdTable,   \* keys of m_cmdTable
    settings,   \* m_settingTable
    expired,    \* the commands of m_settingTable past their endTime
    timerFails, \* a call of checkSettingTable() has thrown
    outgoing,   \* identity of the message being sent on the data socket
    inbox,      \* commands delivered to the client of a manager
    executed,   \* history: which manager executed which message, and how
    replies     \* DEFAULT_RESULTs under way to the broker

handlerVars == <<pc, todo, current>>
tableVars == <<result, cmdTable>>
timerVars == <<settings, expired, timerFails>>
wireVars == <<outgoing, inbox, executed, replies>>
vars == <<registered, handlerVars, tableVars, timerVars, wireVars>>

Init ==
    /\ registered = {}
    /\ pc = [c \in Commands |-> "new"]
    /\ todo = [c \in Commands |-> {}]
    /\ current = [c \in Commands |-> None]
    /\ result = [id \in {} |-> PENDING]
    /\ cmdTable = {}
    /\ settings = {}
    /\ expired = {}
    /\ timerFails = FALSE
    /\ outgoing = None
    /\ inbox = [m \in Managers |-> {}]
    /\ executed = {}
    /\ replies = {}

Goto(c, label) == pc' = [pc EXCEPT ![c] = label]

----------------------------------------------------------------------------
(* handle() in a pool thread. *)

\* registerDeviceManager() in the broker's thread.
Register(m) ==
    /\ m \notin registered
    /\ registered' = registered \cup {m}
    /\ UNCHANGED <<handlerVars, tableVars, timerVars, wireVars>>

\* accept(): a set value needs a registered manager of its prefix.
Accepts(c) == c \in SetValues => registered \cap Targets[c] # {}

\* handle() takes its copy of the table and notes a set value.
Handle(c) ==
    /\ pc[c] = "new"
    /\ Accepts(c)
    /\ todo' = [todo EXCEPT ![c] = registered \cap Targets[c]]
    /\ settings' = IF c \in SetValues THEN settings \cup {c} ELSE settings
    /\ Goto(c, "loop")
    /\ UNCHANGED <<registered, current, tableVars, expired, timerFails, wireVars>>

\* Faulty Record: the Result is entered into m_cmdTable after the message.
RecordLater(c, m) ==
    /\ pc[c] = "loop"
    /\ m \in todo[c]
    /\ current' = [current EXCEPT ![c] = m]
    /\ result' = [id \in DOMAIN result \cup {<<c, m>>} |->
                    IF id = <<c, m>> THEN PENDING ELSE result[id]]
    /\ cmdTable' = cmdTable \cup ((DOMAIN result) \ {<<c, m>>})
    /\ Goto(c, "identity")
    /\ UNCHANGED <<registered, todo, timerVars, wireVars>>

\* An iteration: fromCommand() draws an id, m_cmdTable gets a new Result.
Record(c, m) ==
    /\ pc[c] = "loop"
    /\ m \in todo[c]
    /\ current' = [current EXCEPT ![c] = m]
    /\ result' = [id \in DOMAIN result \cup {<<c, m>>} |->
                    IF id = <<c, m>> THEN PENDING ELSE result[id]]
    /\ cmdTable' = cmdTable \cup {<<c, m>>}
    /\ Goto(c, "identity")
    /\ UNCHANGED <<registered, todo, timerVars, wireVars>>

\* sendMultipart(identity): the first frame decides where the message goes.
SendIdentity(c) ==
    /\ pc[c] = "identity"
    /\ outgoing' = IF outgoing = None THEN current[c] ELSE outgoing
    /\ Goto(c, "body")
    /\ UNCHANGED <<registered, todo, current, tableVars, timerVars, inbox,
                   executed, replies>>

\* Faulty SendBody: the body is sent once more, as by a retry.
SendBodyTwice(c) ==
    /\ pc[c] = "body"
    /\ inbox' = IF outgoing \in Connected
                  THEN [inbox EXCEPT ![outgoing] = @ \cup {<<c, current[c]>>}]
                  ELSE inbox
    /\ outgoing' = None
    /\ \/ todo' = [todo EXCEPT ![c] = @ \ {current[c]}] /\ Goto(c, "loop")
       \/ Goto(c, "identity") /\ UNCHANGED todo
    /\ UNCHANGED <<registered, current, tableVars, timerVars, executed, replies>>

\* send(body) completes the message.  It is dropped when its client is not
\* there, or when the body is the only frame.
SendBody(c) ==
    /\ pc[c] = "body"
    /\ inbox' = IF outgoing \in Connected
                  THEN [inbox EXCEPT ![outgoing] = @ \cup {<<c, current[c]>>}]
                  ELSE inbox
    /\ outgoing' = None
    /\ todo' = [todo EXCEPT ![c] = @ \ {current[c]}]
    /\ Goto(c, "loop")
    /\ UNCHANGED <<registered, current, tableVars, timerVars, executed, replies>>

Return(c) ==
    /\ pc[c] = "loop"
    /\ todo[c] = {}
    /\ Goto(c, "returned")
    /\ UNCHANGED <<registered, todo, current, tableVars, timerVars, wireVars>>

----------------------------------------------------------------------------
(* Device managers and the broker's own threads. *)

\* A device manager receives a command in onEvent() and executes it.
Execute(m, id, s) ==
    /\ id \in inbox[m]
    /\ inbox' = [inbox EXCEPT ![m] = @ \ {id}]
    /\ executed' = executed \cup {[id |-> id, by |-> m, status |-> s]}
    /\ replies' = IF m \in Repliers
                    THEN replies \cup {[id |-> id, status |-> s]} ELSE replies
    /\ UNCHANGED <<registered, handlerVars, tableVars, timerVars, outgoing>>

\* Faulty DoDefaultResult: finishes the first Result of the Answer.
FinishAnyResult(r) ==
    /\ r \in replies
    /\ replies' = replies \ {r}
    /\ \E id \in cmdTable : id[1] = r.id[1]
    /\ result' = [result EXCEPT ![CHOOSE id \in cmdTable : id[1] = r.id[1]] =
                    IF r.status > @ THEN r.status ELSE @]
    /\ UNCHANGED <<registered, handlerVars, cmdTable, timerVars, outgoing, inbox,
                   executed>>

\* doDefaultResult() -> toDefaultResult() -> Result::setStatus(): a status that
\* is not higher changes nothing (a lower one throws, which the caller logs).
DoDefaultResult(r) ==
    /\ r \in replies
    /\ replies' = replies \ {r}
    /\ r.id \in cmdTable
    /\ result' = [result EXCEPT ![r.id] = IF r.status > @ THEN r.status ELSE @]
    /\ UNCHANGED <<registered, handlerVars, cmdTable, timerVars, outgoing, inbox,
                   executed>>

\* The endTime of an entry of m_settingTable passes.
Expire(c) ==
    /\ c \in settings \ expired
    /\ expired' = expired \cup {c}
    /\ UNCHANGED <<registered, handlerVars, tableVars, settings, timerFails, wireVars>>

\* checkSettingTable() in the timer's thread: the Result of an entry is not a
\* DeviceSetValueResult, so the cast gives null and its use throws before any
\* status is set or any entry erased.
CheckSettingTable ==
    /\ \E c \in settings : \E id \in DOMAIN result : id[1] = c
    /\ timerFails' = TRUE
    /\ UNCHANGED <<registered, handlerVars, tableVars, settings, expired, wireVars>>

----------------------------------------------------------------------------

Handler(c) ==
    \/ Handle(c)
    \/ \E m \in Managers : Record(c, m)
    \/ SendIdentity(c)
    \/ SendBody(c)
    \/ Return(c)

Next ==
    \/ \E m \in Managers :
         \/ Register(m)
         \/ \E id \in MessageID, s \in {SUCCESS, FAILED} : Execute(m, id, s)
    \/ \E c \in Commands : Handler(c) \/ Expire(c)
    \/ \E r \in replies : DoDefaultResult(r)
    \/ CheckSettingTable

SafeSpec == Init /\ [][Next]_vars

\* A started handler goes on, delivered commands are executed, the broker
\* polls its socket, and time passes.  Nobody has to register or to dispatch.
Fairness ==
    /\ \A c \in Commands :
         /\ WF_vars((\E m \in Managers : Record(c, m)) \/ SendIdentity(c) \/ SendBody(c)
                    \/ Return(c))
         /\ WF_vars(Expire(c))
    /\ \A m \in Managers, id \in MessageID :
         WF_vars(\E s \in {SUCCESS, FAILED} : Execute(m, id, s))
    /\ \A id \in MessageID :
         WF_vars(\E s \in {SUCCESS, FAILED} : DoDefaultResult([id |-> id, status |-> s]))
    /\ WF_vars(CheckSettingTable)

Spec == SafeSpec /\ Fairness

----------------------------------------------------------------------------
(* Properties. *)

Replies == [id : MessageID, status : {SUCCESS, FAILED}]

\* Every variable has its type; m_cmdTable holds the Results of handle().
TypeOK ==
    /\ registered \in SUBSET Managers
    /\ pc \in [Commands -> {"new", "loop", "identity", "body", "returned"}]
    /\ todo \in [Commands -> SUBSET Managers]
    /\ current \in [Commands -> Managers \cup {None}]
    /\ cmdTable \in SUBSET MessageID
    /\ result \in [cmdTable -> {PENDING, SUCCESS, FAILED}]
    /\ settings \in SUBSET SetValues
    /\ expired \in SUBSET settings
    /\ timerFails \in BOOLEAN
    /\ outgoing \in Managers \cup {None}
    /\ inbox \in [Managers -> SUBSET MessageID]
    /\ executed \in SUBSET [id : MessageID, by : Managers, status : {SUCCESS, FAILED}]
    /\ replies \in SUBSET Replies

\* doDefaultResult() dereferences its iterator without a check
\* (ZMQBroker.cpp:305-315): a reply is never faster than the entry it needs.
RepliesAreKnown == \A r \in replies : r.id \in cmdTable

\* A Result is finished by the reply to its own message only, whatever other
\* commands and managers do meanwhile.
ResultsAreGenuine ==
    \A id \in DOMAIN result :
        result[id] # PENDING =>
            \E e \in executed : e.id = id /\ e.status = result[id]

\* No message is executed twice, by one manager or by two, even when frames
\* are interleaved.
ExecutedOnce ==
    \A d, e \in executed : d.id = e.id => d = e

\* A message for every manager that a command is for, and what its Result shows.
Addressed == {id \in MessageID : id[2] \in Targets[id[1]]}
Shown == [id \in Addressed |-> IF id \in cmdTable THEN result[id] ELSE PENDING]

Board == INSTANCE CommandBoard WITH
    Messages <- Addressed, Pending <- PENDING, Final <- {SUCCESS, FAILED},
    opened <- cmdTable, done <- executed, shown <- Shown

\* However handlers, frames, executions and replies interleave, each message is
\* for a manager that its command is for, has its Result first, is executed once
\* at most, and then finishes this Result once (ZMQBroker.cpp:61-91, 305-315).
ImplementsBoard == Board!Spec

\* Every reply finishes its Result.
RepliesArriveAtResults ==
    \A id \in MessageID :
        (\E r \in replies : r.id = id)
            ~> (id \in DOMAIN result /\ result[id] # PENDING)

\* CommandHandler.h:38-39, handle() "is likely to be called concurrently. It
\* must be implemented in a thread-safe way": no command is executed by
\* another device manager than the one handle() sent it to.
ExecutedByAddressee == \A e \in executed : e.by = e.id[2]
=============================================================================
