--------------------------- MODULE CommandExecution ---------------------------
(***************************************************************************)
(* core/CommandDispatcher, core/CommandRunner and the command half of      *)
(* core/Answer: a command is given to every handler that accepts it, each  *)
(* handler runs in a thread of Poco's default pool, adds Results to the    *)
(* shared Answer and sets their status, itself or later from the thread    *)
(* that receives a reply.                                                  *)
(*                                                                         *)
(* The notification of the waiting queue is the mailbox that AnswerQueue   *)
(* is shown to implement (UpdateMailbox): `unseen` holds the Answers with  *)
(* an update their waiter has not collected.                               *)
(***************************************************************************)
EXTENDS Naturals, FiniteSets, Sequences

CONSTANTS
    Answers,      \* Answers given to dispatch(), one command each
    Handlers,     \* registered CommandHandlers
    Acceptors,    \* Acceptors[a]: sets of handlers that may accept a's command
    ResultCounts, \* ResultCounts[h]: numbers of Results a complete handle() adds
    PoolCapacity, \* threads of Poco::ThreadPool::defaultPool()
    None

ASSUME HandlersAssumption == IsFiniteSet(Handlers)
ASSUME CountsAssumption == ResultCounts \in [Handlers -> SUBSET Nat]
ASSUME AcceptorsAssumption == Acceptors \in [Answers -> SUBSET SUBSET Handlers]
ASSUME PoolAssumption == PoolCapacity \in Nat /\ None \notin Answers

PENDING == 0
SUCCESS == 1
FAILED == 2
Status == {PENDING, SUCCESS, FAILED}

VARIABLES
    phase,       \* progress of dispatch() on every Answer
    dispatching, \* the Answer whose dispatch() holds the dispatcher's mutex
    commands,    \* m_commands
    task,        \* task[a][h]: the CommandRunner of handler h for Answer a
    results,     \* m_resultList: who added the Result, and its m_status
    unseen,      \* Answers with a notification not collected yet
    observed     \* history: what the waiter found when it last collected

vars == <<phase, dispatching, commands, task, results, unseen, observed>>

\* A CommandRunner is not created, in m_commandList, run by the pool, or done.
TaskState == {"none", "listed", "running", "finished", "failed"}

Init ==
    /\ phase = [a \in Answers |-> "new"]
    /\ dispatching = None
    /\ commands = [a \in Answers |-> 0]
    /\ task = [a \in Answers |-> [h \in Handlers |-> "none"]]
    /\ results = [a \in Answers |-> <<>>]
    /\ unseen = {}
    /\ observed = [a \in Answers |-> "nothing"]

TasksIn(a, states) == {h \in Handlers : task[a][h] \in states}

Busy == {x \in Answers \X Handlers : task[x[1]][x[2]] = "running"}

ResultsOf(a, h) == {i \in DOMAIN results[a] : results[a][i].by = h}

\* Faulty IsPending: looks at the Results that exist and never counts them.
IsPendingByStatus(a) ==
    commands[a] # 0 /\ \E i \in DOMAIN results[a] : results[a][i].status = PENDING

\* Answer::isPendingUnlocked().
IsPending(a) ==
    \/ commands[a] # Len(results[a])
    \/ /\ commands[a] # 0
       /\ \E i \in DOMAIN results[a] : results[a][i].status = PENDING

\* dispatch() holds the Answer's lock from isPendingUnlocked() to its end.
Unlocked(a) == phase[a] # "starting"

----------------------------------------------------------------------------
(* CommandDispatcher::dispatch() *)

\* Faulty AddCommands: dispatch() does not take the dispatcher's mutex.
AddCommandsUnguarded(a, accepting) ==
    /\ phase[a] = "new"
    /\ dispatching' = a
    /\ phase' = [phase EXCEPT ![a] = "starting"]
    /\ task' = [task EXCEPT ![a] =
                  [h \in Handlers |-> IF h \in accepting THEN "listed" ELSE "none"]]
    /\ commands' = [commands EXCEPT ![a] = Cardinality(accepting)]
    /\ UNCHANGED <<results, unseen, observed>>

\* The loop over the handlers: addCommand() for each one that accepts.
AddCommands(a, accepting) ==
    /\ phase[a] = "new"
    /\ dispatching = None
    /\ dispatching' = a
    /\ phase' = [phase EXCEPT ![a] = "starting"]
    /\ task' = [task EXCEPT ![a] =
                  [h \in Handlers |-> IF h \in accepting THEN "listed" ELSE "none"]]
    /\ commands' = [commands EXCEPT ![a] = Cardinality(accepting)]
    /\ UNCHANGED <<results, unseen, observed>>

Leave(a) ==
    /\ dispatching' = None
    /\ phase' = [phase EXCEPT ![a] = "dispatched"]

\* Nobody accepted: the waiter is told at once.
NotifyUnsupported(a) ==
    /\ phase[a] = "starting"
    /\ ~ IsPending(a)
    /\ unseen' = unseen \cup {a}
    /\ Leave(a)
    /\ UNCHANGED <<commands, task, results, observed>>

\* One iteration of runCommands(): TaskManager::start() finds a free thread.
StartCommand(a, h) ==
    /\ phase[a] = "starting"
    /\ IsPending(a)
    /\ task[a][h] = "listed"
    /\ Cardinality(Busy) < PoolCapacity
    /\ task' = [task EXCEPT ![a][h] = "running"]
    /\ UNCHANGED <<phase, dispatching, commands, results, unseen, observed>>

\* Faulty NoThreadAvailable: dispatch() waits for a thread, still holding the
\* Answer's lock that its running handlers need.
WaitForThread(a) == phase[a] = "starting" /\ FALSE

\* TaskManager::start() throws NoThreadAvailableException, which leaves
\* dispatch(): the rest of m_commandList is never started.
NoThreadAvailable(a) ==
    /\ phase[a] = "starting"
    /\ TasksIn(a, {"listed"}) # {}
    /\ Cardinality(Busy) >= PoolCapacity
    /\ Leave(a)
    /\ UNCHANGED <<commands, task, results, unseen, observed>>

\* All commands are started, m_commandList is cleared.
EndDispatch(a) ==
    /\ phase[a] = "starting"
    /\ IsPending(a)
    /\ TasksIn(a, {"listed"}) = {}
    /\ Leave(a)
    /\ UNCHANGED <<commands, task, results, unseen, observed>>

----------------------------------------------------------------------------
(* CommandRunner::runTask() -> CommandHandler::handle() in a pool thread. *)

\* new Result(answer): Answer::addResult(), PENDING, no notification.
AddResult(a, h) ==
    /\ task[a][h] = "running"
    /\ Unlocked(a)
    /\ \E n \in ResultCounts[h] : Cardinality(ResultsOf(a, h)) < n
    /\ results' = [results EXCEPT ![a] = Append(@, [by |-> h, status |-> PENDING])]
    /\ UNCHANGED <<phase, dispatching, commands, task, unseen, observed>>

\* Faulty SetStatus: only a success is notified.
SetStatusQuietly(a, i, s) ==
    /\ Unlocked(a)
    /\ i \in DOMAIN results[a]
    /\ s > results[a][i].status
    /\ results' = [results EXCEPT ![a][i].status = s]
    /\ unseen' = IF s = SUCCESS THEN unseen \cup {a} ELSE unseen
    /\ UNCHANGED <<phase, dispatching, commands, task, observed>>

\* Faulty SetStatus: a late reply may take a status back.
SetAnyStatus(a, i, s) ==
    /\ Unlocked(a)
    /\ i \in DOMAIN results[a]
    /\ s # results[a][i].status
    /\ results' = [results EXCEPT ![a][i].status = s]
    /\ unseen' = unseen \cup {a}
    /\ UNCHANGED <<phase, dispatching, commands, task, observed>>

\* Result::setStatus(), by the handler or by the thread that received the
\* reply to what the handler sent: a higher status is stored and notified.
SetStatus(a, i, s) ==
    /\ Unlocked(a)
    /\ i \in DOMAIN results[a]
    /\ s > results[a][i].status
    /\ results' = [results EXCEPT ![a][i].status = s]
    /\ unseen' = unseen \cup {a}
    /\ UNCHANGED <<phase, dispatching, commands, task, observed>>

\* handle() returns.
Finish(a, h) ==
    /\ task[a][h] = "running"
    /\ Cardinality(ResultsOf(a, h)) \in ResultCounts[h]
    /\ task' = [task EXCEPT ![a][h] = "finished"]
    /\ UNCHANGED <<phase, dispatching, commands, results, unseen, observed>>

\* handle() throws: CommandProgressHandler::onFailed() only logs it, the
\* Results added so far stay as they are.
Fail(a, h) ==
    /\ task[a][h] = "running"
    /\ task' = [task EXCEPT ![a][h] = "failed"]
    /\ UNCHANGED <<phase, dispatching, commands, results, unseen, observed>>

----------------------------------------------------------------------------

\* The thread that waits on the queue collects the Answer and looks at it.
Collect(a) ==
    /\ a \in unseen
    /\ Unlocked(a)
    /\ unseen' = unseen \ {a}
    /\ observed' = [observed EXCEPT ![a] =
                      IF IsPending(a) THEN "pending" ELSE "complete"]
    /\ UNCHANGED <<phase, dispatching, commands, task, results>>

Dispatch(a) ==
    \/ \E accepting \in Acceptors[a] : AddCommands(a, accepting)
    \/ NotifyUnsupported(a)
    \/ \E h \in Handlers : StartCommand(a, h)
    \/ NoThreadAvailable(a)
    \/ EndDispatch(a)

Run(a, h) == AddResult(a, h) \/ Finish(a, h) \/ Fail(a, h)

Next ==
    \E a \in Answers :
        \/ Dispatch(a)
        \/ \E h \in Handlers : Run(a, h)
        \/ \E i \in DOMAIN results[a], s \in Status : SetStatus(a, i, s)
        \/ Collect(a)

SafeSpec == Init /\ [][Next]_vars

\* dispatch(), a started handler and the thread waiting on the queue go on.
\* Nothing obliges a handler to throw or a device manager to answer.
Fairness ==
    \A a \in Answers :
        /\ WF_vars(NotifyUnsupported(a) \/ NoThreadAvailable(a) \/ EndDispatch(a)
                   \/ \E h \in Handlers : StartCommand(a, h))
        /\ \A h \in Handlers : WF_vars(AddResult(a, h) \/ Finish(a, h))
        /\ WF_vars(Collect(a))

Spec == SafeSpec /\ Fairness

----------------------------------------------------------------------------
(* Properties. *)

ResultType == [by : Handlers, status : Status]

\* Every variable has its type, m_commands counts the CommandRunners, and only
\* the Answer being dispatched is locked by dispatch().
TypeOK ==
    /\ phase \in [Answers -> {"new", "starting", "dispatched"}]
    /\ dispatching \in Answers \cup {None}
    /\ \A a \in Answers : phase[a] = "starting" <=> dispatching = a
    /\ commands \in [Answers -> Nat]
    /\ task \in [Answers -> [Handlers -> TaskState]]
    /\ \A a \in Answers : commands[a] = Cardinality(TasksIn(a, TaskState \ {"none"}))
    /\ results \in [Answers -> Seq(ResultType)]
    /\ unseen \in SUBSET Answers
    /\ observed \in [Answers -> {"nothing", "pending", "complete"}]

\* No two Results of the Answer are of the same handler, so far.
OneResultEach(a) ==
    \A i, j \in DOMAIN results[a] : results[a][i].by = results[a][j].by => i = j

\* An Answer that is not pending (Answer.cpp:61-77) has no accepted command
\* that was refused by the pool, is still to run or never added its Result,
\* as long as no handler has added two.  (The broker's adds one for each device
\* manager, ZMQBroker.cpp:82-86: its second can stand for the Result that
\* another handler has not added, and the Answer looks complete too early.)
NoFalseCompletion ==
    \A a \in Answers :
        phase[a] = "dispatched" /\ ~ IsPending(a) /\ OneResultEach(a) =>
            \A h \in TasksIn(a, TaskState \ {"none"}) :
                /\ task[a][h] # "listed"
                /\ \E i \in ResultsOf(a, h) : results[a][i].status # PENDING

\* Whoever waits on the queue learns that an Answer is complete: it has seen
\* it complete or has a notification of it ahead (CommandDispatcher.cpp:37-41,
\* Result.cpp:25-39).
CompletionIsAnnounced ==
    \A a \in Answers :
        phase[a] = "dispatched" /\ ~ IsPending(a) =>
            a \in unseen \/ observed[a] = "complete"

\* An Answer that is complete once its handlers have returned stays complete,
\* whatever replies come late.  While one still runs, it becomes pending again
\* only by the second Result of one handler: the broker's, when the first device
\* manager replies before the message to the next one is recorded
\* (ZMQBroker.cpp:82-86, Answer.cpp:61-77, Result.cpp:25-39).
CompletionIsFinal ==
    [][\A a \in Answers :
         /\ phase[a] = "dispatched" /\ ~ IsPending(a)
         /\ TasksIn(a, {"running"}) = {} \/ OneResultEach(a)'
         => ~ IsPending(a)']_vars

\* Every accepted command is executed to its end, or refused because all
\* threads of the pool are taken; dispatch() blocks nobody for ever.
EveryCommandEnds ==
    \A a \in Answers, h \in Handlers :
        task[a][h] = "listed" ~>
            \/ task[a][h] \in {"finished", "failed"}
            \/ task[a][h] = "listed" /\ phase[a] = "dispatched"
=============================================================================
