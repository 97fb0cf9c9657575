------------------------ MODULE CommandExecutionProofs ------------------------
(***************************************************************************)
(* Proofs about CommandExecution, for any handlers, Answers and pool, and  *)
(* any number of Results of each handler: whoever waits for an Answer that *)
(* is complete learns of it, and an Answer that does not look pending has  *)
(* everything and stays so, except for what a handler that adds more than  *)
(* one Result does to it while it runs.                                    *)
(***************************************************************************)
EXTENDS CommandExecution, FiniteSetTheorems, TLAPS

\* The handlers that accepted the command of a.
Accepted(a) == TasksIn(a, TaskState \ {"none"})

\* Before dispatch() gives up the Answer's lock there are no Results, before
\* it has begun nothing at all; Results come from handlers that have run.
LockedOut ==
    \A a \in Answers :
        /\ phase[a] = "new" => Accepted(a) = {}
        /\ phase[a] \in {"new", "starting"} => results[a] = <<>>
        /\ \A i \in DOMAIN results[a] :
              task[a][results[a][i].by] \in {"running", "finished", "failed"}

IInv == TypeOK /\ LockedOut /\ CompletionIsAnnounced

----------------------------------------------------------------------------
(* Facts about the state. *)

\* An Answer with an accepted command has a nonzero number of commands.
LEMMA AcceptedCount ==
    ASSUME TypeOK, NEW a \in Answers
    PROVE  /\ IsFiniteSet(Accepted(a))
           /\ commands[a] = Cardinality(Accepted(a))
           /\ commands[a] = 0 <=> Accepted(a) = {}
<1>1. Accepted(a) \in SUBSET Handlers
  BY DEF Accepted, TasksIn
<1>2. IsFiniteSet(Accepted(a))
  BY <1>1, HandlersAssumption, FS_Subset
<1> QED
  BY <1>2, FS_EmptySet DEF TypeOK, Accepted

\* An Answer that still has commands to start is pending.
LEMMA StartingIsPending ==
    ASSUME IInv, NEW a \in Answers, phase[a] = "starting",
           TasksIn(a, {"listed"}) # {}
    PROVE  IsPending(a)
<1>1. Accepted(a) # {}
  BY DEF TasksIn, Accepted, TaskState
<1>2. commands[a] # 0
  BY <1>1, AcceptedCount DEF IInv
<1>3. results[a] = <<>>
  BY DEF IInv, LockedOut
<1>4. commands[a] # Len(results[a])
  BY <1>2, <1>3
<1> QED
  BY <1>4 DEF IsPending

LEMMA ResultsByHandlers ==
    ASSUME TypeOK
    PROVE  \A a \in Answers : \A i \in DOMAIN results[a] :
              results[a][i] \in ResultType /\ results[a][i].by \in Handlers
<1>1. ASSUME NEW a \in Answers, NEW i \in DOMAIN results[a]
      PROVE  results[a][i] \in ResultType
  <2>1. results[a] \in Seq(ResultType)
    BY DEF TypeOK
  <2> QED
    BY <2>1
<1> QED
  BY <1>1 DEF ResultType

\* An Answer with a handler that runs has a nonzero number of commands.
LEMMA RunningHasCommands ==
    ASSUME TypeOK, NEW a \in Answers, NEW h \in Handlers, task[a][h] # "none"
    PROVE  commands[a] # 0
<1>1. h \in Accepted(a)
  BY DEF TypeOK, Accepted, TasksIn
<1> QED
  BY <1>1, AcceptedCount

LEMMA InitHolds == Init => IInv
<1> SUFFICES ASSUME Init PROVE IInv
  OBVIOUS
<1>1. \A a \in Answers : Accepted(a) = {}
  BY DEF Init, Accepted, TasksIn
<1>2. TypeOK
  <2>1. \A a \in Answers : Cardinality(TasksIn(a, TaskState \ {"none"})) = 0
    BY <1>1, FS_EmptySet DEF Accepted
  <2> QED
    BY <2>1, PoolAssumption DEF Init, TypeOK, TaskState
<1>3. LockedOut
  BY <1>1 DEF Init, LockedOut
<1>4. CompletionIsAnnounced
  BY DEF Init, CompletionIsAnnounced
<1> QED
  BY <1>2, <1>3, <1>4 DEF IInv
----------------------------------------------------------------------------
(* Steps. *)

\* What no step of another Answer changes.
LEMMA TypeStep ==
    ASSUME IInv, [Next]_vars
    PROVE  TypeOK'
<1> USE DEF TypeOK
<1>1. ASSUME NEW a \in Answers, NEW accepting \in Acceptors[a], AddCommands(a, accepting)
      PROVE  TypeOK'
  <2>1. accepting \in SUBSET Handlers /\ IsFiniteSet(accepting)
    BY AcceptorsAssumption, HandlersAssumption, FS_Subset
  <2>2. Cardinality(accepting) \in Nat
    BY <2>1, FS_CardinalityType
  <2>3. task' = [task EXCEPT ![a] = [h \in Handlers |-> IF h \in accepting THEN "listed" ELSE "none"]]
    BY <1>1 DEF AddCommands
  <2>4. task' \in [Answers -> [Handlers -> TaskState]]
    BY <2>3 DEF IInv, TaskState
  <2>5. Accepted(a)' = accepting
    BY <2>1, <2>3 DEF IInv, Accepted, TasksIn, TaskState
  <2>6. \A b \in Answers \ {a} : Accepted(b)' = Accepted(b)
    BY <2>3 DEF IInv, Accepted, TasksIn
  <2>7. \A b \in Answers : commands'[b] = Cardinality(Accepted(b)')
    BY <1>1, <2>5, <2>6 DEF IInv, AddCommands, Accepted
  <2> QED
    BY <1>1, <2>2, <2>4, <2>7, PoolAssumption DEF IInv, AddCommands, Accepted
<1>2. ASSUME NEW a \in Answers, NEW h \in Handlers, NEW t \in TaskState \ {"none"},
             task[a][h] # "none", task' = [task EXCEPT ![a][h] = t],
             UNCHANGED <<phase, dispatching, commands, results, unseen, observed>>
      PROVE  TypeOK'
  <2>1. task' \in [Answers -> [Handlers -> TaskState]]
    BY <1>2 DEF IInv
  <2>2. \A b \in Answers : Accepted(b)' = Accepted(b)
    BY <1>2 DEF IInv, Accepted, TasksIn
  <2> QED
    BY <1>2, <2>1, <2>2 DEF IInv, Accepted
<1>3. ASSUME UNCHANGED <<commands, task>>
      PROVE  \A b \in Answers : commands'[b] = Cardinality(TasksIn(b, TaskState \ {"none"})')
  BY <1>3 DEF IInv, TasksIn
<1>4. ASSUME NEW a \in Answers, NotifyUnsupported(a) \/ NoThreadAvailable(a) \/ EndDispatch(a)
      PROVE  TypeOK'
  BY <1>3, <1>4, PoolAssumption DEF IInv, NotifyUnsupported, NoThreadAvailable, EndDispatch, Leave
<1>5. ASSUME NEW a \in Answers, NEW h \in Handlers, StartCommand(a, h) \/ Finish(a, h) \/ Fail(a, h)
      PROVE  TypeOK'
  BY <1>2, <1>5 DEF StartCommand, Finish, Fail, TaskState
<1>6. ASSUME NEW a \in Answers, NEW h \in Handlers, AddResult(a, h)
      PROVE  TypeOK'
  <2>1. [by |-> h, status |-> PENDING] \in ResultType
    BY DEF ResultType, Status
  <2>2. Append(results[a], [by |-> h, status |-> PENDING]) \in Seq(ResultType)
    BY <2>1 DEF IInv
  <2> QED
    BY <1>3, <1>6, <2>2 DEF IInv, AddResult
<1>7. ASSUME NEW a \in Answers, NEW i \in DOMAIN results[a], NEW s \in Status, SetStatus(a, i, s)
      PROVE  TypeOK'
  <2>1. results[a] \in Seq(ResultType) /\ results[a][i] \in ResultType
    BY DEF IInv
  <2>2. [results[a][i] EXCEPT !.status = s] \in ResultType
    BY <2>1 DEF ResultType
  <2>3. [results[a] EXCEPT ![i] = [results[a][i] EXCEPT !.status = s]] \in Seq(ResultType)
    BY <2>1, <2>2
  <2> QED
    BY <1>3, <1>7, <2>3 DEF IInv, SetStatus
<1>8. ASSUME NEW a \in Answers, Collect(a)
      PROVE  TypeOK'
  BY <1>3, <1>8 DEF IInv, Collect
<1>9. CASE UNCHANGED vars
  BY <1>3, <1>9 DEF IInv, vars
<1> QED
  BY <1>1, <1>4, <1>5, <1>6, <1>7, <1>8, <1>9 DEF Next, Dispatch, Run

LEMMA LockedOutStep ==
    ASSUME IInv, [Next]_vars
    PROVE  LockedOut'
<1> USE DEF LockedOut
<1>1. ASSUME NEW a \in Answers, NEW accepting \in Acceptors[a], AddCommands(a, accepting)
      PROVE  LockedOut'
  BY <1>1 DEF IInv, TypeOK, AddCommands, Accepted, TasksIn
<1>4. ASSUME NEW a \in Answers, NotifyUnsupported(a) \/ NoThreadAvailable(a) \/ EndDispatch(a)
      PROVE  LockedOut'
  BY <1>4 DEF IInv, TypeOK, Accepted, TasksIn, NotifyUnsupported, NoThreadAvailable, EndDispatch, Leave
<1>5. ASSUME NEW a \in Answers, NEW h \in Handlers, StartCommand(a, h) \/ Finish(a, h) \/ Fail(a, h)
      PROVE  LockedOut'
  <2>1. PICK t \in {"running", "finished", "failed"} :
            /\ task' = [task EXCEPT ![a][h] = t]
            /\ task[a][h] \in {"listed", "running"}
            /\ UNCHANGED <<phase, results>>
    BY <1>5 DEF StartCommand, Finish, Fail
  <2>2. \A b \in Answers : Accepted(b) = {} => Accepted(b)' = {}
    BY <2>1 DEF IInv, TypeOK, Accepted, TasksIn
  <2>3. \A b \in Answers, k \in Handlers : task'[b][k] = task[b][k] \/ task'[b][k] = t
    BY <2>1 DEF IInv, TypeOK
  <2>4. \A b \in Answers : \A i \in DOMAIN results[b] : results[b][i].by \in Handlers
    BY ResultsByHandlers DEF IInv
  <2> QED
    BY <2>1, <2>2, <2>3, <2>4 DEF IInv
<1>6. ASSUME NEW a \in Answers, NEW h \in Handlers, AddResult(a, h)
      PROVE  LockedOut'
  <2> DEFINE x == [by |-> h, status |-> PENDING]
  <2>1. results' = [results EXCEPT ![a] = Append(results[a], x)] /\ UNCHANGED <<phase, task>>
    BY <1>6 DEF AddResult
  <2>2. phase[a] = "dispatched"
    <3>1. h \in Accepted(a)
      BY <1>6 DEF AddResult, Accepted, TasksIn, TaskState
    <3> QED
      BY <1>6, <3>1 DEF IInv, TypeOK, AddResult, Unlocked
  <2>3. results[a] \in Seq(ResultType)
    BY DEF IInv, TypeOK
  <2>4. \A i \in DOMAIN Append(results[a], x) :
            Append(results[a], x)[i] = x \/ (i \in DOMAIN results[a] /\ Append(results[a], x)[i] = results[a][i])
    BY <2>3
  <2>5. x.by = h /\ task[a][h] = "running"
    BY <1>6 DEF AddResult
  <2> HIDE DEF x
  <2>6. \A i \in DOMAIN results'[a] : task[a][results'[a][i].by] \in {"running", "finished", "failed"}
    BY <2>1, <2>4, <2>5 DEF IInv, TypeOK
  <2>7. \A b \in Answers \ {a} : results'[b] = results[b]
    BY <2>1 DEF IInv, TypeOK
  <2> QED
    BY <2>1, <2>2, <2>6, <2>7 DEF IInv, Accepted, TasksIn
<1>7. ASSUME NEW a \in Answers, NEW i \in DOMAIN results[a], NEW s \in Status, SetStatus(a, i, s)
      PROVE  LockedOut'
  BY <1>7 DEF IInv, TypeOK, ResultType, SetStatus, Accepted, TasksIn
<1>8. CASE UNCHANGED <<phase, task, results>>
  BY <1>8 DEF IInv, Accepted, TasksIn
<1> QED
  BY <1>1, <1>4, <1>5, <1>6, <1>7, <1>8 DEF Next, Dispatch, Run, Collect, vars
\* The steps that do not make an Answer complete.
LEMMA AnnouncedStep ==
    ASSUME IInv, [Next]_vars
    PROVE  CompletionIsAnnounced'
<1> USE DEF CompletionIsAnnounced
<1> SUFFICES ASSUME NEW b \in Answers, phase'[b] = "dispatched", ~ IsPending(b)'
             PROVE  b \in unseen' \/ observed'[b] = "complete"
  OBVIOUS
<1>1. ASSUME NEW a \in Answers, NEW accepting \in Acceptors[a], AddCommands(a, accepting)
      PROVE  b \in unseen' \/ observed'[b] = "complete"
  BY <1>1 DEF IInv, TypeOK, AddCommands, IsPending
<1>2. ASSUME NEW a \in Answers, NotifyUnsupported(a)
      PROVE  b \in unseen' \/ observed'[b] = "complete"
  BY <1>2 DEF IInv, TypeOK, NotifyUnsupported, Leave, IsPending
<1>3. ASSUME NEW a \in Answers, NoThreadAvailable(a) \/ EndDispatch(a)
      PROVE  b \in unseen' \/ observed'[b] = "complete"
  <2>1. IsPending(a)
    BY <1>3, StartingIsPending DEF NoThreadAvailable, EndDispatch
  <2>2. UNCHANGED <<commands, results, unseen, observed>>
    BY <1>3 DEF NoThreadAvailable, EndDispatch
  <2>3. IsPending(b)' <=> IsPending(b)
    BY <2>2 DEF IsPending
  <2>4. b # a
    BY <2>1, <2>3
  <2>5. phase[b] = "dispatched"
    BY <1>3, <2>4 DEF IInv, TypeOK, NoThreadAvailable, EndDispatch, Leave
  <2> QED
    BY <2>2, <2>3, <2>5 DEF IInv
<1>4. ASSUME NEW a \in Answers, NEW h \in Handlers, StartCommand(a, h) \/ Finish(a, h) \/ Fail(a, h)
      PROVE  b \in unseen' \/ observed'[b] = "complete"
  BY <1>4 DEF IInv, StartCommand, Finish, Fail, IsPending
<1>5. ASSUME NEW a \in Answers, NEW h \in Handlers, AddResult(a, h)
      PROVE  b \in unseen' \/ observed'[b] = "complete"
  <2>1. CASE a = b
    <3> DEFINE n == Len(results[b]) + 1
    <3>1. results[b] \in Seq(ResultType)
      BY DEF IInv, TypeOK
    <3>2. results'[b] = Append(results[b], [by |-> h, status |-> PENDING])
      BY <1>5, <2>1 DEF AddResult, IInv, TypeOK
    <3>3. n \in DOMAIN results'[b] /\ results'[b][n] = [by |-> h, status |-> PENDING]
      BY <3>1, <3>2
    <3> HIDE DEF n
    <3>4. IsPending(b)'
      <4>1. results'[b][n].status = PENDING
        BY <3>3
      <4>2. commands'[b] # 0
        BY <1>5, <2>1, RunningHasCommands DEF AddResult, IInv
      <4> QED
        BY <3>3, <4>1, <4>2 DEF IsPending
    <3> QED
      BY <3>4
  <2>2. CASE a # b
    BY <1>5, <2>2 DEF AddResult, IInv, TypeOK, IsPending
  <2> QED
    BY <2>1, <2>2
<1>6. ASSUME NEW a \in Answers, NEW i \in DOMAIN results[a], NEW s \in Status, SetStatus(a, i, s)
      PROVE  b \in unseen' \/ observed'[b] = "complete"
  <2>1. CASE a = b
    BY <1>6, <2>1 DEF SetStatus
  <2>2. CASE a # b
    BY <1>6, <2>2 DEF SetStatus, IInv, TypeOK, IsPending
  <2> QED
    BY <2>1, <2>2
<1>7. ASSUME NEW a \in Answers, Collect(a)
      PROVE  b \in unseen' \/ observed'[b] = "complete"
  BY <1>7 DEF Collect, IInv, TypeOK, IsPending
<1>8. CASE UNCHANGED vars
  BY <1>8 DEF vars, IInv, IsPending
<1> QED
  BY <1>1, <1>2, <1>3, <1>4, <1>5, <1>6, <1>7, <1>8 DEF Next, Dispatch, Run

LEMMA InvAlways == Spec => []IInv
<1>1. IInv /\ [Next]_vars => IInv'
  BY TypeStep, LockedOutStep, AnnouncedStep DEF IInv
<1> QED
  BY <1>1, InitHolds, PTL DEF Spec, SafeSpec
----------------------------------------------------------------------------
(* Answers that look complete. *)

\* Counting: as many Results as commands means one from every handler.
LEMMA CompleteHasAll ==
    ASSUME IInv, NEW a \in Answers, OneResultEach(a), ~ IsPending(a), NEW h \in Accepted(a)
    PROVE  /\ task[a][h] \in {"running", "finished", "failed"}
           /\ \E i \in ResultsOf(a, h) : results[a][i].status # PENDING
<1> DEFINE n == Len(results[a])
<1> DEFINE f == [i \in 1..n |-> results[a][i].by]
<1>1. n \in Nat /\ DOMAIN results[a] = 1..n
  BY DEF IInv, TypeOK
<1>2. f \in [1..n -> Accepted(a)]
  BY <1>1, ResultsByHandlers DEF IInv, LockedOut, Accepted, TasksIn, TaskState
<1>3. f \in Injection(1..n, Accepted(a))
  BY <1>1, <1>2 DEF OneResultEach, Injection, IsInjective
<1>4. n = commands[a] /\ commands[a] = Cardinality(Accepted(a)) /\ IsFiniteSet(Accepted(a))
  BY AcceptedCount DEF IsPending, IInv
<1>5. Cardinality(1..n) = n
  BY <1>1, FS_Interval
<1>6. f \in Surjection(1..n, Accepted(a))
  BY <1>3, <1>4, <1>5, FS_Injection
<1>7. PICK i \in 1..n : results[a][i].by = h
  BY <1>6 DEF Surjection
<1>8. commands[a] # 0
  BY AcceptedCount DEF IInv
<1>9. results[a][i].status # PENDING
  BY <1>1, <1>7, <1>8 DEF IsPending
<1> QED
  BY <1>1, <1>7, <1>9 DEF IInv, LockedOut, ResultsOf

----------------------------------------------------------------------------
(* The theorems. *)

\* Every variable has its type; m_commands counts the CommandRunners, and
\* dispatch() locks one Answer at a time.
THEOREM TypeCorrect == Spec => []TypeOK
<1>1. IInv => TypeOK
  BY DEF IInv
<1> QED
  BY <1>1, InvAlways, PTL

\* Nobody waits in vain for an Answer that is complete, whatever number of
\* Results the handlers add (CommandDispatcher.cpp:37-41, Result.cpp:25-39).
THEOREM CompletionIsAlwaysAnnounced == Spec => []CompletionIsAnnounced
<1>1. IInv => CompletionIsAnnounced
  BY DEF IInv
<1> QED
  BY <1>1, InvAlways, PTL

\* isPending() is false only when every accepted command was run and has a
\* final Result (Answer.cpp:61-77), unless a handler has added two of them.
THEOREM NoAnswerIsFalselyComplete == Spec => []NoFalseCompletion
<1>1. IInv => NoFalseCompletion
  <2> SUFFICES ASSUME IInv, NEW a \in Answers, ~ IsPending(a), OneResultEach(a),
                      NEW h \in TasksIn(a, TaskState \ {"none"})
               PROVE  /\ task[a][h] # "listed"
                      /\ \E i \in ResultsOf(a, h) : results[a][i].status # PENDING
    BY DEF NoFalseCompletion
  <2>1. h \in Accepted(a)
    BY DEF Accepted
  <2> QED
    BY <2>1, CompleteHasAll
<1> QED
  BY <1>1, InvAlways, PTL

\* A running handler that adds a Result to a complete Answer adds its second.
LEMMA SecondResult ==
    ASSUME IInv, NEW a \in Answers, NEW h \in Handlers, AddResult(a, h), ~ IsPending(a)
    PROVE  ~ OneResultEach(a)'
<1> SUFFICES ASSUME OneResultEach(a)' PROVE FALSE
  OBVIOUS
<1> DEFINE x == [by |-> h, status |-> PENDING]
<1> DEFINE n == Len(results[a])
<1>1. results[a] \in Seq(ResultType) /\ results'[a] = Append(results[a], x) /\ x.by = h
  BY DEF IInv, TypeOK, AddResult
<1> HIDE DEF x
<1>2. /\ n \in Nat /\ DOMAIN results[a] = 1..n /\ DOMAIN results'[a] = 1..(n + 1)
      /\ results'[a][n + 1] = x
      /\ \A i \in 1..n : results'[a][i] = results[a][i]
  BY <1>1
<1> HIDE DEF n
<1>3. n + 1 \in DOMAIN results'[a] /\ \A i \in 1..n : i \in DOMAIN results'[a] /\ i # n + 1
  BY <1>2
<1>4. OneResultEach(a)
  BY <1>2, <1>3 DEF OneResultEach
<1>5. h \in Accepted(a)
  BY DEF AddResult, Accepted, TasksIn, TaskState
<1>6. PICK i \in 1..n : results[a][i].by = h
  BY <1>2, <1>4, <1>5, CompleteHasAll DEF ResultsOf
<1>7. results'[a][i].by = results'[a][n + 1].by
  BY <1>1, <1>2, <1>6
<1> QED
  BY <1>3, <1>7 DEF OneResultEach

\* No Result and no status makes a complete Answer pending once its handlers
\* have returned; until then only the second Result of a handler does
\* (Answer.cpp:61-77, Result.cpp:25-39, ZMQBroker.cpp:82-86).
THEOREM CompletionIsAlwaysFinal == Spec => CompletionIsFinal
<1>1. ASSUME IInv, [Next]_vars, NEW b \in Answers,
             phase[b] = "dispatched", ~ IsPending(b),
             TasksIn(b, {"running"}) = {} \/ OneResultEach(b)'
      PROVE  ~ IsPending(b)'
  <2>1. ASSUME NEW a \in Answers, NEW h \in Handlers, AddResult(a, h)
        PROVE  ~ IsPending(b)'
    <3>1. a # b
      <4> SUFFICES ASSUME a = b PROVE FALSE
        OBVIOUS
      <4>1. TasksIn(b, {"running"}) # {}
        BY <2>1 DEF AddResult, TasksIn
      <4> QED
        BY <1>1, <2>1, <4>1, SecondResult
    <3> QED
      BY <1>1, <2>1, <3>1 DEF AddResult, IInv, TypeOK, IsPending
  <2>2. ASSUME NEW a \in Answers, NEW i \in DOMAIN results[a], NEW s \in Status,
               SetStatus(a, i, s)
        PROVE  ~ IsPending(b)'
    <3>1. results' = [results EXCEPT ![a] = [results[a] EXCEPT ![i] = [results[a][i] EXCEPT !.status = s]]]
      BY <2>2 DEF SetStatus
    <3>2. Len(results'[b]) = Len(results[b]) /\ DOMAIN results'[b] = DOMAIN results[b]
      BY <1>1, <3>1 DEF IInv, TypeOK
    <3>3. s # PENDING
      BY <2>2, <1>1, ResultsByHandlers DEF SetStatus, IInv, ResultType, Status, PENDING, SUCCESS, FAILED
    <3>4. \A k \in DOMAIN results[b] :
              results'[b][k].status \in {results[b][k].status, s}
      BY <1>1, <3>1, ResultsByHandlers DEF IInv, TypeOK, ResultType
    <3>5. UNCHANGED commands
      BY <2>2 DEF SetStatus
    <3> QED
      BY <1>1, <3>2, <3>3, <3>4, <3>5 DEF IsPending
  <2>3. ASSUME NEW a \in Answers, NEW accepting \in Acceptors[a], AddCommands(a, accepting)
        PROVE  ~ IsPending(b)'
    BY <1>1, <2>3 DEF AddCommands, IInv, TypeOK, IsPending
  <2>4. CASE UNCHANGED <<commands, results>>
    BY <1>1, <2>4 DEF IsPending
  <2> QED
    BY <1>1, <2>1, <2>2, <2>3, <2>4 DEF Next, Dispatch, Run, NotifyUnsupported, StartCommand,
       NoThreadAvailable, EndDispatch, Finish, Fail, Collect, vars
<1>2. IInv /\ [Next]_vars =>
        [\A a \in Answers :
           /\ phase[a] = "dispatched" /\ ~ IsPending(a)
           /\ TasksIn(a, {"running"}) = {} \/ OneResultEach(a)'
           => ~ IsPending(a)']_vars
  BY <1>1
<1> QED
  BY <1>2, InvAlways, PTL DEF Spec, SafeSpec, CompletionIsFinal
=============================================================================
