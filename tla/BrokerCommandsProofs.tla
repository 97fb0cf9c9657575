------------------------- MODULE BrokerCommandsProofs -------------------------
(***************************************************************************)
(* Safety of BrokerCommands for any commands, managers and replies,        *)
(* whatever the interleaving of the frames: replies are known, Results are *)
(* genuine and messages are executed once.                                 *)
(***************************************************************************)
EXTENDS BrokerCommands, TLAPS

USE TargetsAssumption, RepliersAssumption, NoneAssumption
    DEF TargetsAssumption, RepliersAssumption, NoneAssumption

\* A message is on its way, executed or replied to only after its entry was
\* made in m_cmdTable.
RecordedFirst ==
    /\ \A c \in Commands :
         pc[c] \in {"identity", "body"} =>
            current[c] \in todo[c] /\ <<c, current[c]>> \in cmdTable
    /\ \A m \in Managers : inbox[m] \subseteq cmdTable
    /\ \A e \in executed : e.id \in cmdTable

\* Every reply reports an execution.
RepliesAreGenuine ==
    \A r \in replies : \E e \in executed : e.id = r.id /\ e.status = r.status

\* The command and the manager of a message are dealt with by handle().
Visited(id) == pc[id[1]] # "new" /\ id[2] \notin todo[id[1]]

\* A message that was delivered or executed has been sent, once.
SentOnce ==
    /\ \A m \in Managers : \A id \in inbox[m] :
         /\ Visited(id)
         /\ \A n \in Managers : id \in inbox[n] => n = m
         /\ \A e \in executed : e.id # id
    /\ \A e \in executed : Visited(e.id)

\* The inductive invariant.
IInv == TypeOK /\ RecordedFirst /\ RepliesAreGenuine /\ ResultsAreGenuine
        /\ SentOnce /\ ExecutedOnce

LEMMA InvInit == Init => IInv
<1> SUFFICES ASSUME Init PROVE IInv
  OBVIOUS
<1>1. TypeOK
  BY DEF Init, TypeOK, MessageID
<1>2. RecordedFirst /\ RepliesAreGenuine /\ ResultsAreGenuine
  BY DEF Init, RecordedFirst, RepliesAreGenuine, ResultsAreGenuine
<1>3. SentOnce /\ ExecutedOnce
  BY DEF Init, SentOnce, ExecutedOnce
<1>4. QED
  BY <1>1, <1>2, <1>3 DEF IInv

----------------------------------------------------------------------------
(* Types. *)

LEMMA TypesStep == TypeOK /\ RecordedFirst /\ [Next]_vars => TypeOK'
<1> SUFFICES ASSUME TypeOK, RecordedFirst, [Next]_vars
             PROVE  TypeOK'
  OBVIOUS
<1> USE DEF TypeOK, MessageID, Replies, PENDING, SUCCESS, FAILED
<1>1. ASSUME NEW m \in Managers, Register(m)
      PROVE  TypeOK'
  BY <1>1 DEF Register, handlerVars, tableVars, timerVars, wireVars
<1>2. ASSUME NEW m \in Managers, NEW id \in MessageID, NEW s \in {SUCCESS, FAILED},
             Execute(m, id, s)
      PROVE  TypeOK'
  BY <1>2 DEF Execute, handlerVars, tableVars, timerVars
<1>3. ASSUME NEW c \in Commands, Handle(c)
      PROVE  TypeOK'
  BY <1>3 DEF Handle, Goto, tableVars, wireVars
<1>4. ASSUME NEW c \in Commands, NEW m \in Managers, Record(c, m)
      PROVE  TypeOK'
  BY <1>4 DEF Record, Goto, timerVars, wireVars
<1>5. ASSUME NEW c \in Commands, SendIdentity(c)
      PROVE  TypeOK'
  BY <1>5 DEF SendIdentity, Goto, tableVars, timerVars
<1>6. ASSUME NEW c \in Commands, SendBody(c)
      PROVE  TypeOK'
  <2>1. <<c, current[c]>> \in MessageID
    BY <1>6 DEF SendBody, RecordedFirst
  <2>2. QED
    BY <1>6, <2>1 DEF SendBody, Goto, tableVars, timerVars
<1>7. ASSUME NEW c \in Commands, Return(c)
      PROVE  TypeOK'
  BY <1>7 DEF Return, Goto, tableVars, timerVars, wireVars
<1>8. ASSUME NEW c \in Commands, Expire(c)
      PROVE  TypeOK'
  BY <1>8 DEF Expire, handlerVars, tableVars, wireVars
<1>9. ASSUME NEW r \in replies, DoDefaultResult(r)
      PROVE  TypeOK'
  BY <1>9 DEF DoDefaultResult, handlerVars, timerVars
<1>10. CASE CheckSettingTable
  BY <1>10 DEF CheckSettingTable, handlerVars, tableVars, wireVars
<1>11. CASE UNCHANGED vars
  BY <1>11 DEF vars, handlerVars, tableVars, timerVars, wireVars
<1> HIDE DEF TypeOK, MessageID, Replies, PENDING, SUCCESS, FAILED
<1>12. QED
  BY <1>1, <1>2, <1>3, <1>4, <1>5, <1>6, <1>7, <1>8, <1>9, <1>10, <1>11
     DEF Next, Handler

----------------------------------------------------------------------------
(* Records and replies. *)

LEMMA RecordedStep == TypeOK /\ RecordedFirst /\ [Next]_vars => RecordedFirst'
<1> SUFFICES ASSUME TypeOK, RecordedFirst, [Next]_vars
             PROVE  RecordedFirst'
  OBVIOUS
<1> USE DEF RecordedFirst
<1>1. ASSUME NEW m \in Managers, NEW id \in MessageID, NEW s \in {SUCCESS, FAILED},
             Execute(m, id, s)
      PROVE  RecordedFirst'
  BY <1>1 DEF Execute, handlerVars, tableVars, TypeOK
<1>2. ASSUME NEW c \in Commands, Handle(c)
      PROVE  RecordedFirst'
  BY <1>2 DEF Handle, Goto, tableVars, wireVars, TypeOK
<1>3. ASSUME NEW c \in Commands, NEW m \in Managers, Record(c, m)
      PROVE  RecordedFirst'
  BY <1>3 DEF Record, Goto, wireVars, TypeOK
<1>4. ASSUME NEW c \in Commands, SendIdentity(c)
      PROVE  RecordedFirst'
  BY <1>4 DEF SendIdentity, Goto, tableVars, TypeOK
<1>5. ASSUME NEW c \in Commands, SendBody(c)
      PROVE  RecordedFirst'
  BY <1>5 DEF SendBody, Goto, tableVars, TypeOK
<1>6. ASSUME NEW c \in Commands, Return(c)
      PROVE  RecordedFirst'
  BY <1>6 DEF Return, Goto, tableVars, wireVars, TypeOK
<1>7. ASSUME UNCHANGED <<handlerVars, cmdTable, inbox, executed>>
      PROVE  RecordedFirst'
  BY <1>7 DEF handlerVars
<1>8. QED
  BY <1>1, <1>2, <1>3, <1>4, <1>5, <1>6, <1>7
     DEF Next, Handler, Register, Expire, DoDefaultResult, CheckSettingTable, vars,
         handlerVars, tableVars, wireVars

LEMMA GenuineStep ==
    TypeOK /\ RepliesAreGenuine /\ ResultsAreGenuine /\ [Next]_vars
        => RepliesAreGenuine' /\ ResultsAreGenuine'
<1> SUFFICES ASSUME TypeOK, RepliesAreGenuine, ResultsAreGenuine, [Next]_vars
             PROVE  RepliesAreGenuine' /\ ResultsAreGenuine'
  OBVIOUS
<1> USE DEF RepliesAreGenuine, ResultsAreGenuine
<1>1. ASSUME NEW m \in Managers, NEW id \in MessageID, NEW s \in {SUCCESS, FAILED},
             Execute(m, id, s)
      PROVE  RepliesAreGenuine' /\ ResultsAreGenuine'
  <2> DEFINE new == [id |-> id, by |-> m, status |-> s]
  <2>1. executed' = executed \cup {new} /\ new.id = id /\ new.status = s
    BY <1>1 DEF Execute
  <2>2. replies' \subseteq replies \cup {[id |-> id, status |-> s]}
    BY <1>1 DEF Execute
  <2>3. UNCHANGED result
    BY <1>1 DEF Execute, tableVars
  <2>4. ASSUME NEW r \in replies'
        PROVE  \E e \in executed' : e.id = r.id /\ e.status = r.status
    <3>1. CASE r \in replies
      BY <2>1, <3>1
    <3>2. CASE r = [id |-> id, status |-> s]
      <4>1. r.id = id /\ r.status = s
        BY <3>2
      <4>2. new \in executed' /\ new.id = r.id /\ new.status = r.status
        BY <2>1, <4>1
      <4>3. QED
        BY <4>2
    <3>3. QED
      BY <2>2, <3>1, <3>2
  <2>5. ResultsAreGenuine'
    BY <2>1, <2>3
  <2>6. QED
    BY <2>4, <2>5
<1>2. ASSUME NEW c \in Commands, NEW m \in Managers, Record(c, m)
      PROVE  RepliesAreGenuine' /\ ResultsAreGenuine'
  BY <1>2 DEF Record, wireVars
<1>3. ASSUME NEW r \in replies, DoDefaultResult(r)
      PROVE  RepliesAreGenuine' /\ ResultsAreGenuine'
  <2>1. replies' \subseteq replies /\ UNCHANGED executed
    BY <1>3 DEF DoDefaultResult
  <2>2. PICK e \in executed : e.id = r.id /\ e.status = r.status
    OBVIOUS
  <2>3. ASSUME NEW id \in DOMAIN result', result'[id] # PENDING
        PROVE  \E d \in executed : d.id = id /\ d.status = result'[id]
    BY <1>3, <2>2, <2>3 DEF DoDefaultResult
  <2>4. QED
    BY <2>1, <2>3
<1>4. ASSUME UNCHANGED <<result, executed, replies>>
      PROVE  RepliesAreGenuine' /\ ResultsAreGenuine'
  BY <1>4
<1>5. QED
  BY <1>1, <1>2, <1>3, <1>4
     DEF Next, Handler, Register, Handle, SendIdentity, SendBody, Return, Expire,
         CheckSettingTable, vars, tableVars, wireVars

----------------------------------------------------------------------------
(* Messages are sent once. *)

LEMMA SentStep ==
    TypeOK /\ RecordedFirst /\ SentOnce /\ ExecutedOnce /\ [Next]_vars
        => SentOnce' /\ ExecutedOnce'
<1> SUFFICES ASSUME TypeOK, RecordedFirst, SentOnce, ExecutedOnce, [Next]_vars
             PROVE  SentOnce' /\ ExecutedOnce'
  OBVIOUS
<1>1. ASSUME NEW m \in Managers, NEW id \in MessageID, NEW s \in {SUCCESS, FAILED},
             Execute(m, id, s)
      PROVE  SentOnce' /\ ExecutedOnce'
  <2> DEFINE new == [id |-> id, by |-> m, status |-> s]
  <2>1. executed' = executed \cup {new} /\ new.id = id
    BY <1>1 DEF Execute
  <2>2. /\ id \in inbox[m]
        /\ inbox' = [inbox EXCEPT ![m] = @ \ {id}]
        /\ UNCHANGED <<pc, todo>>
    BY <1>1 DEF Execute, handlerVars
  <2>3. \A e \in executed : e.id # id
    BY <2>2 DEF SentOnce
  <2>4. SentOnce'
    BY <2>1, <2>2 DEF SentOnce, Visited, TypeOK
  <2>5. ExecutedOnce'
    BY <2>1, <2>3 DEF ExecutedOnce
  <2>6. QED
    BY <2>4, <2>5
<1>2. ASSUME NEW c \in Commands, Handle(c)
      PROVE  SentOnce' /\ ExecutedOnce'
  <2>1. /\ pc[c] = "new"
        /\ \A d \in Commands : pc[d] # "new" => pc'[d] = pc[d] /\ todo'[d] = todo[d]
        /\ UNCHANGED <<inbox, executed>>
    BY <1>2 DEF Handle, Goto, wireVars, TypeOK
  <2>2. ASSUME NEW id \in MessageID, Visited(id)
        PROVE  Visited(id)'
    BY <2>1, <2>2 DEF Visited, MessageID
  <2>3. QED
    BY <2>1, <2>2 DEF SentOnce, ExecutedOnce, TypeOK
<1>3. ASSUME NEW c \in Commands, SendBody(c)
      PROVE  SentOnce' /\ ExecutedOnce'
  <2> DEFINE new == <<c, current[c]>>
  <2>1. new \in MessageID /\ current[c] \in todo[c] /\ pc[c] = "body"
    BY <1>3 DEF SendBody, RecordedFirst, TypeOK, MessageID
  <2>2. /\ \A m \in Managers : new \notin inbox[m]
        /\ \A e \in executed : e.id # new
    BY <2>1 DEF SentOnce, Visited
  <2>3. /\ todo' = [todo EXCEPT ![c] = @ \ {current[c]}]
        /\ pc' = [pc EXCEPT ![c] = "loop"]
        /\ UNCHANGED executed
        /\ \/ inbox' = inbox
           \/ /\ outgoing \in Managers
              /\ inbox' = [inbox EXCEPT ![outgoing] = @ \cup {new}]
    BY <1>3 DEF SendBody, Goto, TypeOK
  <2>4. ASSUME NEW id \in MessageID, Visited(id) \/ id = new
        PROVE  Visited(id)'
    BY <2>1, <2>3, <2>4 DEF Visited, MessageID, TypeOK
  <2>5. ASSUME NEW m \in Managers
        PROVE  inbox'[m] \subseteq inbox[m] \cup (IF m = outgoing THEN {new} ELSE {})
    BY <2>3 DEF TypeOK
  <2>6. ASSUME NEW m \in Managers, NEW id \in inbox'[m]
        PROVE  /\ Visited(id)'
               /\ \A n \in Managers : id \in inbox'[n] => n = m
               /\ \A e \in executed : e.id # id
    BY <2>1, <2>2, <2>4, <2>5, <2>6 DEF SentOnce, TypeOK
  <2>7. \A e \in executed : Visited(e.id)'
    BY <2>4 DEF SentOnce, TypeOK
  <2>8. QED
    BY <2>3, <2>6, <2>7 DEF SentOnce, ExecutedOnce
<1>4. ASSUME UNCHANGED <<todo, inbox, executed>>,
             \A c \in Commands : pc[c] # "new" => pc'[c] # "new"
      PROVE  SentOnce' /\ ExecutedOnce'
  <2>1. ASSUME NEW id \in MessageID, Visited(id)
        PROVE  Visited(id)'
    BY <1>4, <2>1 DEF Visited, MessageID
  <2>2. QED
    BY <1>4, <2>1 DEF SentOnce, ExecutedOnce, TypeOK
<1>5. ASSUME NEW c \in Commands,
             (\E m \in Managers : Record(c, m)) \/ SendIdentity(c) \/ Return(c)
      PROVE  SentOnce' /\ ExecutedOnce'
  BY <1>4, <1>5 DEF Record, SendIdentity, Return, Goto, wireVars, TypeOK
<1>6. ASSUME UNCHANGED <<pc, todo, inbox, executed>>
      PROVE  SentOnce' /\ ExecutedOnce'
  BY <1>4, <1>6
<1>7. QED
  BY <1>1, <1>2, <1>3, <1>5, <1>6
     DEF Next, Handler, Register, Expire, DoDefaultResult, CheckSettingTable, vars,
         handlerVars, wireVars

----------------------------------------------------------------------------

LEMMA Inductive == SafeSpec => []IInv
<1>1. IInv /\ [Next]_vars => IInv'
  BY TypesStep, RecordedStep, GenuineStep, SentStep DEF IInv
<1>2. QED
  BY InvInit, <1>1, PTL DEF SafeSpec

\* Type correctness; in particular m_cmdTable has a Result for every entry.
THEOREM TypeCorrect == SafeSpec => []TypeOK
<1>1. IInv => TypeOK
  BY DEF IInv
<1>2. QED
  BY <1>1, Inductive, PTL

\* doDefaultResult() never uses an iterator at the end of m_cmdTable.
THEOREM NoReplyIsUnknown == SafeSpec => []RepliesAreKnown
<1>1. IInv => RepliesAreKnown
  BY DEF IInv, RepliesAreKnown, RepliesAreGenuine, RecordedFirst
<1>2. QED
  BY <1>1, Inductive, PTL

\* A Result has the status that the execution of its own message reported.
THEOREM NoResultIsMixedUp == SafeSpec => []ResultsAreGenuine
<1>1. IInv => ResultsAreGenuine
  BY DEF IInv
<1>2. QED
  BY <1>1, Inductive, PTL

\* No message is executed twice, although frames of several handlers mix.
THEOREM NothingIsExecutedTwice == SafeSpec => []ExecutedOnce
<1>1. IInv => ExecutedOnce
  BY DEF IInv
<1>2. QED
  BY <1>1, Inductive, PTL

----------------------------------------------------------------------------
(* The refinement. *)

\* The managers that handle() visits, and m_cmdTable, are those of the command;
\* one with an entry is dealt with, or being dealt with.
EntriesAreAddressed ==
    /\ \A c \in Commands : todo[c] \subseteq Targets[c]
    /\ \A id \in cmdTable :
         /\ id \in Addressed
         /\ pc[id[1]] # "new"
         /\ id[2] \in todo[id[1]] =>
                pc[id[1]] \in {"identity", "body"} /\ current[id[1]] = id[2]

LEMMA AddressedInit == Init => EntriesAreAddressed
BY DEF Init, EntriesAreAddressed

LEMMA AddressedStep == IInv /\ EntriesAreAddressed /\ [Next]_vars => EntriesAreAddressed'
<1> SUFFICES ASSUME IInv, EntriesAreAddressed, [Next]_vars PROVE EntriesAreAddressed'
  OBVIOUS
<1> USE DEF EntriesAreAddressed, Addressed, MessageID
<1>1. ASSUME NEW c \in Commands, Handle(c) PROVE EntriesAreAddressed'
  BY <1>1 DEF Handle, Goto, tableVars, IInv, TypeOK
<1>2. ASSUME NEW c \in Commands, NEW m \in Managers, Record(c, m) PROVE EntriesAreAddressed'
  <2>1. /\ pc[c] = "loop" /\ m \in todo[c] /\ todo' = todo
        /\ current' = [current EXCEPT ![c] = m]
        /\ cmdTable' = cmdTable \cup {<<c, m>>}
        /\ pc' = [pc EXCEPT ![c] = "identity"]
    BY <1>2 DEF Record, Goto
  <2>2. ASSUME NEW id \in cmdTable'
        PROVE  /\ id \in Addressed
               /\ pc'[id[1]] # "new"
               /\ id[2] \in todo[id[1]] =>
                      pc'[id[1]] \in {"identity", "body"} /\ current'[id[1]] = id[2]
    <3>1. CASE id = <<c, m>>
      BY <2>1, <3>1 DEF IInv, TypeOK
    <3>2. CASE id \in cmdTable
      BY <2>1, <3>2 DEF IInv, TypeOK
    <3> QED
      BY <2>1, <2>2, <3>1, <3>2
  <2> QED
    BY <2>1, <2>2
<1>3. ASSUME NEW c \in Commands, SendIdentity(c) PROVE EntriesAreAddressed'
  BY <1>3 DEF SendIdentity, Goto, tableVars, IInv, TypeOK
<1>4. ASSUME NEW c \in Commands, SendBody(c) PROVE EntriesAreAddressed'
  BY <1>4 DEF SendBody, Goto, tableVars, IInv, TypeOK
<1>5. ASSUME NEW c \in Commands, Return(c) PROVE EntriesAreAddressed'
  BY <1>5 DEF Return, Goto, tableVars, IInv, TypeOK
<1>6. CASE UNCHANGED <<handlerVars, cmdTable>>
  BY <1>6 DEF handlerVars
<1> QED
  BY <1>1, <1>2, <1>3, <1>4, <1>5, <1>6
  DEF Next, Handler, Register, Execute, Expire, DoDefaultResult, CheckSettingTable, vars,
      handlerVars, tableVars

LEMMA BoardStep ==
    IInv /\ EntriesAreAddressed /\ [Next]_vars => [Board!Next]_(Board!boardVars)
<1> SUFFICES ASSUME IInv, EntriesAreAddressed, [Next]_vars
             PROVE  Board!Next \/ UNCHANGED <<cmdTable, executed, Shown>>
  BY DEF Board!boardVars
<1>1. ASSUME NEW c \in Commands, NEW m \in Managers, Record(c, m) PROVE Board!Next
  <2> DEFINE id == <<c, m>>
  <2>1. /\ pc[c] = "loop" /\ m \in todo[c] /\ executed' = executed
        /\ cmdTable' = cmdTable \cup {id}
        /\ result' = [k \in DOMAIN result \cup {id} |-> IF k = id THEN PENDING ELSE result[k]]
    BY <1>1 DEF Record, wireVars
  <2>2. id \in Addressed
    BY <2>1 DEF EntriesAreAddressed, Addressed, MessageID
  <2>3. id \notin cmdTable
    BY <2>1 DEF EntriesAreAddressed
  <2>4. Shown' = Shown
    BY <2>1, <2>3 DEF Shown, IInv, TypeOK
  <2> HIDE DEF id
  <2>5. Board!Open(id)
    BY <2>1, <2>3, <2>4 DEF Board!Open
  <2> QED
    BY <2>2, <2>5 DEF Board!Next
<1>2. ASSUME NEW m \in Managers, NEW id \in MessageID, NEW s \in {SUCCESS, FAILED},
             Execute(m, id, s)
      PROVE  Board!Next
  <2>1. /\ id \in inbox[m]
        /\ executed' = executed \cup {[id |-> id, by |-> m, status |-> s]}
        /\ UNCHANGED <<result, cmdTable>>
    BY <1>2 DEF Execute, tableVars
  <2>2. id \in cmdTable /\ id \in Addressed /\ \A e \in executed : e.id # id
    BY <2>1 DEF IInv, RecordedFirst, SentOnce, EntriesAreAddressed
  <2>3. Shown' = Shown
    BY <2>1 DEF Shown
  <2>4. Board!Execute(id, m, s)
    BY <2>1, <2>2, <2>3 DEF Board!Execute
  <2> QED
    BY <2>2, <2>4 DEF Board!Next
<1>3. ASSUME NEW r \in replies, DoDefaultResult(r)
      PROVE  Board!Next \/ UNCHANGED <<cmdTable, executed, Shown>>
  <2>1. /\ r.id \in cmdTable /\ UNCHANGED <<cmdTable, executed>>
        /\ result' = [result EXCEPT ![r.id] = IF r.status > @ THEN r.status ELSE @]
    BY <1>3 DEF DoDefaultResult
  <2>2. PICK e \in executed : e.id = r.id /\ e.status = r.status
    BY DEF IInv, RepliesAreGenuine
  <2>3. /\ r.id \in Addressed /\ r.status \in {SUCCESS, FAILED}
        /\ result \in [cmdTable -> {PENDING, SUCCESS, FAILED}]
    BY <2>1 DEF EntriesAreAddressed, IInv, TypeOK, Replies
  <2>4. CASE result[r.id] = PENDING
    <3>1. result' = [result EXCEPT ![r.id] = r.status]
      <4>1. r.status > result[r.id]
        BY <2>3, <2>4 DEF PENDING, SUCCESS, FAILED
      <4> QED
        BY <2>1, <2>3, <4>1
    <3>2. Shown[r.id] = PENDING /\ Shown' = [Shown EXCEPT ![r.id] = r.status]
      BY <2>1, <2>3, <2>4, <3>1 DEF Shown
    <3>3. Board!Show(r.id, r.status)
      BY <2>1, <2>2, <3>2 DEF Board!Show
    <3> QED
      BY <2>3, <3>3 DEF Board!Next
  <2>5. CASE result[r.id] # PENDING
    <3>1. PICK d \in executed : d.id = r.id /\ d.status = result[r.id]
      BY <2>1, <2>3, <2>5 DEF IInv, ResultsAreGenuine
    <3>2. result[r.id] = r.status
      BY <2>2, <3>1 DEF IInv, ExecutedOnce
    <3>3. result' = result
      BY <2>1, <2>3, <3>2
    <3>4. Shown' = Shown
      BY <2>1, <3>3 DEF Shown
    <3> QED
      BY <2>1, <3>4
  <2> QED
    BY <2>4, <2>5
<1>4. CASE UNCHANGED <<cmdTable, executed, result>>
  BY <1>4 DEF Shown
<1> QED
  BY <1>1, <1>2, <1>3, <1>4
  DEF Next, Handler, Register, Handle, SendIdentity, SendBody, Return, Expire,
      CheckSettingTable, vars, tableVars, wireVars

\* Whatever commands, managers and interleavings of handlers, frames and replies:
\* a message is for a manager of its command, has its Result first, is executed
\* once at most and then finishes this Result once (ZMQBroker.cpp:61-91, 305-315).
THEOREM BrokerIsBoard == SafeSpec => ImplementsBoard
<1>1. Init => Board!Init
  BY DEF Init, Board!Init, Shown
<1>2. IInv /\ EntriesAreAddressed /\ [Next]_vars => [Board!Next]_(Board!boardVars)
  BY BoardStep
<1>3. Init => EntriesAreAddressed
  BY AddressedInit
<1>4. IInv /\ EntriesAreAddressed /\ [Next]_vars => EntriesAreAddressed'
  BY AddressedStep
<1>5. QED
  BY <1>1, <1>2, <1>3, <1>4, Inductive, PTL DEF SafeSpec, ImplementsBoard, Board!Spec
=============================================================================
