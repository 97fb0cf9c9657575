-------------------------- MODULE AnswerQueueProofs --------------------------
(***************************************************************************)
(* Safety of AnswerQueue for any set of Answers, Results, writers and      *)
(* waiters.  The inductive invariant adds to TypeOK and to the two         *)
(* properties what each part of wait() leaves behind: a new Answer is      *)
(* clean, nobody holds the lock of an Answer that does not exist, and a    *)
(* client has emptied its list before it waits again.                      *)
(***************************************************************************)
EXTENDS AnswerQueue, TLAPS

USE OwnerAssumption, NoneAssumption DEF OwnerAssumption, NoneAssumption, PENDING, SUCCESS, FAILED, Status, Timeouts

\* What has not been constructed has no history.
FreshIsClean ==
    /\ queued \cap fresh = {}
    /\ \A a \in fresh : ~ dirty[a]
    /\ \A t \in Writers : holding[t] \notin fresh
    /\ \A r \in Results : OwnerOf[r] \in fresh => seen[r] = status[r]

\* listDirty() visits listed Answers only and completely, tmpList is empty
\* outside it, and so is the client's list while the client waits.
ListsAreReturned ==
    /\ \A w \in Waiters : unscanned[w] \subseteq queued
    /\ \A w \in Waiters : pc[w] # "scan" => found[w] = {} /\ unscanned[w] = {}
    /\ \A w \in Waiters : pc[w] # "client" => handed[w] = {}

\* The inductive invariant.
IInv == TypeOK /\ FreshIsClean /\ ListsAreReturned /\ NoLostUpdate /\ NoStaleView

----------------------------------------------------------------------------

LEMMA TypeInit == Init => TypeOK
<1> SUFFICES ASSUME Init PROVE TypeOK
  OBVIOUS
<1>1. \A w \in Waiters : w # None
  OBVIOUS
<1>2. QED
  BY <1>1 DEF Init, TypeOK

LEMMA TypeStep == TypeOK /\ [Next]_vars => TypeOK'
<1> SUFFICES ASSUME TypeOK, [Next]_vars
             PROVE  TypeOK'
  OBVIOUS
<1> USE DEF TypeOK
<1>1. ASSUME NEW a \in Answers, Construct(a)
      PROVE  TypeOK'
  BY <1>1 DEF Construct, writerVars, waiterVars
<1>2. ASSUME NEW a \in Answers, Remove(a)
      PROVE  TypeOK'
  BY <1>2 DEF Remove, writerVars, waiterVars
<1>3. ASSUME NEW t \in Writers, NEW a \in Answers, Lock(t, a)
      PROVE  TypeOK'
  BY <1>3 DEF Lock, waiterVars
<1>4. ASSUME NEW t \in Writers, Unlock(t)
      PROVE  TypeOK'
  BY <1>4 DEF Unlock, waiterVars
<1>5. ASSUME NEW t \in Writers, NEW r \in Results, NEW s \in Status,
             SetStatusUnlocked(t, r, s)
      PROVE  TypeOK'
  BY <1>5 DEF SetStatusUnlocked, waiterVars
<1>6. ASSUME NEW t \in Writers, NotifyUpdated(t)
      PROVE  TypeOK'
  BY <1>6 DEF NotifyUpdated, waiterVars
<1>7. ASSUME NEW t \in Writers, SetEvent(t)
      PROVE  TypeOK'
  BY <1>7 DEF SetEvent, waiterVars
<1>8. ASSUME NEW w \in Waiters, NEW kind \in Timeouts, CallWait(w, kind)
      PROVE  TypeOK'
  BY <1>8 DEF CallWait, Goto, writerVars
<1>9. ASSUME NEW w \in Waiters, BeginScan(w)
      PROVE  TypeOK'
  BY <1>9 DEF BeginScan, Goto, writerVars
<1>10. ASSUME NEW w \in Waiters, NEW a \in Answers, ScanAnswer(w, a)
       PROVE  TypeOK'
  <2>1. found' \in [Waiters -> SUBSET Answers]
    BY <1>10 DEF ScanAnswer
  <2>2. dirty' \in [Answers -> BOOLEAN]
    BY <1>10 DEF ScanAnswer
  <2>3. unscanned' \in [Waiters -> SUBSET Answers]
    BY <1>10 DEF ScanAnswer
  <2>4. UNCHANGED <<fresh, queued, event, status, wpc, holding, mutex, pc,
                    timeout, handed, seen>>
    BY <1>10 DEF ScanAnswer
  <2>5. QED
    BY <2>1, <2>2, <2>3, <2>4
<1>11. ASSUME NEW w \in Waiters, EndScan(w)
       PROVE  TypeOK'
  BY <1>11 DEF EndScan, Goto, writerVars
<1>12. ASSUME NEW w \in Waiters, ConsumeEvent(w)
       PROVE  TypeOK'
  BY <1>12 DEF ConsumeEvent, Goto, writerVars
<1>13. ASSUME NEW w \in Waiters, GiveUp(w)
       PROVE  TypeOK'
  BY <1>13 DEF GiveUp, Goto, writerVars
<1>14. ASSUME NEW w \in Waiters, NEW a \in Answers, ReadAnswer(w, a)
       PROVE  TypeOK'
  BY <1>14 DEF ReadAnswer, writerVars
<1>15. CASE UNCHANGED vars
  BY <1>15 DEF vars, writerVars, waiterVars
<1>16. QED
  BY <1>1, <1>2, <1>3, <1>4, <1>5, <1>6, <1>7, <1>8, <1>9, <1>10, <1>11,
     <1>12, <1>13, <1>14, <1>15 DEF Next, Writer, Waiter

\* Every variable keeps its type and the locks keep their owners, whatever the
\* threads do (AnswerQueue.cpp:27-58, Result.cpp:19-58).
THEOREM TypeCorrect == SafeSpec => []TypeOK
  BY TypeInit, TypeStep, PTL DEF SafeSpec

----------------------------------------------------------------------------

LEMMA FreshStep == TypeOK /\ FreshIsClean /\ [Next]_vars => FreshIsClean'
<1> SUFFICES ASSUME TypeOK, FreshIsClean, [Next]_vars
             PROVE  FreshIsClean'
  OBVIOUS
<1> USE DEF TypeOK, FreshIsClean
<1>1. ASSUME NEW a \in Answers, Construct(a)
      PROVE  FreshIsClean'
  BY <1>1 DEF Construct, writerVars, waiterVars
<1>2. ASSUME NEW a \in Answers, Remove(a)
      PROVE  FreshIsClean'
  BY <1>2 DEF Remove, writerVars, waiterVars
<1>3. ASSUME NEW t \in Writers, Writer(t)
      PROVE  FreshIsClean'
  <2>1. ASSUME NEW a \in Answers, Lock(t, a)
        PROVE  FreshIsClean'
    BY <2>1 DEF Lock, waiterVars
  <2>2. CASE Unlock(t)
    BY <2>2 DEF Unlock, waiterVars
  <2>3. ASSUME NEW r \in Results, NEW s \in Status, SetStatusUnlocked(t, r, s)
        PROVE  FreshIsClean'
    BY <2>3 DEF SetStatusUnlocked, waiterVars
  <2>4. CASE NotifyUpdated(t)
    BY <2>4 DEF NotifyUpdated, waiterVars
  <2>5. CASE SetEvent(t)
    BY <2>5 DEF SetEvent, waiterVars
  <2>6. QED
    BY <1>3, <2>1, <2>2, <2>3, <2>4, <2>5 DEF Writer
<1>4. ASSUME NEW w \in Waiters, Waiter(w)
      PROVE  FreshIsClean'
  <2>1. ASSUME NEW a \in Answers, ScanAnswer(w, a)
        PROVE  FreshIsClean'
    <3>1. fresh' = fresh /\ queued' = queued /\ holding' = holding
      BY <2>1 DEF ScanAnswer
    <3>2. status' = status /\ seen' = seen
      BY <2>1 DEF ScanAnswer
    <3>3. \A b \in Answers : dirty'[b] => dirty[b]
      BY <2>1 DEF ScanAnswer
    <3>4. QED
      BY <3>1, <3>2, <3>3
  <2>2. ASSUME NEW a \in Answers, ReadAnswer(w, a)
        PROVE  FreshIsClean'
    BY <2>2 DEF ReadAnswer, writerVars
  <2>3. CASE \/ \E kind \in Timeouts : CallWait(w, kind)
             \/ BeginScan(w) \/ EndScan(w) \/ ConsumeEvent(w) \/ GiveUp(w)
    <3>1. UNCHANGED <<fresh, queued, dirty, holding, status, seen>>
      BY <2>3 DEF CallWait, BeginScan, EndScan, ConsumeEvent, GiveUp, writerVars
    <3>2. QED
      BY <3>1
  <2>4. QED
    BY <1>4, <2>1, <2>2, <2>3 DEF Waiter
<1>5. CASE UNCHANGED vars
  BY <1>5 DEF vars, writerVars, waiterVars
<1>6. QED
  BY <1>1, <1>2, <1>3, <1>4, <1>5 DEF Next

LEMMA ListsStep == TypeOK /\ ListsAreReturned /\ [Next]_vars => ListsAreReturned'
<1> SUFFICES ASSUME TypeOK, ListsAreReturned, [Next]_vars
             PROVE  ListsAreReturned'
  OBVIOUS
<1> USE DEF TypeOK, ListsAreReturned
<1>1. CASE \/ \E a \in Answers : Construct(a)
           \/ \E t \in Writers : Writer(t)
           \/ UNCHANGED vars
  <2>1. UNCHANGED waiterVars /\ queued \subseteq queued'
    BY <1>1 DEF Construct, Writer, Lock, Unlock, SetStatusUnlocked,
                NotifyUpdated, SetEvent, vars
  <2>2. QED
    BY <2>1 DEF waiterVars
<1>2. ASSUME NEW a \in Answers, Remove(a)
      PROVE  ListsAreReturned'
  <2>1. \A w \in Waiters : unscanned[w] = {}
    BY <1>2 DEF Remove
  <2>2. UNCHANGED waiterVars
    BY <1>2 DEF Remove
  <2>3. QED
    BY <2>1, <2>2 DEF waiterVars
<1>3. ASSUME NEW w \in Waiters, Waiter(w)
      PROVE  ListsAreReturned'
  <2>1. ASSUME NEW kind \in Timeouts, CallWait(w, kind)
        PROVE  ListsAreReturned'
    BY <2>1 DEF CallWait, Goto
  <2>2. CASE BeginScan(w)
    BY <2>2 DEF BeginScan, Goto
  <2>3. ASSUME NEW a \in Answers, ScanAnswer(w, a)
        PROVE  ListsAreReturned'
    <3>1. pc' = pc /\ handed' = handed /\ pc[w] = "scan"
      BY <2>3 DEF ScanAnswer
    <3>2. /\ queued' = queued
          /\ \A v \in Waiters : unscanned'[v] \subseteq unscanned[v]
          /\ \A v \in Waiters : v # w => found'[v] = found[v]
      BY <2>3 DEF ScanAnswer
    <3>3. QED
      BY <3>1, <3>2
  <2>4. CASE EndScan(w)
    BY <2>4 DEF EndScan, Goto
  <2>5. CASE ConsumeEvent(w)
    BY <2>5 DEF ConsumeEvent, Goto
  <2>6. CASE GiveUp(w)
    BY <2>6 DEF GiveUp, Goto
  <2>7. ASSUME NEW a \in Answers, ReadAnswer(w, a)
        PROVE  ListsAreReturned'
    BY <2>7 DEF ReadAnswer
  <2>8. QED
    BY <1>3, <2>1, <2>2, <2>3, <2>4, <2>5, <2>6, <2>7 DEF Waiter
<1>4. QED
  BY <1>1, <1>2, <1>3 DEF Next

----------------------------------------------------------------------------

LEMMA NoLostUpdateStep ==
    TypeOK /\ FreshIsClean /\ NoLostUpdate /\ [Next]_vars => NoLostUpdate'
<1> SUFFICES ASSUME TypeOK, FreshIsClean, NoLostUpdate, [Next]_vars,
                    NEW b \in queued', dirty'[b]
             PROVE  \/ event'
                    \/ \E t \in Writers : wpc'[t] = "notify" /\ holding'[t] = b
                    \/ \E w \in Waiters : WillVisit(w, b)'
  BY DEF NoLostUpdate
<1> DEFINE Notifying(x) == \E t \in Writers : wpc[t] = "notify" /\ holding[t] = x
           Visited(x) == \E w \in Waiters : WillVisit(w, x)
<1> USE DEF TypeOK, WillVisit
<1>1. b \in queued /\ dirty[b] => event \/ Notifying(b) \/ Visited(b)
  BY DEF NoLostUpdate
<1>2. ASSUME NEW a \in Answers, Construct(a)
      PROVE  event' \/ Notifying(b)' \/ Visited(b)'
  BY <1>1, <1>2 DEF Construct, FreshIsClean, writerVars, waiterVars
<1>3. ASSUME NEW a \in Answers, Remove(a)
      PROVE  event' \/ Notifying(b)' \/ Visited(b)'
  BY <1>1, <1>3 DEF Remove, writerVars, waiterVars
<1>4. ASSUME NEW t \in Writers, Writer(t)
      PROVE  event' \/ Notifying(b)' \/ Visited(b)'
  <2>1. ASSUME NEW a \in Answers, Lock(t, a)
        PROVE  event' \/ Notifying(b)' \/ Visited(b)'
    BY <1>1, <2>1 DEF Lock, waiterVars
  <2>2. CASE Unlock(t)
    BY <1>1, <2>2 DEF Unlock, waiterVars
  <2>3. ASSUME NEW r \in Results, NEW s \in Status, SetStatusUnlocked(t, r, s)
        PROVE  event' \/ Notifying(b)' \/ Visited(b)'
    <3>1. CASE b = OwnerOf[r]
      BY <2>3, <3>1 DEF SetStatusUnlocked
    <3>2. CASE b # OwnerOf[r]
      BY <1>1, <2>3, <3>2 DEF SetStatusUnlocked, waiterVars
    <3>3. QED
      BY <3>1, <3>2
  <2>4. CASE NotifyUpdated(t)
    <3>1. CASE b = holding[t]
      BY <2>4, <3>1 DEF NotifyUpdated
    <3>2. CASE b # holding[t]
      BY <1>1, <2>4, <3>2 DEF NotifyUpdated, waiterVars
    <3>3. QED
      BY <3>1, <3>2
  <2>5. CASE SetEvent(t)
    BY <2>5 DEF SetEvent
  <2>6. QED
    BY <1>4, <2>1, <2>2, <2>3, <2>4, <2>5 DEF Writer
<1>5. ASSUME NEW w \in Waiters, Waiter(w)
      PROVE  event' \/ Notifying(b)' \/ Visited(b)'
  <2>1. ASSUME NEW kind \in Timeouts, CallWait(w, kind)
        PROVE  Visited(b)'
    BY <2>1 DEF CallWait, Goto
  <2>2. CASE BeginScan(w)
    BY <2>2 DEF BeginScan, Goto
  <2>3. ASSUME NEW a \in Answers, ScanAnswer(w, a)
        PROVE  event' \/ Notifying(b)' \/ Visited(b)'
    <3>1. b # a /\ dirty[b] /\ b \in queued
      BY <2>3 DEF ScanAnswer
    <3>2. event' = event /\ wpc' = wpc /\ holding' = holding /\ pc' = pc
      BY <2>3 DEF ScanAnswer
    <3>3. \A v \in Waiters : b \in unscanned[v] => b \in unscanned'[v]
      BY <2>3, <3>1 DEF ScanAnswer
    <3>4. QED
      BY <1>1, <3>1, <3>2, <3>3
  <2>4. CASE EndScan(w)
    BY <1>1, <2>4 DEF EndScan, Goto, writerVars
  <2>5. CASE ConsumeEvent(w)
    BY <2>5 DEF ConsumeEvent, Goto
  <2>6. CASE GiveUp(w)
    BY <1>1, <2>6 DEF GiveUp, Goto, writerVars
  <2>7. ASSUME NEW a \in Answers, ReadAnswer(w, a)
        PROVE  event' \/ Notifying(b)' \/ Visited(b)'
    BY <1>1, <2>7 DEF ReadAnswer, writerVars
  <2>8. QED
    BY <1>5, <2>1, <2>2, <2>3, <2>4, <2>5, <2>6, <2>7 DEF Waiter
<1>6. CASE UNCHANGED vars
  BY <1>1, <1>6 DEF vars, writerVars, waiterVars
<1>7. QED
  BY <1>2, <1>3, <1>4, <1>5, <1>6 DEF Next

----------------------------------------------------------------------------

LEMMA NoStaleViewStep ==
    /\ TypeOK /\ FreshIsClean /\ ListsAreReturned /\ NoStaleView
    /\ [Next]_vars
    => NoStaleView'
<1> SUFFICES ASSUME TypeOK, FreshIsClean, ListsAreReturned, NoStaleView,
                    [Next]_vars,
                    NEW q \in Results, OwnerOf[q] \in queued',
                    seen'[q] # status'[q]
             PROVE  \/ dirty'[OwnerOf[q]]
                    \/ \E w \in Waiters : OwnerOf[q] \in found'[w] \cup handed'[w]
  BY DEF NoStaleView
<1> DEFINE b == OwnerOf[q]
           Listed == \E w \in Waiters : b \in found[w] \cup handed[w]
<1> USE DEF TypeOK
<1>1. b \in queued /\ seen[q] # status[q] => dirty[b] \/ Listed
  BY DEF NoStaleView
<1>2. ASSUME NEW a \in Answers, Construct(a)
      PROVE  dirty'[b] \/ Listed'
  BY <1>1, <1>2 DEF Construct, FreshIsClean, writerVars, waiterVars
<1>3. ASSUME NEW a \in Answers, Remove(a)
      PROVE  dirty'[b] \/ Listed'
  BY <1>1, <1>3 DEF Remove, writerVars, waiterVars
<1>4. ASSUME NEW t \in Writers, Writer(t)
      PROVE  dirty'[b] \/ Listed'
  <2>1. ASSUME NEW a \in Answers, Lock(t, a)
        PROVE  dirty'[b] \/ Listed'
    BY <1>1, <2>1 DEF Lock, waiterVars
  <2>2. CASE Unlock(t)
    BY <1>1, <2>2 DEF Unlock, waiterVars
  <2>3. ASSUME NEW r \in Results, NEW s \in Status, SetStatusUnlocked(t, r, s)
        PROVE  dirty'[b] \/ Listed'
    <3>1. CASE q = r
      BY <2>3, <3>1 DEF SetStatusUnlocked
    <3>2. CASE q # r
      <4>1. b \in queued /\ seen[q] # status[q]
        BY <2>3, <3>2 DEF SetStatusUnlocked, waiterVars
      <4>2. dirty[b] => dirty'[b]
        BY <2>3 DEF SetStatusUnlocked
      <4>3. found' = found /\ handed' = handed
        BY <2>3 DEF SetStatusUnlocked, waiterVars
      <4>4. QED
        BY <1>1, <4>1, <4>2, <4>3
    <3>3. QED
      BY <3>1, <3>2
  <2>4. CASE NotifyUpdated(t)
    <3>1. b \in queued /\ seen[q] # status[q]
      BY <2>4 DEF NotifyUpdated, waiterVars
    <3>2. dirty[b] => dirty'[b]
      BY <2>4 DEF NotifyUpdated
    <3>3. found' = found /\ handed' = handed
      BY <2>4 DEF NotifyUpdated, waiterVars
    <3>4. QED
      BY <1>1, <3>1, <3>2, <3>3
  <2>5. CASE SetEvent(t)
    BY <1>1, <2>5 DEF SetEvent, waiterVars
  <2>6. QED
    BY <1>4, <2>1, <2>2, <2>3, <2>4, <2>5 DEF Writer
<1>5. ASSUME NEW w \in Waiters, Waiter(w)
      PROVE  dirty'[b] \/ Listed'
  <2>1. ASSUME NEW a \in Answers, ScanAnswer(w, a)
        PROVE  dirty'[b] \/ Listed'
    <3>1. b \in queued /\ seen[q] # status[q] /\ handed' = handed
      BY <2>1 DEF ScanAnswer
    <3>2. \A v \in Waiters : found[v] \subseteq found'[v]
      BY <2>1 DEF ScanAnswer
    <3>3. dirty[b] => dirty'[b] \/ b \in found'[w]
      BY <2>1 DEF ScanAnswer
    <3>4. QED
      BY <1>1, <3>1, <3>2, <3>3
  <2>2. CASE EndScan(w)
    <3>1. b \in queued /\ seen[q] # status[q] /\ dirty' = dirty
      BY <2>2 DEF EndScan, writerVars
    <3>2. handed[w] = {} /\ handed'[w] = found[w]
      BY <2>2 DEF EndScan, ListsAreReturned
    <3>3. \A v \in Waiters : v # w => found'[v] = found[v] /\ handed'[v] = handed[v]
      BY <2>2 DEF EndScan
    <3>4. QED
      BY <1>1, <3>1, <3>2, <3>3
  <2>3. ASSUME NEW a \in Answers, ReadAnswer(w, a)
        PROVE  dirty'[b] \/ Listed'
    <3>1. a # b /\ b \in queued /\ seen[q] # status[q] /\ dirty' = dirty
      BY <2>3 DEF ReadAnswer, writerVars
    <3>2. found' = found /\ \A v \in Waiters : b \in handed[v] => b \in handed'[v]
      BY <2>3, <3>1 DEF ReadAnswer
    <3>3. QED
      BY <1>1, <3>1, <3>2
  <2>4. CASE \/ \E kind \in Timeouts : CallWait(w, kind)
             \/ BeginScan(w) \/ ConsumeEvent(w) \/ GiveUp(w)
    <3>1. UNCHANGED <<queued, dirty, status, seen, found, handed>>
      BY <2>4 DEF CallWait, BeginScan, ConsumeEvent, GiveUp, writerVars
    <3>2. QED
      BY <1>1, <3>1
  <2>5. QED
    BY <1>5, <2>1, <2>2, <2>3, <2>4 DEF Waiter
<1>6. CASE UNCHANGED vars
  BY <1>1, <1>6 DEF vars, writerVars, waiterVars
<1>7. QED
  BY <1>2, <1>3, <1>4, <1>5, <1>6 DEF Next

LEMMA Inductive == SafeSpec => []IInv
<1>1. Init => IInv
  BY TypeInit DEF Init, IInv, TypeOK, FreshIsClean, ListsAreReturned, NoLostUpdate,
         NoStaleView
<1>2. IInv /\ [Next]_vars => TypeOK'
  BY TypeStep DEF IInv
<1>3. IInv /\ [Next]_vars => IInv'
  BY <1>2, FreshStep, ListsStep, NoLostUpdateStep, NoStaleViewStep DEF IInv
<1>4. QED
  BY <1>1, <1>3, PTL DEF SafeSpec

\* A dirty Answer in the queue is never left without the event set, its writer
\* about to set it, or a waiter on its way (AnswerQueue.cpp:11-58).
THEOREM NoUpdateIsLost == SafeSpec => []NoLostUpdate
<1>1. IInv => NoLostUpdate
  BY DEF IInv
<1>2. QED
  BY <1>1, Inductive, PTL

\* A client whose view of a Result is outdated has another delivery of that
\* Answer ahead (AnswerQueue.h:18-20).
THEOREM NoViewIsStale == SafeSpec => []NoStaleView
<1>1. IInv => NoStaleView
  BY DEF IInv
<1>2. QED
  BY <1>1, Inductive, PTL

----------------------------------------------------------------------------
(* The refinement. *)

Unseen == {a \in queued : dirty[a]}
Held == [w \in Waiters |-> found[w] \cup handed[w]]

LEMMA MailboxStep ==
    TypeOK /\ ListsAreReturned /\ FreshIsClean /\ [Next]_vars
    => [Mailbox!Next]_(Mailbox!mailboxVars)
<1> SUFFICES ASSUME TypeOK, ListsAreReturned, FreshIsClean, [Next]_vars
             PROVE  Mailbox!Next \/ (Unseen' = Unseen /\ Held' = Held)
  BY DEF Mailbox!mailboxVars, Unseen, Held
<1> USE DEF TypeOK, Unseen, Held
<1>1. ASSUME NEW a \in Answers, Construct(a)
      PROVE  Unseen' = Unseen /\ Held' = Held
  BY <1>1 DEF Construct, FreshIsClean, writerVars, waiterVars
<1>2. ASSUME NEW a \in Answers, Remove(a)
      PROVE  Mailbox!Withdraw(a)
  <2>1. Unseen' = Unseen \ {a}
    BY <1>2 DEF Remove, writerVars
  <2>2. Held' = Held
    BY <1>2 DEF Remove, waiterVars
  <2>3. QED
    BY <2>1, <2>2 DEF Mailbox!Withdraw
<1>3. ASSUME NEW t \in Writers, Writer(t)
      PROVE  \/ \E a \in Answers : Mailbox!Publish(a)
             \/ Unseen' = Unseen /\ Held' = Held
  <2>1. Held' = Held
    BY <1>3 DEF Writer, Lock, Unlock, SetStatusUnlocked, NotifyUpdated, SetEvent,
                waiterVars
  <2>2. CASE \/ \E a \in Answers : Lock(t, a)
             \/ Unlock(t) \/ SetEvent(t)
    <3>1. queued' = queued /\ dirty' = dirty
      BY <2>2 DEF Lock, Unlock, SetEvent
    <3>2. QED
      BY <2>1, <3>1
  <2>3. ASSUME NEW a \in Answers, queued' = queued,
               dirty' = [dirty EXCEPT ![a] = TRUE]
        PROVE  \/ Mailbox!Publish(a)
               \/ Unseen' = Unseen /\ Held' = Held
    <3>1. CASE a \in queued
      <4>1. Unseen' = Unseen \cup {a}
        BY <2>3, <3>1
      <4>2. QED
        BY <2>1, <4>1 DEF Mailbox!Publish
    <3>2. CASE a \notin queued
      BY <2>1, <2>3, <3>2
    <3>3. QED
      BY <3>1, <3>2
  <2>4. ASSUME NEW r \in Results, NEW x \in Status, SetStatusUnlocked(t, r, x)
        PROVE  \/ \E a \in Answers : Mailbox!Publish(a)
               \/ Unseen' = Unseen /\ Held' = Held
    BY <2>3, <2>4 DEF SetStatusUnlocked
  <2>5. CASE NotifyUpdated(t)
    <3>1. holding[t] \in Answers
      BY <2>5 DEF NotifyUpdated
    <3>2. QED
      BY <2>3, <2>5, <3>1 DEF NotifyUpdated
  <2>6. QED
    BY <1>3, <2>2, <2>4, <2>5 DEF Writer
<1>4. ASSUME NEW w \in Waiters, Waiter(w)
      PROVE  \/ \E a \in Answers : Mailbox!Collect(w, a) \/ Mailbox!Process(w, a)
             \/ Unseen' = Unseen /\ Held' = Held
  <2>1. ASSUME NEW a \in Answers, ScanAnswer(w, a)
        PROVE  \/ Mailbox!Collect(w, a)
               \/ Unseen' = Unseen /\ Held' = Held
    <3>1. CASE ~ dirty[a]
      BY <2>1, <3>1 DEF ScanAnswer
    <3>2. CASE dirty[a] /\ a \in queued
      <4>1. Unseen' = Unseen \ {a}
        BY <2>1, <3>2 DEF ScanAnswer
      <4>2. /\ found' = [found EXCEPT ![w] = @ \cup {a}]
            /\ handed' = handed
        BY <2>1, <3>2 DEF ScanAnswer
      <4>3. found \in [Waiters -> SUBSET Answers]
        BY DEF TypeOK
      <4>4. Held' = [Held EXCEPT ![w] = @ \cup {a}]
        <5> HIDE DEF TypeOK
        <5>1. \A v \in Waiters : found'[v] \cup handed'[v]
                = IF v = w THEN (found[w] \cup handed[w]) \cup {a}
                           ELSE found[v] \cup handed[v]
          <6> SUFFICES ASSUME NEW v \in Waiters
                       PROVE  found'[v] \cup handed'[v]
                                = IF v = w THEN (found[w] \cup handed[w]) \cup {a}
                                           ELSE found[v] \cup handed[v]
            OBVIOUS
          <6>1. found'[v] = IF v = w THEN found[w] \cup {a} ELSE found[v]
            BY <4>2, <4>3
          <6>2. QED
            BY ONLY <6>1, <4>2
        <5>2. QED
          BY <5>1
      <4>5. QED
        BY <3>2, <4>1, <4>4 DEF Mailbox!Collect
    <3>3. a \in queued
      BY <2>1 DEF ScanAnswer, ListsAreReturned
    <3>4. QED
      BY <3>1, <3>2, <3>3
  <2>2. CASE EndScan(w)
    <3>1. queued' = queued /\ dirty' = dirty
      BY <2>2 DEF EndScan, writerVars
    <3>2. handed[w] = {}
      BY <2>2 DEF EndScan, ListsAreReturned
    <3>3. Held' = Held
      BY <2>2, <3>2 DEF EndScan
    <3>4. QED
      BY <3>1, <3>3
  <2>3. ASSUME NEW a \in Answers, ReadAnswer(w, a)
        PROVE  Mailbox!Process(w, a)
    <3>1. found[w] = {} /\ a \in handed[w]
      BY <2>3 DEF ReadAnswer, ListsAreReturned
    <3>2. Held' = [Held EXCEPT ![w] = @ \ {a}]
      BY <2>3, <3>1 DEF ReadAnswer
    <3>3. Unseen' = Unseen
      BY <2>3 DEF ReadAnswer, writerVars
    <3>4. QED
      BY <3>1, <3>2, <3>3 DEF Mailbox!Process
  <2>4. CASE \/ \E kind \in Timeouts : CallWait(w, kind)
             \/ BeginScan(w) \/ ConsumeEvent(w) \/ GiveUp(w)
    <3>1. UNCHANGED <<queued, dirty, found, handed>>
      BY <2>4 DEF CallWait, BeginScan, ConsumeEvent, GiveUp, writerVars
    <3>2. QED
      BY <3>1
  <2>5. QED
    BY <1>4, <2>1, <2>2, <2>3, <2>4 DEF Waiter
<1>5. CASE UNCHANGED vars
  BY <1>5 DEF vars, writerVars, waiterVars
<1>6. QED
  BY <1>1, <1>2, <1>3, <1>4, <1>5 DEF Next, Mailbox!Next

\* The queue with its locks and its event behaves like a mailbox in which one
\* waiting thread takes each update (AnswerQueue.h:13-31).
THEOREM QueueIsMailbox == SafeSpec => Mailbox!SafeSpec
<1>1. Init => Mailbox!Init
  BY DEF Init, Mailbox!Init
<1>2. IInv /\ [Next]_vars => [Mailbox!Next]_(Mailbox!mailboxVars)
  BY MailboxStep DEF IInv
<1>3. QED
  BY <1>1, <1>2, Inductive, PTL DEF SafeSpec, Mailbox!SafeSpec
=============================================================================
