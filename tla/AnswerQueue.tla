----------------------------- MODULE AnswerQueue -----------------------------
(***************************************************************************)
(* core/AnswerQueue, core/Answer and core/Result: the threads that set the *)
(* status of a Result ("writers"), and the threads that wait for updated   *)
(* Answers ("waiters").                                                    *)
(*                                                                         *)
(* A writer changes a Result and raises the dirty flag of its Answer under *)
(* the Answer's lock and then sets the event of the queue.  A waiter       *)
(* scans all queued Answers under the queue mutex, clearing the dirty      *)
(* flags it finds one Answer lock at a time, and blocks on the auto-reset  *)
(* event when it found nothing.                                            *)
(***************************************************************************)
EXTENDS Naturals

CONSTANTS
    Answers,    \* Answer objects constructed over one AnswerQueue
    Results,    \* Result objects
    OwnerOf,    \* OwnerOf[r]: the Answer the Result r was constructed with
    Writers,    \* threads that update Results (handlers, receivers of replies)
    Waiters,    \* threads that call wait()
    None        \* no Answer, no thread

ASSUME OwnerAssumption == OwnerOf \in [Results -> Answers]
ASSUME NoneAssumption == None \notin Answers \cup Waiters

\* enum Result::Status, compared as integers by setStatusUnlocked().
PENDING == 0
SUCCESS == 1
FAILED == 2
Status == {PENDING, SUCCESS, FAILED}

\* The sign of the timeout passed to wait(): 0, positive or negative.
Timeouts == {"zero", "finite", "infinite"}

VARIABLES
    fresh,      \* Answers not constructed yet
    queued,     \* m_answerList
    dirty,      \* m_dirty of every Answer
    status,     \* m_status of every Result
    event,      \* state of m_event
    wpc,        \* program counter of every writer
    holding,    \* the Answer whose lock a writer holds
    mutex,      \* the waiter holding m_mutex across listDirty()
    pc,         \* program counter of every waiter
    timeout,    \* argument of the current wait() of every waiter
    unscanned,  \* Answers listDirty() has still to visit
    found,      \* tmpList of wait()
    handed,     \* Answers of the returned dirtyList not processed yet
    seen        \* history: last status that a client of wait() read

writerVars == <<dirty, status, wpc, holding>>
waiterVars == <<mutex, pc, timeout, unscanned, found, handed, seen>>
vars == <<fresh, queued, event, writerVars, waiterVars>>

Init ==
    /\ fresh = Answers
    /\ queued = {}
    /\ dirty = [a \in Answers |-> FALSE]
    /\ status = [r \in Results |-> PENDING]
    /\ event = FALSE
    /\ wpc = [t \in Writers |-> "idle"]
    /\ holding = [t \in Writers |-> None]
    /\ mutex = None
    /\ pc = [w \in Waiters |-> "client"]
    /\ timeout = [w \in Waiters |-> "finite"]
    /\ unscanned = [w \in Waiters |-> {}]
    /\ found = [w \in Waiters |-> {}]
    /\ handed = [w \in Waiters |-> {}]
    /\ seen = [r \in Results |-> PENDING]

\* No writer is inside the critical section of `a`; waiters hold an Answer's
\* lock only within one step.
Unlocked(a) == \A t \in Writers : holding[t] # a

----------------------------------------------------------------------------
(* The queue's membership. *)

\* Answer::Answer() -> AnswerQueue::add().
Construct(a) ==
    /\ a \in fresh
    /\ mutex = None
    /\ fresh' = fresh \ {a}
    /\ queued' = queued \cup {a}
    /\ UNCHANGED <<event, writerVars, waiterVars>>

\* AnswerQueue::remove(); nothing happens when the Answer is not listed.
Remove(a) ==
    /\ a \in queued
    /\ mutex = None
    /\ queued' = queued \ {a}
    /\ UNCHANGED <<fresh, event, writerVars, waiterVars>>

----------------------------------------------------------------------------
(* Writers. *)

\* ScopedLock on Answer::lock(), taken by Result::setStatus() or by a caller
\* that then uses the ...Unlocked() operations.
Lock(t, a) ==
    /\ wpc[t] = "idle"
    /\ a \notin fresh
    /\ Unlocked(a)
    /\ wpc' = [wpc EXCEPT ![t] = "locked"]
    /\ holding' = [holding EXCEPT ![t] = a]
    /\ UNCHANGED <<fresh, queued, dirty, status, event, waiterVars>>

Unlock(t) ==
    /\ wpc[t] = "locked"
    /\ wpc' = [wpc EXCEPT ![t] = "idle"]
    /\ holding' = [holding EXCEPT ![t] = None]
    /\ UNCHANGED <<fresh, queued, dirty, status, event, waiterVars>>

\* Result::setStatusUnlocked(): a higher status is stored and the Answer
\* becomes dirty.  An equal status returns and a lower one throws, neither
\* changing anything.
SetStatusUnlocked(t, r, s) ==
    /\ wpc[t] = "locked"
    /\ holding[t] = OwnerOf[r]
    /\ s > status[r]
    /\ status' = [status EXCEPT ![r] = s]
    /\ dirty' = [dirty EXCEPT ![OwnerOf[r]] = TRUE]
    /\ wpc' = [wpc EXCEPT ![t] = "notify"]
    /\ UNCHANGED <<fresh, queued, event, holding, waiterVars>>

\* Answer::notifyUpdated() called directly, as CommandDispatcher::dispatch()
\* does for a command no handler accepts.
NotifyUpdated(t) ==
    /\ wpc[t] = "locked"
    /\ dirty' = [dirty EXCEPT ![holding[t]] = TRUE]
    /\ wpc' = [wpc EXCEPT ![t] = "notify"]
    /\ UNCHANGED <<fresh, queued, status, event, holding, waiterVars>>

\* Faulty SetEvent: the dirty flag alone is supposed to wake the waiters.
SetEventForgotten(t) ==
    /\ wpc[t] = "notify"
    /\ wpc' = [wpc EXCEPT ![t] = "locked"]
    /\ UNCHANGED <<fresh, queued, dirty, status, event, holding, waiterVars>>

\* event().set(), the last statement of both notifyUpdated().
SetEvent(t) ==
    /\ wpc[t] = "notify"
    /\ event' = TRUE
    /\ wpc' = [wpc EXCEPT ![t] = "locked"]
    /\ UNCHANGED <<fresh, queued, dirty, status, holding, waiterVars>>

----------------------------------------------------------------------------
(* Waiters. *)

Goto(w, label) == pc' = [pc EXCEPT ![w] = label]

\* A client calls wait() again after it has processed the list it was given.
CallWait(w, kind) ==
    /\ pc[w] = "client"
    /\ handed[w] = {}
    /\ Goto(w, "list")
    /\ timeout' = [timeout EXCEPT ![w] = kind]
    /\ UNCHANGED <<fresh, queued, event, writerVars, mutex, unscanned, found,
                   handed, seen>>

\* listDirty() locks m_mutex and starts over all the listed Answers.
BeginScan(w) ==
    /\ pc[w] = "list"
    /\ mutex = None
    /\ mutex' = w
    /\ Goto(w, "scan")
    /\ unscanned' = [unscanned EXCEPT ![w] = queued]
    /\ UNCHANGED <<fresh, queued, event, writerVars, timeout, found, handed,
                   seen>>

\* The body of the loop of listDirty(), under the lock of one Answer.
ScanAnswer(w, a) ==
    /\ pc[w] = "scan"
    /\ a \in unscanned[w]
    /\ Unlocked(a)
    /\ unscanned' = [unscanned EXCEPT ![w] = @ \ {a}]
    /\ IF dirty[a]
         THEN /\ found' = [found EXCEPT ![w] = @ \cup {a}]
              /\ dirty' = [dirty EXCEPT ![a] = FALSE]
         ELSE UNCHANGED <<found, dirty>>
    /\ UNCHANGED <<fresh, queued, event, status, wpc, holding, mutex, pc,
                   timeout, handed, seen>>

\* Faulty EndScan: m_mutex is still locked when wait() goes on.
EndScanKeepsMutex(w) ==
    /\ pc[w] = "scan"
    /\ unscanned[w] = {}
    /\ handed' = [handed EXCEPT ![w] = found[w]]
    /\ found' = [found EXCEPT ![w] = {}]
    /\ Goto(w, IF found[w] = {} THEN "block" ELSE "client")
    /\ UNCHANGED <<fresh, queued, event, writerVars, mutex, timeout, unscanned,
                   seen>>

\* Faulty EndScan: the event is reset after the scan instead of by the wait.
EndScanResetsEvent(w) ==
    /\ pc[w] = "scan"
    /\ unscanned[w] = {}
    /\ mutex' = None
    /\ event' = FALSE
    /\ handed' = [handed EXCEPT ![w] = found[w]]
    /\ found' = [found EXCEPT ![w] = {}]
    /\ Goto(w, IF found[w] = {} THEN "block" ELSE "client")
    /\ UNCHANGED <<fresh, queued, writerVars, timeout, unscanned, seen>>

\* Faulty EndScan: the flags are cleared in one go after the scan, and those
\* raised behind the scan with them.
EndScanClearsAll(w) ==
    /\ pc[w] = "scan"
    /\ unscanned[w] = {}
    /\ mutex' = None
    /\ dirty' = [a \in Answers |-> dirty[a] /\ a \notin queued]
    /\ handed' = [handed EXCEPT ![w] = found[w]]
    /\ found' = [found EXCEPT ![w] = {}]
    /\ Goto(w, IF found[w] = {} THEN "block" ELSE "client")
    /\ UNCHANGED <<fresh, queued, event, status, wpc, holding, timeout,
                   unscanned, seen>>

\* listDirty() returns: wait() hands a non-empty list to its client, or goes
\* on to block().
EndScan(w) ==
    /\ pc[w] = "scan"
    /\ unscanned[w] = {}
    /\ mutex' = None
    /\ handed' = [handed EXCEPT ![w] = found[w]]
    /\ found' = [found EXCEPT ![w] = {}]
    /\ Goto(w, IF found[w] = {} THEN "block" ELSE "client")
    /\ UNCHANGED <<fresh, queued, event, writerVars, timeout, unscanned, seen>>

\* block() consumes the auto-reset event, and wait() lists again.
ConsumeEvent(w) ==
    /\ pc[w] = "block"
    /\ timeout[w] # "zero"
    /\ event
    /\ event' = FALSE
    /\ Goto(w, "list")
    /\ UNCHANGED <<fresh, queued, writerVars, mutex, timeout, unscanned, found,
                   handed, seen>>

\* block() returns false: at once for a zero timeout, and when tryWait() runs
\* out of time.  Event::tryWait() then leaves the event as it is, even when
\* it was set after the time was up.
GiveUp(w) ==
    /\ pc[w] = "block"
    /\ timeout[w] # "infinite"
    /\ Goto(w, "client")
    /\ UNCHANGED <<fresh, queued, event, writerVars, mutex, timeout, unscanned,
                   found, handed, seen>>

\* The client reads the Results of one Answer of its list, under the lock.
ReadAnswer(w, a) ==
    /\ pc[w] = "client"
    /\ a \in handed[w]
    /\ Unlocked(a)
    /\ handed' = [handed EXCEPT ![w] = @ \ {a}]
    /\ seen' = [r \in Results |-> IF OwnerOf[r] = a THEN status[r] ELSE seen[r]]
    /\ UNCHANGED <<fresh, queued, event, writerVars, mutex, pc, timeout,
                   unscanned, found>>

----------------------------------------------------------------------------

Writer(t) ==
    \/ \E a \in Answers : Lock(t, a)
    \/ Unlock(t)
    \/ \E r \in Results, s \in Status : SetStatusUnlocked(t, r, s)
    \/ NotifyUpdated(t)
    \/ SetEvent(t)

Waiter(w) ==
    \/ \E kind \in Timeouts : CallWait(w, kind)
    \/ BeginScan(w)
    \/ \E a \in Answers : ScanAnswer(w, a)
    \/ EndScan(w)
    \/ ConsumeEvent(w)
    \/ GiveUp(w)
    \/ \E a \in Answers : ReadAnswer(w, a)

Next ==
    \/ \E a \in Answers : Construct(a) \/ Remove(a)
    \/ \E t \in Writers : Writer(t)
    \/ \E w \in Waiters : Waiter(w)

SafeSpec == Init /\ [][Next]_vars

\* A writer inside the critical section leaves it, and a thread that finds a
\* mutex free again and again gets it.  Nothing obliges anybody to update an
\* Answer, and nothing obliges a positive timeout to run out.
Fairness ==
    /\ \A t \in Writers : WF_vars(SetEvent(t)) /\ SF_vars(Unlock(t))
    /\ \A w \in Waiters :
         /\ WF_vars(\E kind \in Timeouts : CallWait(w, kind))
         /\ SF_vars(BeginScan(w))
         /\ WF_vars(EndScan(w))
         /\ SF_vars(ConsumeEvent(w))
         /\ WF_vars(GiveUp(w) /\ timeout[w] = "zero")
         /\ \A a \in Answers : SF_vars(ScanAnswer(w, a)) /\ SF_vars(ReadAnswer(w, a))

Spec == SafeSpec /\ Fairness

----------------------------------------------------------------------------
(* Properties. *)

\* Every variable has its type; m_mutex belongs to the one waiter that is
\* inside listDirty() and an Answer's lock to one writer.
TypeOK ==
    /\ fresh \in SUBSET Answers
    /\ queued \in SUBSET Answers
    /\ dirty \in [Answers -> BOOLEAN]
    /\ status \in [Results -> Status]
    /\ event \in BOOLEAN
    /\ wpc \in [Writers -> {"idle", "locked", "notify"}]
    /\ holding \in [Writers -> Answers \cup {None}]
    /\ \A t \in Writers : wpc[t] = "idle" <=> holding[t] = None
    /\ mutex \in Waiters \cup {None}
    /\ pc \in [Waiters -> {"client", "list", "scan", "block"}]
    /\ \A w \in Waiters : pc[w] = "scan" <=> mutex = w
    /\ timeout \in [Waiters -> Timeouts]
    /\ unscanned \in [Waiters -> SUBSET Answers]
    /\ found \in [Waiters -> SUBSET Answers]
    /\ handed \in [Waiters -> SUBSET Answers]
    /\ seen \in [Results -> Status]

\* w is past the wake-up and has not visited `a` yet.
WillVisit(w, a) == pc[w] = "list" \/ (pc[w] = "scan" /\ a \in unscanned[w])

\* No lost wake-up (AnswerQueue.cpp:11-58 against Result.cpp:53-58): a queued
\* dirty Answer is announced by the event, or its writer is about to set the
\* event, or a waiter is on its way to that very Answer.
NoLostUpdate ==
    \A a \in queued :
        dirty[a] => \/ event
                    \/ \E t \in Writers : wpc[t] = "notify" /\ holding[t] = a
                    \/ \E w \in Waiters : WillVisit(w, a)

\* No client keeps an outdated view (AnswerQueue.h:18-20): when the status a
\* client last read differs from the present one, the queued Answer is dirty
\* or somebody holds it in a list still to be read.
NoStaleView ==
    \A r \in Results :
        LET a == OwnerOf[r] IN
        a \in queued /\ seen[r] # status[r] =>
            dirty[a] \/ \E w \in Waiters : a \in found[w] \cup handed[w]

\* The queue implements UpdateMailbox: the dirty flags of the queued Answers
\* are the unseen updates, and the lists inside wait() and at its clients are
\* what the waiters hold.
Mailbox == INSTANCE UpdateMailbox WITH
    unseen <- {a \in queued : dirty[a]},
    held <- [w \in Waiters |-> found[w] \cup handed[w]]

\* Each update is collected by one waiter or withdrawn with its Answer, and
\* none waits for ever, whatever timeouts the clients use.
ImplementsMailbox == Mailbox!Spec
=============================================================================
