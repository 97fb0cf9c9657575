---------------------------- MODULE UpdateMailbox ----------------------------
(***************************************************************************)
(* What core/AnswerQueue promises its users, without the locks, the event  *)
(* and the scan that keep the promise: an Answer that was updated stays    *)
(* unseen until one waiting thread collects it or the Answer is removed    *)
(* from the queue, a collected Answer is held by that thread until it has  *)
(* been processed, and no update of an Answer that stays queued is         *)
(* forgotten.                                                              *)
(***************************************************************************)
CONSTANTS Answers,   \* Answer objects of one queue
          Waiters    \* threads that call AnswerQueue::wait()

VARIABLES unseen,    \* Answers with an update nobody collected yet
          held       \* held[w]: Answers that w collected and has not processed

mailboxVars == <<unseen, held>>

MailboxTypeOK ==
    /\ unseen \in SUBSET Answers
    /\ held \in [Waiters -> SUBSET Answers]

Init ==
    /\ unseen = {}
    /\ held = [w \in Waiters |-> {}]

\* A Result of `a` changed, or `a` was announced by Answer::notifyUpdated().
Publish(a) ==
    /\ unseen' = unseen \cup {a}
    /\ UNCHANGED held

\* One waiting thread takes the update; nobody else sees the same update.
Collect(w, a) ==
    /\ a \in unseen
    /\ unseen' = unseen \ {a}
    /\ held' = [held EXCEPT ![w] = @ \cup {a}]

\* The Answer leaves the queue with its update, AnswerQueue::remove().
Withdraw(a) ==
    /\ unseen' = unseen \ {a}
    /\ UNCHANGED held

\* The client of wait() has dealt with one Answer of the list it was given.
Process(w, a) ==
    /\ a \in held[w]
    /\ held' = [held EXCEPT ![w] = @ \ {a}]
    /\ UNCHANGED unseen

Next ==
    \/ \E a \in Answers : Publish(a) \/ Withdraw(a)
    \/ \E w \in Waiters, a \in Answers : Collect(w, a) \/ Process(w, a)

Leave(a) == Withdraw(a) \/ \E w \in Waiters : Collect(w, a)

SafeSpec == Init /\ [][Next]_mailboxVars

\* No update waits for ever.
Spec == SafeSpec /\ \A a \in Answers : WF_mailboxVars(Leave(a) /\ a \in unseen)
=============================================================================
