----------------------------- MODULE CommandBoard -----------------------------
(***************************************************************************)
(* What zmq/ZMQBroker promises of the commands that it sends to device     *)
(* managers, without the threads of handle(), the frames and the replies   *)
(* under way: a message has its Result before anybody executes it, it is   *)
(* executed once at most, and its Result is finished once, with the status *)
(* of this execution.                                                      *)
(***************************************************************************)
CONSTANTS Messages,     \* a message for every command and manager it is for
          Managers,
          Pending,      \* status of a new Result
          Final         \* status of a finished one

VARIABLES opened,       \* messages with a Result
          done,         \* executions
          shown         \* status of the Results

boardVars == <<opened, done, shown>>

Init ==
    /\ opened = {} /\ done = {}
    /\ shown = [id \in Messages |-> Pending]

Open(id) ==
    /\ id \notin opened
    /\ opened' = opened \cup {id}
    /\ UNCHANGED <<done, shown>>

\* (By whom is left open: frames may mix.)
Execute(id, m, s) ==
    /\ id \in opened
    /\ \A e \in done : e.id # id
    /\ done' = done \cup {[id |-> id, by |-> m, status |-> s]}
    /\ UNCHANGED <<opened, shown>>

Show(id, s) ==
    /\ id \in opened /\ shown[id] = Pending
    /\ \E e \in done : e.id = id /\ e.status = s
    /\ shown' = [shown EXCEPT ![id] = s]
    /\ UNCHANGED <<opened, done>>

Next ==
    \E id \in Messages :
        \/ Open(id)
        \/ \E m \in Managers, s \in Final : Execute(id, m, s)
        \/ \E s \in Final : Show(id, s)

Spec == Init /\ [][Next]_boardVars
=============================================================================
