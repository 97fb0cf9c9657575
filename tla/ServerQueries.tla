---------------------------- MODULE ServerQueries ----------------------------
(***************************************************************************)
(* What the device managers and the broker promise of a request to the     *)
(* server, without the threads, the tables, the queues and the messages in *)
(* between: the server answers it once, the device manager learns what the *)
(* server has said to this very request, part by part and possibly never,  *)
(* and the devices that it knows are those of such an answer.              *)
(***************************************************************************)
CONSTANTS Requests,
          Lists,        \* those for the device list
          Possible,     \* Possible[r]: what the server may say to r
          New,          \* a Result before anything is known
          NoDevices

VARIABLES asked,        \* requests sent
          said,         \* what the server has said to them: <<>> or <<result>>
          known,        \* what the device manager has learnt of it, alike
          devices       \* that the device manager knows

queryVars == <<asked, said, known, devices>>

Init ==
    /\ asked = {}
    /\ said = [r \in Requests |-> <<>>] /\ known = [r \in Requests |-> <<>>]
    /\ devices = NoDevices

\* Who asks for the devices forgets those it knows.
Ask(r) ==
    /\ r \notin asked
    /\ asked' = asked \cup {r}
    /\ devices' = IF r \in Lists THEN NoDevices ELSE devices
    /\ UNCHANGED <<said, known>>

Say(r, x) ==
    /\ r \in asked /\ said[r] = <<>>
    /\ said' = [said EXCEPT ![r] = <<x>>]
    /\ UNCHANGED <<asked, known, devices>>

\* The status and the data are each learnt, still unknown or known already.
Learn(r) ==
    /\ said[r] # <<>>
    /\ LET before == IF known[r] = <<>> THEN New ELSE known[r][1] IN
       \E s \in {before.status, said[r][1].status}, d \in {before.data, said[r][1].data} :
            known' = [known EXCEPT ![r] = <<[status |-> s, data |-> d]>>]
    /\ UNCHANGED <<asked, said, devices>>

\* The known devices are those of a list, as far as it has been learnt.
Take(r) ==
    /\ known[r] # <<>>
    /\ devices' = known[r][1].data.value
    /\ UNCHANGED <<asked, said, known>>

Next ==
    \/ \E r \in Requests : Ask(r) \/ Learn(r) \/ \E x \in Possible[r] : Say(r, x)
    \/ \E r \in Lists : Take(r)

Spec == Init /\ [][Next]_queryVars
=============================================================================
