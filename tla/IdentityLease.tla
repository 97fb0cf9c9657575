---------------------------- MODULE IdentityLease ----------------------------
(***************************************************************************)
(* What the hello exchange promises the device managers, without the table *)
(* in the broker, the sockets, and requests that outlive their client: an  *)
(* identity is offered to one client, kept by it until it ends, and not    *)
(* offered again, not even after that, as long as the broker lives.  A new *)
(* broker starts anew and takes nothing from the clients of the last one.  *)
(***************************************************************************)
EXTENDS Naturals

CONSTANTS Clients,
          Prefixes, PrefixOf,   \* PrefixOf[c]: what the identity of c begins with
          Idents,
          None

VARIABLES term,     \* number of the broker
          given,    \* identities that this broker has given out
          offered,  \* identity under way to a client
          kept      \* identity that a client has

leaseVars == <<term, given, offered, kept>>

Init ==
    /\ term = 1 /\ given = {}
    /\ offered = [c \in Clients |-> None] /\ kept = [c \in Clients |-> None]

Give(p, i) ==
    /\ \A g \in given : g.ident # i
    /\ given' = given \cup {[prefix |-> p, ident |-> i]}

Offer(c, i) ==
    /\ offered[c] = None /\ kept[c] = None
    /\ Give(PrefixOf[c], i)
    /\ offered' = [offered EXCEPT ![c] =
                     [prefix |-> PrefixOf[c], ident |-> i, broker |-> term]]
    /\ UNCHANGED <<term, kept>>

\* The client has asked, but is gone.
Waste(p, i) == Give(p, i) /\ UNCHANGED <<term, offered, kept>>

Keep(c) ==
    /\ offered[c] # None
    /\ kept' = [kept EXCEPT ![c] = offered[c]]
    /\ offered' = [offered EXCEPT ![c] = None]
    /\ UNCHANGED <<term, given>>

Quit(c) ==
    /\ offered' = [offered EXCEPT ![c] = None]
    /\ kept' = [kept EXCEPT ![c] = None]
    /\ UNCHANGED <<term, given>>

\* Offers may get lost.
NewTerm(lost) ==
    /\ term' = term + 1
    /\ given' = {}
    /\ offered' = [c \in Clients |-> IF c \in lost THEN None ELSE offered[c]]
    /\ UNCHANGED kept

Next ==
    \/ \E c \in Clients : Keep(c) \/ Quit(c) \/ \E i \in Idents : Offer(c, i)
    \/ \E p \in Prefixes, i \in Idents : Waste(p, i)
    \/ \E lost \in SUBSET Clients : NewTerm(lost)

Spec == Init /\ [][Next]_leaseVars
=============================================================================
