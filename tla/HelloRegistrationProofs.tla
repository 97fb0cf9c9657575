----------------------- MODULE HelloRegistrationProofs -----------------------
(***************************************************************************)
(* Safety of HelloRegistration for any number of device managers, idents   *)
(* and restarts.  All follows from one fact about the table: as the broker *)
(* never unregisters anybody, the ident of an entry is its position.       *)
(***************************************************************************)
EXTENDS HelloRegistration, TLAPS

USE IdentAssumption, NoneAssumption, PrefixAssumption, BoundsAssumption
    DEF IdentAssumption, NoneAssumption, PrefixAssumption, BoundsAssumption

\* The idents are handed out in order.
IdentIsPosition ==
    \A i \in DOMAIN deviceManagers : deviceManagers[i].ident = i - 1

\* An identity of the running broker is in its table, one of an earlier
\* broker carries an earlier number.
HeldIsRegistered ==
    \A m \in Managers : \A h \in Held(m) :
        /\ h.broker <= broker
        /\ h.broker = broker =>
             \E k \in DOMAIN deviceManagers :
                deviceManagers[k] = [prefix |-> h.prefix, ident |-> h.ident]

\* The inductive invariant.
IInv == TypeOK /\ IdentIsPosition /\ HeldIsRegistered /\ UniqueIdentity

----------------------------------------------------------------------------
(* The table. *)

LEMMA SmallModulo ==
    ASSUME NEW a \in Nat, NEW b \in Nat, a < b
    PROVE  a % b = a
BY SMT

\* getFirstEmptyID() of a table without gaps.
LEMMA FirstEmptyIsLength ==
    ASSUME deviceManagers \in Seq(DeviceManagerID), IdentIsPosition, ~ IsFull
    PROVE  /\ FirstEmptyID = Len(deviceManagers)
           /\ FirstEmptyID \in Idents
<1> DEFINE L == Len(deviceManagers)
<1>1. L \in Nat /\ L <= IdentMax
  BY DEF IsFull
<1>2. CASE deviceManagers = <<>>
  BY <1>2 DEF FirstEmptyID, Idents
<1>3. CASE deviceManagers # <<>>
  <2>1. L >= 1 /\ deviceManagers[1].ident = 0
    BY <1>1, <1>3 DEF IdentIsPosition
  <2>2. ASSUME NEW n \in 0 .. IdentMax
        PROVE  Successor(deviceManagers[1].ident, n) = n
    BY <2>1, <2>2, SmallModulo DEF Successor
  <2>3. ASSUME NEW n \in 1 .. L
        PROVE  Consecutive(n)
    <3> SUFFICES ASSUME NEW i \in 1 .. n
                 PROVE  deviceManagers[i].ident
                          = Successor(deviceManagers[1].ident, i - 1)
      BY DEF Consecutive
    <3>1. i \in DOMAIN deviceManagers /\ i - 1 \in 0 .. IdentMax
      BY <1>1, <2>3
    <3>2. QED
      BY <3>1, <2>2 DEF IdentIsPosition
  <2> DEFINE P(n) == Consecutive(n) /\ (n = L \/ ~ Consecutive(n + 1))
  <2>4. P(L) /\ L \in 1 .. L
    BY <1>1, <2>1, <2>3
  <2>5. \A n \in 1 .. L : P(n) => n = L
    BY <1>1, <2>3
  <2>6. (CHOOSE n \in 1 .. L : P(n)) = L
    BY <2>4, <2>5
  <2>7. FirstEmptyID = Successor(deviceManagers[1].ident, L)
    BY <1>3, <2>6 DEF FirstEmptyID
  <2>8. QED
    BY <1>1, <2>2, <2>7 DEF Idents
<1>4. QED
  BY <1>2, <1>3

\* A registration appends one entry with the next ident and keeps the others.
LEMMA RegistrationAppends ==
    ASSUME TypeOK, IdentIsPosition, NEW prefix \in Prefixes,
           RegisterDaemonPrefix(prefix)
    PROVE  LET new == [prefix |-> prefix, ident |-> FirstEmptyID] IN
           /\ FirstEmptyID = Len(deviceManagers)
           /\ new \in DeviceManagerID
           /\ deviceManagers' \in Seq(DeviceManagerID)
           /\ Len(deviceManagers') = Len(deviceManagers) + 1
           /\ Len(deviceManagers') <= IdentMax + 1
           /\ \A i \in DOMAIN deviceManagers : deviceManagers'[i] = deviceManagers[i]
           /\ deviceManagers'[Len(deviceManagers')] = new
           /\ IdentIsPosition'
<1> DEFINE new == [prefix |-> prefix, ident |-> FirstEmptyID]
<1>1. /\ FirstEmptyID = Len(deviceManagers)
      /\ FirstEmptyID \in Idents
  BY FirstEmptyIsLength DEF TypeOK, RegisterDaemonPrefix
<1>2. new \in DeviceManagerID
  BY <1>1 DEF DeviceManagerID
<1>3. deviceManagers' = Append(deviceManagers, new)
  BY DEF RegisterDaemonPrefix, NewID
<1>4. /\ deviceManagers' \in Seq(DeviceManagerID)
      /\ Len(deviceManagers') = Len(deviceManagers) + 1
      /\ \A i \in DOMAIN deviceManagers : deviceManagers'[i] = deviceManagers[i]
      /\ deviceManagers'[Len(deviceManagers')] = new
  BY <1>2, <1>3 DEF TypeOK
<1>5. Len(deviceManagers') <= IdentMax + 1
  BY <1>4 DEF RegisterDaemonPrefix, IsFull, TypeOK
<1>6. IdentIsPosition'
  <2> SUFFICES ASSUME NEW i \in DOMAIN deviceManagers'
               PROVE  deviceManagers'[i].ident = i - 1
    BY DEF IdentIsPosition
  <2>1. i \in 1 .. Len(deviceManagers) + 1
    BY <1>4
  <2>2. CASE i \in DOMAIN deviceManagers
    BY <2>2, <1>4 DEF IdentIsPosition
  <2>3. CASE i = Len(deviceManagers) + 1
    BY <2>3, <1>1, <1>4 DEF TypeOK
  <2>4. QED
    BY <2>1, <2>2, <2>3 DEF TypeOK
<1>7. QED
  BY <1>1, <1>2, <1>4, <1>5, <1>6

----------------------------------------------------------------------------
(* The inductive invariant. *)

LEMMA InvInit == Init => IInv
<1> SUFFICES ASSUME Init PROVE IInv
  OBVIOUS
<1>1. deviceManagers = <<>> /\ \A m \in Managers : Held(m) = {}
  BY DEF Init, TableInit, Held
<1>2. TypeOK
  BY DEF Init, TableInit, TypeOK
<1>3. QED
  BY <1>1, <1>2 DEF IInv, IdentIsPosition, HeldIsRegistered, UniqueIdentity

\* A step that leaves the broker alone and gives nobody a new identity.
LEMMA NothingGranted ==
    ASSUME IInv, UNCHANGED <<deviceManagers, broker>>,
           \A m \in Managers : Held(m)' \subseteq Held(m)
    PROVE  IdentIsPosition' /\ HeldIsRegistered' /\ UniqueIdentity'
<1>1. IdentIsPosition' /\ UniqueIdentity'
  BY DEF IInv, IdentIsPosition, UniqueIdentity
<1>2. HeldIsRegistered'
  BY DEF IInv, HeldIsRegistered
<1>3. QED
  BY <1>1, <1>2

\* A registration whose identity goes to the clients in S, at most one.
LEMMA OneGranted ==
    ASSUME IInv, NEW prefix \in Prefixes, RegisterDaemonPrefix(prefix),
           UNCHANGED broker, NEW m \in Managers,
           \A n \in Managers \ {m} : Held(n)' \subseteq Held(n),
           Held(m)' \subseteq Held(m) \cup
             {[prefix |-> prefix, ident |-> FirstEmptyID, broker |-> broker]}
    PROVE  IdentIsPosition' /\ HeldIsRegistered' /\ UniqueIdentity'
<1> DEFINE entry == [prefix |-> prefix, ident |-> FirstEmptyID]
           new == [prefix |-> prefix, ident |-> FirstEmptyID, broker |-> broker]
           L == Len(deviceManagers)
<1>1. /\ FirstEmptyID = L
      /\ deviceManagers' \in Seq(DeviceManagerID)
      /\ Len(deviceManagers') = L + 1
      /\ \A i \in DOMAIN deviceManagers : deviceManagers'[i] = deviceManagers[i]
      /\ deviceManagers'[L + 1] = entry
      /\ IdentIsPosition'
  BY RegistrationAppends DEF IInv
<1>2. L \in Nat /\ DOMAIN deviceManagers = 1 .. L
      /\ DOMAIN deviceManagers' = 1 .. L + 1 /\ broker \in Nat
  BY <1>1 DEF IInv, TypeOK
<1>3. \A n \in Managers : new \notin Held(n)
  <2> SUFFICES ASSUME NEW n \in Managers, new \in Held(n)
               PROVE  FALSE
    OBVIOUS
  <2>1. PICK k \in 1 .. L : deviceManagers[k] = entry
    BY <1>2 DEF IInv, HeldIsRegistered
  <2>2. deviceManagers[k].ident = k - 1 /\ entry.ident = L
    BY <1>1, <1>2 DEF IInv, IdentIsPosition
  <2>3. QED
    BY <1>2, <2>1, <2>2
<1>4. UniqueIdentity'
  <2> SUFFICES ASSUME NEW a \in Managers, NEW b \in Managers,
                      NEW h \in Held(a)' \cap Held(b)'
               PROVE  a = b
    BY DEF UniqueIdentity
  <2>1. CASE h = new
    BY <2>1, <1>3
  <2>2. CASE h # new
    BY <2>2 DEF IInv, UniqueIdentity
  <2>3. QED
    BY <2>1, <2>2
<1>5. HeldIsRegistered'
  <2> SUFFICES ASSUME NEW a \in Managers, NEW h \in Held(a)'
               PROVE  /\ h.broker <= broker
                      /\ h.broker = broker =>
                           \E k \in DOMAIN deviceManagers' : deviceManagers'[k]
                             = [prefix |-> h.prefix, ident |-> h.ident]
    BY DEF HeldIsRegistered
  <2>1. CASE h = new
    BY <2>1, <1>1, <1>2
  <2>2. CASE h # new
    <3>1. h \in Held(a)
      BY <2>2
    <3>2. /\ h.broker <= broker
          /\ h.broker = broker =>
               \E k \in DOMAIN deviceManagers :
                 deviceManagers[k] = [prefix |-> h.prefix, ident |-> h.ident]
      BY <3>1 DEF IInv, HeldIsRegistered
    <3>3. QED
      BY <3>2, <1>1, <1>2
  <2>3. QED
    BY <2>1, <2>2
<1>6. QED
  BY <1>1, <1>4, <1>5

LEMMA InvStep == IInv /\ [Next]_vars => IInv'
<1> SUFFICES ASSUME IInv, [Next]_vars
             PROVE  IInv'
  OBVIOUS
<1> TypeOK
  BY DEF IInv
<1>1. ASSUME NEW m \in Managers, Start(m)
      PROVE  IInv'
  <2>1. TypeOK'
    <3> granted[m] = None
      BY <1>1 DEF TypeOK, Start
    <3>1. starts' \in [Managers -> Nat]
      <4>1. starts[m] + 1 \in Nat
        BY DEF TypeOK
      <4>2. QED
        BY <1>1, <4>1 DEF TypeOK, Start
    <3>2. pc' \in [Managers -> {"down", "asking", "named", "connected", "failed"}]
      BY <1>1 DEF TypeOK, Start, Goto
    <3>3. \A n \in Managers : id'[n] # None <=> pc'[n] \in {"named", "connected"}
      BY <1>1 DEF TypeOK, Start, Goto
    <3>4. \A n \in Managers : granted'[n] # None <=> hello'[n] = "response"
      BY <1>1, <3>1 DEF TypeOK, Start
    <3>5. \A n \in Managers : hello'[n] # "none" <=> pc'[n] = "asking"
      BY <1>1 DEF TypeOK, Start, Goto
    <3>6. QED
      BY <1>1, <3>1, <3>2, <3>3, <3>4, <3>5 DEF TypeOK, Start
  <2>2. \A n \in Managers : Held(n)' \subseteq Held(n)
    BY <1>1 DEF Start, Held
  <2>3. QED
    BY <1>1, <2>1, <2>2, NothingGranted DEF IInv, Start
<1>2. ASSUME NEW m \in Managers, ReceiveResponse(m)
      PROVE  IInv'
  <2>1. TypeOK'
    BY <1>2 DEF TypeOK, ReceiveResponse, Goto
  <2>2. \A n \in Managers : Held(n)' \subseteq Held(n)
    BY <1>2 DEF TypeOK, ReceiveResponse, Held
  <2>3. QED
    BY <1>2, <2>1, <2>2, NothingGranted DEF IInv, ReceiveResponse
<1>3. ASSUME NEW m \in Managers, ReceiveError(m)
      PROVE  IInv'
  <2>1. TypeOK'
    BY <1>3 DEF TypeOK, ReceiveError, Goto
  <2>2. \A n \in Managers : Held(n)' \subseteq Held(n)
    BY <1>3 DEF ReceiveError, Held
  <2>3. QED
    BY <1>3, <2>1, <2>2, NothingGranted DEF IInv, ReceiveError
<1>4. ASSUME NEW m \in Managers, ConfigureDataSockets(m)
      PROVE  IInv'
  <2>1. TypeOK'
    BY <1>4 DEF TypeOK, ConfigureDataSockets, Goto
  <2>2. \A n \in Managers : Held(n)' \subseteq Held(n)
    BY <1>4 DEF ConfigureDataSockets, Held
  <2>3. QED
    BY <1>4, <2>1, <2>2, NothingGranted DEF IInv, ConfigureDataSockets
<1>5. ASSUME NEW m \in Managers, NEW left \in BOOLEAN, Exit(m, left)
      PROVE  IInv'
  <2>1. TypeOK'
    BY <1>5 DEF TypeOK, Exit, Goto
  <2>2. \A n \in Managers : Held(n)' \subseteq Held(n)
    BY <1>5 DEF TypeOK, Exit, Held
  <2>3. QED
    BY <1>5, <2>1, <2>2, NothingGranted DEF IInv, Exit
<1>6. ASSUME NEW m \in Managers, RegisterDeviceManager(m)
      PROVE  IInv'
  <2>1. CASE IsFull
    <3>1. TypeOK'
      <4>1. /\ hello' = [hello EXCEPT ![m] = "error"] /\ hello[m] = "request"
            /\ UNCHANGED <<deviceManagers, granted, broker, starts, pc, id, orphans>>
        BY <1>6, <2>1 DEF RegisterDeviceManager, clientVars
      <4>2. \A n \in Managers :
              /\ hello'[n] # "none" <=> hello[n] # "none"
              /\ hello'[n] = "response" <=> hello[n] = "response"
        BY <4>1 DEF TypeOK
      <4>3. hello' \in [Managers -> {"none", "request", "response", "error", "lost"}]
        BY <4>1 DEF TypeOK
      <4>4. QED
        BY <4>1, <4>2, <4>3 DEF TypeOK
    <3>2. \A n \in Managers : Held(n)' \subseteq Held(n)
      BY <1>6, <2>1 DEF RegisterDeviceManager, clientVars, Held
    <3>3. QED
      BY <1>6, <2>1, <3>1, <3>2, NothingGranted DEF IInv, RegisterDeviceManager
  <2>2. CASE ~ IsFull
    <3> DEFINE new == [prefix |-> PrefixOf[m], ident |-> FirstEmptyID,
                       broker |-> broker]
    <3>1. /\ RegisterDaemonPrefix(PrefixOf[m])
          /\ hello' = [hello EXCEPT ![m] = "response"]
          /\ granted' = [granted EXCEPT ![m] = new]
          /\ UNCHANGED <<broker, starts, pc, id, orphans>>
          /\ PrefixOf[m] \in Prefixes
          /\ hello[m] = "request"
      BY <1>6, <2>2 DEF RegisterDeviceManager, clientVars
    <3>2. /\ [prefix |-> PrefixOf[m], ident |-> FirstEmptyID] \in DeviceManagerID
          /\ deviceManagers' \in Seq(DeviceManagerID)
          /\ Len(deviceManagers') <= IdentMax + 1
      BY <3>1, RegistrationAppends DEF IInv
    <3>3. FirstEmptyID \in Idents
      BY <2>2, FirstEmptyIsLength DEF IInv, TypeOK
    <3>4. new \in Identity
      BY <3>1, <3>3 DEF TypeOK, Identity
    <3>5. TypeOK'
      <4>1. /\ hello' \in [Managers -> {"none", "request", "response", "error", "lost"}]
            /\ \A n \in Managers : hello'[n] # "none" <=> pc'[n] = "asking"
        BY <3>1 DEF TypeOK
      <4>2. granted' \in [Managers -> Identity \cup {None}]
        BY <3>1, <3>4 DEF TypeOK
      <4>3. \A n \in Managers : granted'[n] # None <=> hello'[n] = "response"
        BY <3>1, <3>4 DEF TypeOK
      <4>4. QED
        BY <3>1, <3>2, <4>1, <4>2, <4>3 DEF TypeOK
    <3>6. /\ \A n \in Managers \ {m} : Held(n)' \subseteq Held(n)
          /\ Held(m)' \subseteq Held(m) \cup {new}
      BY <3>1 DEF TypeOK, Held
    <3>7. QED
      BY <3>1, <3>5, <3>6, OneGranted DEF IInv
  <2>3. QED
    BY <2>1, <2>2
<1>7. ASSUME NEW m \in Managers, RegisterOrphan(m)
      PROVE  IInv'
  <2>1. \A n \in Managers : Held(n)' \subseteq Held(n)
    BY <1>7 DEF RegisterOrphan, clientVars, Held
  <2>2. /\ UNCHANGED <<broker, starts, pc, id, hello, granted>>
        /\ orphans' \in [Managers -> Nat]
    BY <1>7 DEF RegisterOrphan, clientVars, TypeOK
  <2>3. CASE RegisterDaemonPrefix(PrefixOf[m])
    <3>1. PrefixOf[m] \in Prefixes
      OBVIOUS
    <3>2. TypeOK'
      BY <2>2, <2>3, <3>1, RegistrationAppends DEF IInv, TypeOK
    <3>3. QED
      BY <2>1, <2>2, <2>3, <3>1, <3>2, OneGranted DEF IInv
  <2>4. CASE UNCHANGED deviceManagers
    <3>1. TypeOK'
      BY <2>2, <2>4 DEF TypeOK
    <3>2. QED
      BY <2>1, <2>2, <2>4, <3>1, NothingGranted DEF IInv
  <2>5. QED
    BY <1>7, <2>3, <2>4 DEF RegisterOrphan
<1>8. ASSUME NEW losing \in SUBSET UnderWay, RestartBroker(losing)
      PROVE  IInv'
  <2>1. TypeOK'
    <3>1. \A m \in Managers : hello'[m] # "none" <=> hello[m] # "none"
      BY <1>8 DEF RestartBroker, UnderWay
    <3>2. \A m \in Managers : granted'[m] # None <=> hello'[m] = "response"
      BY <1>8 DEF RestartBroker, UnderWay, TypeOK
    <3>3. QED
      BY <1>8, <3>1, <3>2 DEF RestartBroker, clientVars, TypeOK
  <2>2. \A n \in Managers : Held(n)' \subseteq Held(n)
    BY <1>8 DEF RestartBroker, clientVars, Held
  <2>3. IdentIsPosition' /\ UniqueIdentity'
    BY <1>8, <2>2 DEF RestartBroker, IInv, IdentIsPosition, UniqueIdentity
  <2>4. \A m \in Managers : \A h \in Held(m)' : h.broker \in Nat
    BY <2>1 DEF TypeOK, Held, Identity
  <2>5. HeldIsRegistered'
    <3> SUFFICES ASSUME NEW a \in Managers, NEW h \in Held(a)'
                 PROVE  h.broker < broker'
      BY <2>1, <2>4 DEF HeldIsRegistered, TypeOK
    <3>1. h.broker <= broker
      BY <2>2 DEF IInv, HeldIsRegistered
    <3>2. QED
      BY <1>8, <2>4, <3>1 DEF RestartBroker, TypeOK
  <2>6. QED
    BY <2>1, <2>3, <2>5 DEF IInv
<1>9. CASE UNCHANGED vars
  <2>1. TypeOK'
    BY <1>9 DEF vars, clientVars, TypeOK
  <2>2. \A n \in Managers : Held(n)' \subseteq Held(n)
    BY <1>9 DEF vars, clientVars, Held
  <2>3. QED
    BY <1>9, <2>1, <2>2, NothingGranted DEF IInv, vars
<1>10. QED
  BY <1>1, <1>2, <1>3, <1>4, <1>5, <1>6, <1>7, <1>8, <1>9 DEF Next, Client

LEMMA Inductive == SafeSpec => []IInv
<1>1. QED
  BY InvInit, InvStep, PTL DEF SafeSpec

----------------------------------------------------------------------------

\* Type correctness; in particular the table never holds more device managers
\* than there are idents (ZMQDeviceManagerTable.cpp:33-40).
THEOREM TypeCorrect == SafeSpec => []TypeOK
<1>1. IInv => TypeOK
  BY DEF IInv
<1>2. QED
  BY <1>1, Inductive, PTL

\* Two clients of one broker never hold the same identity, however often
\* device managers and broker are restarted.
THEOREM IdentitiesAreUnique == SafeSpec => []UniqueIdentity
<1>1. IInv => UniqueIdentity
  BY DEF IInv
<1>2. QED
  BY <1>1, Inductive, PTL

\* A client of the running broker has exactly one entry in its table.
THEOREM ClientsAreRegistered == SafeSpec => []RegisteredOnce
<1>1. IInv => RegisteredOnce
  <2> SUFFICES ASSUME IInv, NEW m \in Managers, NEW h \in Held(m),
                      h.broker = broker
               PROVE  \E k \in DOMAIN deviceManagers :
                        /\ deviceManagers[k].prefix = h.prefix
                        /\ \A l \in DOMAIN deviceManagers :
                             deviceManagers[l].ident = h.ident <=> l = k
    BY DEF RegisteredOnce
  <2>1. PICK k \in DOMAIN deviceManagers :
          deviceManagers[k] = [prefix |-> h.prefix, ident |-> h.ident]
    BY DEF IInv, HeldIsRegistered
  <2>2. deviceManagers[k].prefix = h.prefix /\ deviceManagers[k].ident = h.ident
    BY <2>1
  <2>3. ASSUME NEW l \in DOMAIN deviceManagers
        PROVE  deviceManagers[l].ident = h.ident <=> l = k
    BY <2>2, <2>3 DEF IInv, IdentIsPosition, TypeOK
  <2>4. QED
    BY <2>2, <2>3
<1>2. QED
  BY <1>1, Inductive, PTL

----------------------------------------------------------------------------
(* The refinement of IdentityLease. *)

\* A registration gives out an ident that the broker has not given out before.
LEMMA RegistrationGives ==
    ASSUME IInv, NEW prefix \in Prefixes, RegisterDaemonPrefix(prefix)
    PROVE  /\ FirstEmptyID \in Idents
           /\ Lease!Give(prefix, FirstEmptyID)
<1> DEFINE new == [prefix |-> prefix, ident |-> FirstEmptyID]
           L == Len(deviceManagers)
<1>1. /\ FirstEmptyID = L
      /\ new \in DeviceManagerID
      /\ deviceManagers' \in Seq(DeviceManagerID)
      /\ Len(deviceManagers') = L + 1
      /\ \A i \in DOMAIN deviceManagers : deviceManagers'[i] = deviceManagers[i]
      /\ deviceManagers'[L + 1] = new
  BY RegistrationAppends DEF IInv
<1>2. FirstEmptyID \in Idents
  BY <1>1 DEF DeviceManagerID
<1>3. L \in Nat /\ DOMAIN deviceManagers = 1 .. L /\ DOMAIN deviceManagers' = 1 .. L + 1
  BY <1>1 DEF IInv, TypeOK
<1>4. \A g \in Given : g.ident # FirstEmptyID
  BY <1>1, <1>3 DEF Given, IInv, IdentIsPosition
<1>5. Given' = Given \cup {new}
  <2>1. \A g : g \in Given' <=> \E k \in 1 .. L + 1 : g = deviceManagers'[k]
    BY <1>3 DEF Given
  <2>2. \A g : g \in Given <=> \E k \in 1 .. L : g = deviceManagers[k]
    BY <1>3 DEF Given
  <2>3. \A k : k \in 1 .. L + 1 <=> k \in 1 .. L \/ k = L + 1
    BY <1>3
  <2>4. \A k \in 1 .. L : deviceManagers'[k] = deviceManagers[k]
    BY <1>1, <1>3
  <2>5. \A g : g \in Given' <=> g \in Given \/ g = new
    BY <1>1, <2>1, <2>2, <2>3, <2>4
  <2>6. QED
    BY <2>5, Zenon
<1>6. QED
  BY <1>2, <1>4, <1>5 DEF Lease!Give

LEMMA LeaseInit == Init => Lease!Init
<1> SUFFICES ASSUME Init PROVE Lease!Init
  OBVIOUS
<1>1. Given = {}
  BY DEF Init, TableInit, Given
<1>2. QED
  BY <1>1 DEF Init, Lease!Init

LEMMA LeaseStep == IInv /\ [Next]_vars => [Lease!Next]_<<broker, Given, granted, id>>
<1> SUFFICES ASSUME IInv, [Next]_vars
             PROVE  [Lease!Next]_<<broker, Given, granted, id>>
  OBVIOUS
<1> TypeOK
  BY DEF IInv
<1>1. ASSUME NEW m \in Managers, \/ Start(m) \/ ReceiveError(m) \/ ConfigureDataSockets(m)
      PROVE  UNCHANGED <<broker, Given, granted, id>>
  BY <1>1 DEF Start, ReceiveError, ConfigureDataSockets, Given
<1>2. ASSUME NEW m \in Managers, ReceiveResponse(m)
      PROVE  Lease!Keep(m)
  BY <1>2 DEF ReceiveResponse, Lease!Keep, TypeOK, Given
<1>3. ASSUME NEW m \in Managers, NEW left \in BOOLEAN, Exit(m, left)
      PROVE  Lease!Quit(m)
  BY <1>3 DEF Exit, Lease!Quit, Given
<1>4. ASSUME NEW m \in Managers, RegisterDeviceManager(m)
      PROVE  UNCHANGED <<broker, Given, granted, id>> \/ \E i \in Idents : Lease!Offer(m, i)
  <2>1. CASE IsFull
    BY <1>4, <2>1 DEF RegisterDeviceManager, clientVars, Given
  <2>2. CASE ~ IsFull
    <3>1. /\ RegisterDaemonPrefix(PrefixOf[m])
          /\ granted' = [granted EXCEPT ![m] =
               [prefix |-> PrefixOf[m], ident |-> FirstEmptyID, broker |-> broker]]
          /\ UNCHANGED <<broker, id>>
          /\ PrefixOf[m] \in Prefixes
          /\ hello[m] = "request"
      BY <1>4, <2>2 DEF RegisterDeviceManager, clientVars
    <3>2. FirstEmptyID \in Idents /\ Lease!Give(PrefixOf[m], FirstEmptyID)
      BY <3>1, RegistrationGives
    <3>3. granted[m] = None /\ id[m] = None
      BY <3>1 DEF TypeOK
    <3>4. Lease!Offer(m, FirstEmptyID)
      BY <3>1, <3>2, <3>3 DEF Lease!Offer
    <3>5. QED
      BY <3>2, <3>4
  <2>3. QED
    BY <2>1, <2>2
<1>5. ASSUME NEW m \in Managers, RegisterOrphan(m)
      PROVE  \/ UNCHANGED <<broker, Given, granted, id>>
             \/ \E p \in Prefixes, i \in Idents : Lease!Waste(p, i)
  <2>1. UNCHANGED <<broker, granted, id>> /\ PrefixOf[m] \in Prefixes
    BY <1>5 DEF RegisterOrphan, clientVars
  <2>2. CASE RegisterDaemonPrefix(PrefixOf[m])
    BY <2>1, <2>2, RegistrationGives DEF Lease!Waste
  <2>3. CASE UNCHANGED deviceManagers
    BY <2>1, <2>3 DEF Given
  <2>4. QED
    BY <1>5, <2>2, <2>3 DEF RegisterOrphan
<1>6. ASSUME NEW losing \in SUBSET UnderWay, RestartBroker(losing)
      PROVE  losing \in SUBSET Managers /\ Lease!NewTerm(losing)
  <2>1. Given' = {}
    BY <1>6 DEF RestartBroker, Given
  <2>2. QED
    BY <1>6, <2>1 DEF RestartBroker, clientVars, Lease!NewTerm, UnderWay
<1>7. CASE UNCHANGED vars
  BY <1>7 DEF vars, clientVars, Given
<1>8. QED
  BY <1>1, <1>2, <1>3, <1>4, <1>5, <1>6, <1>7 DEF Next, Client, Lease!Next

\* The hello exchange with its table, sockets, orphaned requests and restarts
\* is a lease of identities.
THEOREM HelloIsLease == SafeSpec => ImplementsLease
<1> QED
  BY LeaseInit, LeaseStep, Inductive, PTL
     DEF SafeSpec, ImplementsLease, Lease!Spec, Lease!leaseVars
=============================================================================
