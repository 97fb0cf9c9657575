-------------------------- MODULE DeviceManagerTable --------------------------
(***************************************************************************)
(* zmq/ZMQDeviceManagerTable: the device managers registered at the        *)
(* broker, in the order of m_deviceManagers.  A DeviceManagerID consists   *)
(* of the prefix (the kind of the manager) and an 8-bit ident.             *)
(***************************************************************************)
EXTENDS Naturals, Sequences

CONSTANTS
    Prefixes,   \* DevicePrefix values of the device managers
    IdentMax    \* UINT8_MAX: the idents are 0..IdentMax

ASSUME IdentAssumption == IdentMax \in Nat

VARIABLE deviceManagers    \* m_deviceManagers

Idents == 0 .. IdentMax
DeviceManagerID == [prefix : Prefixes, ident : Idents]

TableInit == deviceManagers = <<>>

\* ++ on a uint8_t.
Successor(ident, n) == (ident + n) % (IdentMax + 1)

\* The first n entries carry consecutive idents.
Consecutive(n) ==
    \A i \in 1 .. n :
        deviceManagers[i].ident = Successor(deviceManagers[1].ident, i - 1)

\* Faulty FirstEmptyID: stops after the first entry.
SecondID ==
    IF deviceManagers = <<>> THEN 0 ELSE Successor(deviceManagers[1].ident, 1)

\* getFirstEmptyID(): counts from the first entry's ident over the entries, in
\* the order of the vector, up to the first one that breaks the sequence.
FirstEmptyID ==
    IF deviceManagers = <<>> THEN 0
    ELSE LET run == CHOOSE n \in 1 .. Len(deviceManagers) :
                       /\ Consecutive(n)
                       /\ n = Len(deviceManagers) \/ ~ Consecutive(n + 1)
         IN Successor(deviceManagers[1].ident, run)

\* Faulty IsFull: one registration more than there are idents.
IsFullTooLate == Len(deviceManagers) > IdentMax + 1

\* fromPrefix() throws RangeException.
IsFull == Len(deviceManagers) > IdentMax

NewID(prefix) == [prefix |-> prefix, ident |-> FirstEmptyID]

\* Faulty RegisterDaemonPrefix: a prefix is stored for its first manager only.
RegisterNewPrefix(prefix) ==
    /\ ~ IsFull
    /\ deviceManagers' =
         IF \E i \in DOMAIN deviceManagers : deviceManagers[i].prefix = prefix
           THEN deviceManagers
           ELSE Append(deviceManagers, NewID(prefix))

\* registerDaemonPrefix() when it does not throw.
RegisterDaemonPrefix(prefix) ==
    /\ ~ IsFull
    /\ deviceManagers' = Append(deviceManagers, NewID(prefix))

\* unregisterDaemon(): erases the first entry equal to the argument, and
\* throws when there is none.
UnregisterDaemon(id) ==
    \E i \in DOMAIN deviceManagers :
        /\ deviceManagers[i] = id
        /\ \A j \in 1 .. i - 1 : deviceManagers[j] # id
        /\ deviceManagers' = SubSeq(deviceManagers, 1, i - 1)
                             \o SubSeq(deviceManagers, i + 1, Len(deviceManagers))

\* The table under all its public operations, as its unit test uses it.  The
\* broker never unregisters anybody: see HelloRegistration.
TableSpec ==
    /\ TableInit
    /\ [][ \/ \E prefix \in Prefixes : RegisterDaemonPrefix(prefix)
           \/ \E id \in DeviceManagerID : UnregisterDaemon(id) ]_deviceManagers

\* DeviceManagerID.h:10-15: "DeviceManagerID is a unique identification between
\* zmq broker and DeviceManagers".  No two registered managers have the same
\* one.
UniqueIDs ==
    \A i, j \in DOMAIN deviceManagers :
        deviceManagers[i] = deviceManagers[j] => i = j
=============================================================================
