--------------------------- MODULE PipeExportProofs ---------------------------
(***************************************************************************)
(* Safety of PipeExport for any number of exports and any sizes.  All      *)
(* follows from the mutex: what the holder has written is the end of what  *)
(* went into the pipe, and nobody else touches its descriptor.             *)
(***************************************************************************)
EXTENDS PipeExport, TLAPS, FiniteSetTheorems, SequenceTheorems

USE SizesAssumption, NoneAssumption DEF SizesAssumption, NoneAssumption

\* Inside exportData().
Working == Labels \ {"new", "done"}

\* With an open pipe.
Holding == {"stat", "format", "write", "catch", "close"}

\* Whoever is inside exportData() holds the mutex.
MutexHeld == \A e \in Exports : pc[e] \in Working <=> mutex = e

\* An open descriptor belongs to a holder of the mutex that will close it.
DescriptorInUse ==
    fd = "exporter" => mutex \in Exports /\ pc[mutex] \in Holding

\* The records of the mutex's holder are the last `written` of the stream;
\* a call that has not begun has none.
EndIsHolders ==
    /\ written <= Len(stream) \/ mutex = None
    /\ \A e \in Exports :
        /\ mutex = e => \A i \in DOMAIN stream : stream[i] = e <=> i > Len(stream) - written
        /\ pc[e] = "new" => \A i \in DOMAIN stream : stream[i] # e

\* How much is written at which point of ship().
WrittenSoFar ==
    \A e \in Exports :
        /\ pc[e] \in {"open", "make", "stat", "format"} => written = 0
        /\ pc[e] \in {"write", "catch"} => written < Length
        /\ pc[e] = "shipped" =>
            /\ outcome[e] # "none"
            /\ outcome[e] = "written" <=> written = Length
            /\ outcome[e] = "dropped" => written = 0

\* The inductive invariant.
IInv ==
    /\ TypeOK /\ MutexHeld /\ DescriptorInUse /\ EndIsHolders /\ WrittenSoFar
    /\ RecordsStayTogether /\ OutcomeIsTrue

----------------------------------------------------------------------------
(* The stream. *)

\* The positions of a record in the stream.
Places(e) == {i \in DOMAIN stream : stream[i] = e}

\* What a write adds to the stream.
LEMMA StreamGrows ==
    ASSUME NEW s \in Seq(Exports), NEW e \in Exports, NEW n \in Nat
    PROVE  LET t == s \o [i \in 1..n |-> e] IN
           /\ t \in Seq(Exports)
           /\ Len(t) = Len(s) + n
           /\ \A i \in 1..(Len(s) + n) : t[i] = IF i <= Len(s) THEN s[i] ELSE e
<1> DEFINE new == [i \in 1..n |-> e]
<1>1. new \in Seq(Exports) /\ Len(new) = n /\ \A i \in 1..n : new[i] = e
  BY IsASeq
<1>2. /\ s \o new \in Seq(Exports)
      /\ Len(s \o new) = Len(s) + n
      /\ \A i \in 1..(Len(s) + n) : (s \o new)[i] = IF i <= Len(s) THEN s[i] ELSE new[i - Len(s)]
  BY <1>1, ConcatProperties
<1>3. ASSUME NEW i \in 1..(Len(s) + n), ~ (i <= Len(s)) PROVE new[i - Len(s)] = e
  <2>1. Len(s) \in Nat
    OBVIOUS
  <2>2. i - Len(s) \in 1..n
    BY <1>3, <2>1
  <2> QED
    BY <2>2, <1>1
<1> QED
  BY <1>2, <1>3

\* A count is a natural number, and the holder's is `written`.
LEMMA HoldersCount ==
    ASSUME IInv, NEW e \in Exports, mutex = e
    PROVE  Count(e) = written
<1>1. Len(stream) \in Nat /\ written \in Nat /\ written <= Len(stream)
      /\ DOMAIN stream = 1..Len(stream)
  BY DEF IInv, TypeOK, EndIsHolders
<1>2. Places(e) = (Len(stream) - written + 1)..Len(stream)
  <2>1. \A i \in DOMAIN stream : stream[i] = e <=> i > Len(stream) - written
    BY DEF IInv, EndIsHolders
  <2> QED
    BY <1>1, <2>1 DEF Places
<1>3. Cardinality((Len(stream) - written + 1)..Len(stream)) = written
  BY <1>1, FS_Interval
<1> QED
  BY <1>2, <1>3 DEF Count, Places

----------------------------------------------------------------------------
(* The inductive invariant. *)

LEMMA InvInit == Init => IInv
<1> SUFFICES ASSUME Init PROVE IInv
  OBVIOUS
<1>1. DOMAIN stream = {} /\ stream \in Seq(Exports) /\ Len(stream) = 0
  BY DEF Init
<1>2. TypeOK
  <2>1. reader \in BOOLEAN
    BY Zenon DEF Init
  <2> QED
    BY <1>1, <2>1 DEF Init, TypeOK, Labels
<1>3. MutexHeld /\ DescriptorInUse /\ EndIsHolders /\ WrittenSoFar
  BY <1>1 DEF Init, MutexHeld, DescriptorInUse, EndIsHolders, WrittenSoFar, Working
<1>4. RecordsStayTogether /\ OutcomeIsTrue
  BY <1>1 DEF Init, RecordsStayTogether, OutcomeIsTrue
<1> QED
  BY <1>2, <1>3, <1>4 DEF IInv

\* Types are preserved.
LEMMA TypeStep == IInv /\ [Next]_vars => TypeOK'
<1> SUFFICES ASSUME IInv, [Next]_vars PROVE TypeOK'
  OBVIOUS
<1> USE DEF IInv, TypeOK, Goto, Ends, Labels, callVars, shipVars, descriptorVars, pipeVars
<1>1. ASSUME NEW e \in Exports, Lock(e) PROVE TypeOK'
  BY <1>1 DEF Lock
<1>2. ASSUME NEW e \in Exports, OpenFile(e) \/ OpenMissing(e) \/ OpenFails(e) PROVE TypeOK'
  BY <1>2 DEF OpenFile, OpenMissing, OpenFails
<1>3. ASSUME NEW e \in Exports, MakePipe(e) \/ MakeFails(e) PROVE TypeOK'
  BY <1>3 DEF MakePipe, MakeFails
<1>4. ASSUME NEW e \in Exports, Stat(e) \/ Format(e) PROVE TypeOK'
  BY <1>4 DEF Stat, Format
<1>5. ASSUME NEW e \in Exports, Write(e) PROVE TypeOK'
  <2>1. PICK n \in Writable :
            /\ written' = written + n
            /\ unread' = unread + n
            /\ stream' = stream \o [i \in 1..n |-> e]
            /\ Goto(e, IF written + n < Length THEN "write" ELSE "close")
    BY <1>5 DEF Write
  <2>2. n \in Nat /\ written + n <= Length /\ unread + n <= Capacity
    BY <2>1 DEF Writable, Room
  <2>3. stream' \in Seq(Exports)
    BY <2>1, <2>2, StreamGrows
  <2> QED
    BY <1>5, <2>1, <2>2, <2>3 DEF Write
<1>6. ASSUME NEW e \in Exports, WriteFails(e) \/ Catch(e) \/ Close(e) \/ Unlock(e) \/ Interrupt(e)
      PROVE  TypeOK'
  BY <1>6 DEF WriteFails, Catch, Close, Unlock, Interrupt
<1>7. CASE ToggleReader
  <2>1. reader' \in BOOLEAN
    BY <1>7, Zenon DEF ToggleReader
  <2> QED
    BY <1>7, <2>1 DEF ToggleReader
<1>8. ASSUME NEW f \in {"missing", "fifo", "other"}, ChangeFile(f) PROVE TypeOK'
  <2>1. reader' \in BOOLEAN
    BY <1>8, Zenon DEF ChangeFile
  <2> QED
    BY <1>8, <2>1 DEF ChangeFile
<1>10. CASE Read \/ UseDescriptor
  BY <1>10 DEF Read, UseDescriptor
<1>9. CASE UNCHANGED vars
  BY <1>9 DEF vars
<1> QED
  BY <1>1, <1>2, <1>3, <1>4, <1>5, <1>6, <1>7, <1>8, <1>9, <1>10 DEF Next, Step

\* The steps of an export inside ship(), by what they do to the mutex, the
\* stream and the descriptor.
LEMMA StepInside ==
    ASSUME IInv, NEW e \in Exports, Step(e) \/ Interrupt(e), ~ Unlock(e)
    PROVE  /\ mutex = e /\ mutex' = mutex
           /\ pc[e] \in Working
           /\ \E label \in Working : pc' = [pc EXCEPT ![e] = label]
           /\ fd' = "exporter" => pc'[e] \in Holding
           /\ \A k \in Exports : k # e => outcome'[k] = outcome[k]
<1> USE DEF IInv, TypeOK, MutexHeld, DescriptorInUse, Working, Holding, Labels, Goto, Ends,
            callVars, shipVars, descriptorVars, pipeVars
<1>1. CASE OpenFile(e) \/ OpenMissing(e) \/ OpenFails(e)
  BY <1>1 DEF OpenFile, OpenMissing, OpenFails
<1>2. CASE MakePipe(e) \/ MakeFails(e)
  BY <1>2 DEF MakePipe, MakeFails
<1>3. CASE Stat(e)
  BY <1>3 DEF Stat
<1>4. CASE Format(e)
  BY <1>4 DEF Format
<1>5. CASE Write(e)
  BY <1>5 DEF Write
<1>6. CASE WriteFails(e) \/ Catch(e)
  BY <1>6 DEF WriteFails, Catch
<1>7. CASE Close(e) \/ Interrupt(e)
  BY <1>7 DEF Close, Interrupt
<1> QED
  BY <1>1, <1>2, <1>3, <1>4, <1>5, <1>6, <1>7 DEF Step

\* The mutex and the descriptor.
LEMMA ControlStep == IInv /\ [Next]_vars => MutexHeld' /\ DescriptorInUse'
<1> SUFFICES ASSUME IInv, [Next]_vars PROVE MutexHeld' /\ DescriptorInUse'
  OBVIOUS
<1>1. ASSUME NEW e \in Exports, Lock(e) PROVE MutexHeld' /\ DescriptorInUse'
  BY <1>1 DEF Lock, Goto, IInv, TypeOK, MutexHeld, DescriptorInUse, Working, Labels, descriptorVars
<1>2. ASSUME NEW e \in Exports, Unlock(e) PROVE MutexHeld' /\ DescriptorInUse'
  BY <1>2 DEF Unlock, Goto, IInv, TypeOK, MutexHeld, DescriptorInUse, Working, Holding, Labels,
              descriptorVars
<1>3. ASSUME NEW e \in Exports, Step(e) \/ Interrupt(e), ~ Unlock(e)
      PROVE  MutexHeld' /\ DescriptorInUse'
  <2>1. PICK label \in Working : pc' = [pc EXCEPT ![e] = label]
    BY <1>3, StepInside
  <2>2. mutex = e /\ mutex' = e /\ pc[e] \in Working /\ (fd' = "exporter" => pc'[e] \in Holding)
    BY <1>3, StepInside
  <2> QED
    BY <2>1, <2>2 DEF IInv, TypeOK, MutexHeld, DescriptorInUse
<1>4. CASE ToggleReader \/ Read \/ UNCHANGED vars \/ UseDescriptor
  BY <1>4 DEF ToggleReader, Read, UseDescriptor, vars, callVars, descriptorVars, IInv, MutexHeld,
              DescriptorInUse
<1>5. ASSUME NEW f \in {"missing", "fifo", "other"}, ChangeFile(f)
      PROVE  MutexHeld' /\ DescriptorInUse'
  BY <1>5 DEF ChangeFile, callVars, descriptorVars, IInv, MutexHeld, DescriptorInUse
<1> QED
  BY <1>1, <1>2, <1>3, <1>4, <1>5 DEF Next, Step

\* What is written at which point.
LEMMA WrittenStep == IInv /\ [Next]_vars => WrittenSoFar'
<1> SUFFICES ASSUME IInv, [Next]_vars PROVE WrittenSoFar'
  OBVIOUS
<1> USE DEF IInv, TypeOK, WrittenSoFar, MutexHeld, Working, Labels, Goto, Ends, shipVars, callVars,
            pipeVars
<1>1. ASSUME NEW e \in Exports, Lock(e) PROVE WrittenSoFar'
  BY <1>1 DEF Lock
<1>2. ASSUME NEW e \in Exports, OpenFile(e) \/ OpenMissing(e) \/ OpenFails(e) PROVE WrittenSoFar'
  BY <1>2 DEF OpenFile, OpenMissing, OpenFails
<1>3. ASSUME NEW e \in Exports, MakePipe(e) \/ MakeFails(e) PROVE WrittenSoFar'
  BY <1>3 DEF MakePipe, MakeFails
<1>4. ASSUME NEW e \in Exports, Stat(e) \/ Format(e) PROVE WrittenSoFar'
  BY <1>4 DEF Stat, Format
<1>5. ASSUME NEW e \in Exports, Write(e) PROVE WrittenSoFar'
  BY <1>5 DEF Write
<1>6. ASSUME NEW e \in Exports, WriteFails(e) \/ Catch(e) PROVE WrittenSoFar'
  BY <1>6 DEF WriteFails, Catch
<1>7. ASSUME NEW e \in Exports, Close(e) \/ Interrupt(e) PROVE WrittenSoFar'
  BY <1>7 DEF Close, Interrupt
<1>8. ASSUME NEW e \in Exports, Unlock(e) PROVE WrittenSoFar'
  BY <1>8 DEF Unlock
<1>9. CASE ToggleReader \/ Read \/ UseDescriptor \/ UNCHANGED vars
  BY <1>9 DEF ToggleReader, Read, UseDescriptor, vars
<1>10. ASSUME NEW f \in {"missing", "fifo", "other"}, ChangeFile(f) PROVE WrittenSoFar'
  BY <1>10 DEF ChangeFile
<1> QED
  BY <1>1, <1>2, <1>3, <1>4, <1>5, <1>6, <1>7, <1>8, <1>9, <1>10 DEF Next, Step

\* Only Write changes the stream, and only Write and Lock what is written.
LEMMA OthersWriteNothing ==
    ASSUME IInv, [Next]_vars, \A e \in Exports : ~ Write(e)
    PROVE  /\ UNCHANGED stream
           /\ UNCHANGED written \/ (mutex = None /\ \E e \in Exports : Lock(e))
BY DEF Next, Step, Lock, OpenFile, OpenMissing, OpenFails, MakePipe, MakeFails, Stat, Format,
       WriteFails, Catch, Close, Unlock, Interrupt, ToggleReader, Read, ChangeFile, UseDescriptor,
       vars, shipVars, pipeVars

\* A write appends to the stream what the holder of the mutex writes.
LEMMA WriteAppends ==
    ASSUME IInv, NEW e \in Exports, Write(e)
    PROVE  \E n \in 1..Length :
            /\ mutex = e /\ mutex' = e
            /\ written' = written + n
            /\ Len(stream') = Len(stream) + n
            /\ DOMAIN stream' = 1..(Len(stream) + n)
            /\ \A i \in 1..(Len(stream) + n) :
                    stream'[i] = IF i <= Len(stream) THEN stream[i] ELSE e
            /\ \A k \in Exports : pc'[k] = "new" => pc[k] = "new" /\ k # e
<1>1. PICK n \in Writable :
            /\ written' = written + n
            /\ unread' = unread + n
            /\ stream' = stream \o [i \in 1..n |-> e]
            /\ Goto(e, IF written + n < Length THEN "write" ELSE "close")
  BY DEF Write
<1>2. n \in 1..Length
  BY <1>1 DEF Writable, Room, IInv, TypeOK
<1>3. /\ stream' \in Seq(Exports) /\ Len(stream') = Len(stream) + n
      /\ \A i \in 1..(Len(stream) + n) : stream'[i] = IF i <= Len(stream) THEN stream[i] ELSE e
  BY <1>1, <1>2, StreamGrows DEF IInv, TypeOK
<1>4. DOMAIN stream' = 1..(Len(stream) + n)
  BY <1>3
<1>5. mutex = e /\ mutex' = e
  BY DEF Write, IInv, MutexHeld, Working, Labels
<1>6. \A k \in Exports : pc'[k] = "new" => pc[k] = "new" /\ k # e
  BY <1>1 DEF Goto, IInv, TypeOK, Labels
<1> QED
  BY <1>1, <1>2, <1>3, <1>4, <1>5, <1>6

\* Where the records of the holder are.
LEMMA EndStep == IInv /\ [Next]_vars => EndIsHolders'
<1> SUFFICES ASSUME IInv, [Next]_vars PROVE EndIsHolders'
  OBVIOUS
<1> DEFINE L == Len(stream)
<1>0. L \in Nat /\ DOMAIN stream = 1..L /\ written \in Nat
  BY DEF IInv, TypeOK
<1>1. ASSUME NEW e \in Exports, Write(e) PROVE EndIsHolders'
  <2>1. PICK n \in 1..Length :
            /\ mutex = e /\ mutex' = e
            /\ written' = written + n
            /\ Len(stream') = L + n
            /\ DOMAIN stream' = 1..(L + n)
            /\ \A i \in 1..(L + n) : stream'[i] = IF i <= L THEN stream[i] ELSE e
            /\ \A k \in Exports : pc'[k] = "new" => pc[k] = "new" /\ k # e
    BY <1>1, WriteAppends
  <2>2. written <= L /\ \A i \in 1..L : stream[i] = e <=> i > L - written
    BY <1>0, <2>1 DEF IInv, EndIsHolders
  <2>3. written' <= Len(stream') /\ \A i \in 1..(L + n) : stream'[i] = e <=> i > (L + n) - (written + n)
    BY <1>0, <2>1, <2>2
  <2>4. ASSUME NEW k \in Exports, pc'[k] = "new", NEW i \in 1..(L + n) PROVE stream'[i] # k
    BY <1>0, <2>1, <2>4 DEF IInv, EndIsHolders
  <2> QED
    BY <2>1, <2>3, <2>4, NoneAssumption DEF EndIsHolders
<1>2. ASSUME NEW e \in Exports, Lock(e) PROVE EndIsHolders'
  BY <1>0, <1>2 DEF Lock, Goto, IInv, TypeOK, EndIsHolders, pipeVars
<1>3. CASE (\A e \in Exports : ~ Write(e)) /\ (\A e \in Exports : ~ Lock(e))
  <2>1. UNCHANGED <<stream, written>>
    BY <1>3, OthersWriteNothing
  <2>2. \A e \in Exports : mutex' = e => mutex = e
    <3>1. CASE \E e \in Exports : (Step(e) \/ Interrupt(e)) /\ ~ Unlock(e)
      BY <3>1, StepInside
    <3>2. CASE \E e \in Exports : Unlock(e)
      BY <3>2 DEF Unlock
    <3>3. CASE UNCHANGED mutex
      BY <3>3
    <3> QED
      BY <1>3, <3>1, <3>2, <3>3 DEF Next, ToggleReader, Read, ChangeFile, UseDescriptor, callVars, vars
  <2>3. \A e \in Exports : pc'[e] = "new" => pc[e] = "new"
    <3>1. CASE \E e \in Exports : (Step(e) \/ Interrupt(e)) /\ ~ Unlock(e)
      BY <3>1, StepInside DEF IInv, TypeOK, Working
    <3>2. CASE \E e \in Exports : Unlock(e)
      BY <3>2 DEF Unlock, Goto, IInv, TypeOK
    <3>3. CASE UNCHANGED pc
      BY <3>3
    <3> QED
      BY <1>3, <3>1, <3>2, <3>3 DEF Next, ToggleReader, Read, ChangeFile, UseDescriptor, callVars, vars
  <2>4. mutex' # None => mutex # None
    <3>1. mutex' \in Exports \cup {None}
      BY TypeStep DEF TypeOK
    <3> QED
      BY <2>2, <3>1
  <2> QED
    BY <2>1, <2>2, <2>3, <2>4 DEF IInv, EndIsHolders
<1> QED
  BY <1>1, <1>2, <1>3

LEMMA TogetherStep == IInv /\ [Next]_vars => RecordsStayTogether'
<1> SUFFICES ASSUME IInv, [Next]_vars PROVE RecordsStayTogether'
  OBVIOUS
<1>1. ASSUME NEW e \in Exports, Write(e) PROVE RecordsStayTogether'
  <2> DEFINE L == Len(stream)
  <2>1. PICK n \in 1..Length :
            /\ mutex' = e
            /\ Len(stream') = L + n
            /\ DOMAIN stream' = 1..(L + n)
            /\ \A i \in 1..(L + n) : stream'[i] = IF i <= L THEN stream[i] ELSE e
    BY <1>1, WriteAppends
  <2>2. L \in Nat /\ DOMAIN stream = 1..L /\ written' \in Nat
    BY TypeStep DEF IInv, TypeOK
  <2>3. \A i \in 1..(L + n) : stream'[i] = e <=> i > (L + n) - written'
    BY <2>1, EndStep DEF EndIsHolders
  <2> SUFFICES ASSUME NEW i \in 1..(L + n), NEW j \in 1..(L + n), stream'[i] = stream'[j],
                      NEW k \in i..j
               PROVE  stream'[k] = stream'[i]
    BY <2>1 DEF RecordsStayTogether
  <2>4. k \in 1..(L + n) /\ i \in Nat /\ j \in Nat /\ k \in Nat
    BY <2>2
  <2>5. CASE stream'[i] = e
    BY <2>2, <2>3, <2>4, <2>5
  <2>6. CASE stream'[i] # e
    <3>1. i <= L /\ j <= L /\ k <= L
      BY <2>1, <2>2, <2>4, <2>6
    <3> QED
      BY <2>1, <2>2, <2>4, <3>1 DEF IInv, RecordsStayTogether
  <2> QED
    BY <2>5, <2>6
<1>2. CASE \A e \in Exports : ~ Write(e)
  BY <1>2, OthersWriteNothing DEF IInv, RecordsStayTogether
<1> QED
  BY <1>1, <1>2

\* Nobody else writes to the record of an export that is over.
LEMMA DoneIsUntouched ==
    ASSUME IInv, [Next]_vars, NEW e \in Exports, pc[e] = "done"
    PROVE  Count(e)' = Count(e) /\ outcome'[e] = outcome[e]
<1>1. ASSUME NEW k \in Exports, Write(k) PROVE Count(e)' = Count(e)
  <2>1. k # e
    BY <1>1 DEF Write
  <2>2. PICK n \in 1..Length :
            /\ DOMAIN stream' = 1..(Len(stream) + n)
            /\ \A i \in 1..(Len(stream) + n) :
                    stream'[i] = IF i <= Len(stream) THEN stream[i] ELSE k
    BY <1>1, WriteAppends
  <2>3. Len(stream) \in Nat /\ DOMAIN stream = 1..Len(stream)
    BY DEF IInv, TypeOK
  <2>4. {i \in DOMAIN stream' : stream'[i] = e} = {i \in DOMAIN stream : stream[i] = e}
    BY <2>1, <2>2, <2>3
  <2> QED
    BY <2>4 DEF Count
<1>2. ASSUME \A k \in Exports : ~ Write(k) PROVE Count(e)' = Count(e)
  BY <1>2, OthersWriteNothing DEF Count
<1>3. outcome'[e] = outcome[e]
  <2>1. ASSUME NEW k \in Exports, (Step(k) \/ Interrupt(k)) /\ ~ Unlock(k) PROVE outcome'[e] = outcome[e]
    BY <2>1, StepInside DEF Working
  <2> QED
    BY <2>1 DEF Next, Lock, Unlock, ToggleReader, Read, ChangeFile, UseDescriptor, callVars, vars
<1> QED
  BY <1>1, <1>2, <1>3

LEMMA OutcomeStep == IInv /\ [Next]_vars => OutcomeIsTrue'
<1> SUFFICES ASSUME IInv, [Next]_vars, NEW e \in Exports, pc'[e] = "done"
             PROVE  /\ outcome'[e] = "written" <=> Count(e)' = Length
                    /\ outcome'[e] = "dropped" => Count(e)' = 0
  BY DEF OutcomeIsTrue
<1>1. CASE pc[e] = "done"
  BY <1>1, DoneIsUntouched DEF IInv, OutcomeIsTrue
<1>2. CASE Unlock(e)
  <2>1. mutex = e /\ pc[e] = "shipped" /\ UNCHANGED <<stream, outcome>>
    BY <1>2 DEF Unlock, IInv, MutexHeld, Working, Labels, pipeVars
  <2>2. Count(e)' = written
    BY <2>1, HoldersCount DEF Count
  <2> QED
    BY <2>1, <2>2 DEF IInv, WrittenSoFar
<1>3. CASE pc[e] # "done" /\ ~ Unlock(e)
  <2>1. ASSUME NEW k \in Exports, (Step(k) \/ Interrupt(k)) /\ ~ Unlock(k) PROVE FALSE
    BY <1>3, <2>1, StepInside DEF IInv, TypeOK, Working
  <2>2. ASSUME NEW k \in Exports, Lock(k) \/ (Unlock(k) /\ k # e) PROVE FALSE
    BY <1>3, <2>2 DEF Lock, Unlock, Goto, IInv, TypeOK
  <2> QED
    BY <1>3, <2>1, <2>2 DEF Next, ToggleReader, Read, ChangeFile, UseDescriptor, callVars, vars
<1> QED
  BY <1>1, <1>2, <1>3

LEMMA InvStep == IInv /\ [Next]_vars => IInv'
BY TypeStep, ControlStep, WrittenStep, EndStep, TogetherStep, OutcomeStep DEF IInv

LEMMA InvAlways == Spec => []IInv
<1>1. Init => IInv
  BY InvInit
<1>2. IInv /\ [Next]_vars => IInv'
  BY InvStep
<1> QED
  BY <1>1, <1>2, PTL DEF Spec, SafeSpec

----------------------------------------------------------------------------
(* The theorems. *)

\* Type correctness for any number of exports, whatever the environment does.
THEOREM TypeCorrect == Spec => []TypeOK
<1>1. IInv => TypeOK
  BY DEF IInv
<1> QED
  BY <1>1, InvAlways, PTL

\* exportData() closes the pipe on every way out (NamedPipeExporter.cpp:38-166).
THEOREM DescriptorsAreReleased == Spec => []DescriptorIsReleased
<1>1. IInv => DescriptorIsReleased
  BY DEF IInv, DescriptorIsReleased, DescriptorInUse
<1> QED
  BY <1>1, InvAlways, PTL

\* The records of any number of threads do not mix, however many writes each
\* of them takes (BasicDistributor.cpp:21-41).
THEOREM RecordsAreTogether == Spec => []RecordsStayTogether
<1>1. IInv => RecordsStayTogether
  BY DEF IInv
<1> QED
  BY <1>1, InvAlways, PTL

\* What ship() says of its record is true, whatever interrupts or ends it.
THEOREM OutcomesAreTrue == Spec => []OutcomeIsTrue
<1>1. IInv => OutcomeIsTrue
  BY DEF IInv
<1> QED
  BY <1>1, InvAlways, PTL

----------------------------------------------------------------------------
(* The refinement. *)

\* A record that is short enough for one write is written whole or not at all.
ShortIsWhole == Length <= PipeBuf => written \in {0, Length}

LEMMA ShortStep == IInv /\ ShortIsWhole /\ [Next]_vars => ShortIsWhole'
<1> SUFFICES ASSUME IInv, ShortIsWhole, [Next]_vars, Length <= PipeBuf
             PROVE  written' \in {0, Length}
  BY DEF ShortIsWhole
<1>1. ASSUME NEW e \in Exports, Write(e) PROVE written' = Length
  <2>1. PICK n \in Writable : written' = written + n
    BY <1>1 DEF Write
  <2>2. written \in Nat /\ Length - written <= PipeBuf
    BY DEF IInv, TypeOK
  <2>3. n = Length - written
    BY <2>1, <2>2 DEF Writable
  <2> QED
    BY <2>1, <2>2, <2>3
<1>2. ASSUME NEW e \in Exports, Lock(e) PROVE written' = 0
  BY <1>2 DEF Lock
<1> QED
  BY <1>1, <1>2, OthersWriteNothing DEF ShortIsWhole

\* Only Unlock ends an export.
LEMMA EndedStep ==
    ASSUME IInv, [Next]_vars, \A e \in Exports : ~ Unlock(e)
    PROVE  Ended' = Ended
<1>1. ASSUME NEW e \in Exports, NEW k \in Exports, (Step(k) \/ Interrupt(k)) /\ ~ Unlock(k)
      PROVE  /\ pc'[e] = "done" <=> pc[e] = "done"
             /\ pc[e] = "done" => outcome'[e] = outcome[e]
  BY <1>1, StepInside DEF Working, IInv, TypeOK
<1>2. ASSUME NEW e \in Exports, NEW k \in Exports, Lock(k)
      PROVE  /\ pc'[e] = "done" <=> pc[e] = "done"
             /\ outcome'[e] = outcome[e]
  BY <1>2 DEF Lock, Goto, IInv, TypeOK
<1>3. CASE UNCHANGED callVars
  BY <1>3 DEF callVars, Ended
<1> QED
  BY <1>1, <1>2, <1>3
  DEF Ended, Next, ToggleReader, Read, ChangeFile, UseDescriptor, vars

\* The part of the stream before what the holder of the mutex has written.
LEMMA PrefixIs ==
    ASSUME NEW s \in Seq(Exports), NEW n \in 0..Len(s)
    PROVE  /\ SubSeq(s, 1, n) \in Seq(Exports) /\ Len(SubSeq(s, 1, n)) = n
           /\ \A i \in 1..n : SubSeq(s, 1, n)[i] = s[i]
<1>1. \A i \in 1..n : s[i] \in Exports
  OBVIOUS
<1>2. /\ SubSeq(s, 1, n) \in Seq(Exports)
      /\ Len(SubSeq(s, 1, n)) = IF 1 <= n THEN n - 1 + 1 ELSE 0
      /\ \A i \in 1..(n - 1 + 1) : SubSeq(s, 1, n)[i] = s[1 + i - 1]
  BY <1>1, SubSeqProperties
<1> QED
  BY <1>2

\* What the holder writes is not settled yet.
LEMMA SettledWrite ==
    ASSUME IInv, IInv', NEW e \in Exports, Write(e)
    PROVE  Settled' = Settled
<1>1. PICK n \in 1..Length :
          /\ mutex = e /\ mutex' = e
          /\ written' = written + n
          /\ Len(stream') = Len(stream) + n
          /\ \A i \in 1..(Len(stream) + n) :
                  stream'[i] = IF i <= Len(stream) THEN stream[i] ELSE e
  BY WriteAppends
<1>2. written \in Nat /\ Len(stream) \in Nat
  BY DEF IInv, TypeOK
<1> DEFINE k == Len(stream) - written
<1>3. /\ k \in 0..Len(stream) /\ Len(stream') - written' = k
      /\ stream \in Seq(Exports) /\ stream' \in Seq(Exports) /\ k \in 0..Len(stream')
  BY <1>1, <1>2 DEF IInv, TypeOK, EndIsHolders
<1>4. Settled = SubSeq(stream, 1, k) /\ Settled' = SubSeq(stream', 1, k)
  BY <1>1, <1>3 DEF Settled
<1> HIDE DEF k
<1>5. /\ Settled \in Seq(Exports) /\ Len(Settled) = k
      /\ \A i \in 1..k : Settled[i] = stream[i]
  BY <1>3, <1>4, PrefixIs
<1>6. /\ Settled' \in Seq(Exports) /\ Len(Settled') = k
      /\ \A i \in 1..k : Settled'[i] = stream'[i]
  BY <1>3, <1>4, PrefixIs
<1>7. \A i \in 1..k : stream'[i] = stream[i]
  BY <1>1, <1>2, <1>3
<1> QED
  BY <1>5, <1>6, <1>7, SeqEqual

\* With the unlock, all of it is.
LEMMA SettledUnlock ==
    ASSUME IInv, NEW e \in Exports, Unlock(e)
    PROVE  Settled' = Settled \o [i \in 1..written |-> e]
<1>1. mutex = e /\ mutex' = None /\ stream' = stream
  BY DEF Unlock, IInv, MutexHeld, Working, Labels, pipeVars
<1>2. Settled' = stream
  BY <1>1 DEF Settled
<1>3. /\ stream \in Seq(Exports) /\ Len(stream) \in Nat /\ written \in Nat
      /\ \A i \in 1..Len(stream) : stream[i] = e <=> i > Len(stream) - written
  BY <1>1 DEF IInv, TypeOK, EndIsHolders
<1>4. /\ Len(stream) - written \in 0..Len(stream)
      /\ Settled \in Seq(Exports) /\ Len(Settled) = Len(stream) - written
      /\ \A i \in 1..(Len(stream) - written) : Settled[i] = stream[i]
  <2>1. Len(stream) - written \in 0..Len(stream)
    BY <1>1, <1>3 DEF IInv, EndIsHolders
  <2>2. Settled = SubSeq(stream, 1, Len(stream) - written)
    BY <1>1 DEF Settled
  <2> QED
    BY <1>3, <2>1, <2>2, PrefixIs
<1> DEFINE t == Settled \o [i \in 1..written |-> e]
<1>5. /\ t \in Seq(Exports) /\ Len(t) = Len(Settled) + written
      /\ \A i \in 1..(Len(Settled) + written) : t[i] = IF i <= Len(Settled) THEN Settled[i] ELSE e
  BY <1>3, <1>4, StreamGrows
<1> HIDE DEF t
<1>6. Len(t) = Len(stream)
  BY <1>3, <1>4, <1>5
<1>7. \A i \in 1..Len(stream) : stream[i] = t[i]
  BY <1>3, <1>4, <1>5
<1>8. stream = t
  BY <1>3, <1>5, <1>6, <1>7, SeqEqual
<1> QED
  BY <1>2, <1>8 DEF t

LEMMA LogStep ==
    IInv /\ IInv' /\ ShortIsWhole /\ [Next]_vars => [Log!Next]_(Log!logVars)
<1> SUFFICES ASSUME IInv, IInv', ShortIsWhole, [Next]_vars
             PROVE  Log!Next \/ (Settled' = Settled /\ Ended' = Ended)
  BY DEF Log!logVars
<1>1. ASSUME NEW e \in Exports, Unlock(e) PROVE Log!Next
  <2>1. /\ mutex = e /\ pc[e] = "shipped" /\ outcome' = outcome
        /\ pc' = [pc EXCEPT ![e] = "done"]
    BY <1>1 DEF Unlock, Goto, IInv, MutexHeld, Working, Labels
  <2>2. Ended[e] = "none" /\ Ended' = [Ended EXCEPT ![e] = outcome[e]]
    BY <2>1 DEF Ended, IInv, TypeOK
  <2>3. /\ outcome[e] = "written" <=> written = Length
        /\ outcome[e] = "dropped" => written = 0
    BY <2>1 DEF IInv, WrittenSoFar
  <2>4. written \in 0..Length /\ outcome[e] \in Log!Endings
    BY <2>1 DEF IInv, TypeOK, WrittenSoFar, Log!Endings
  <2>5. Log!Export(e, written, outcome[e])
    BY <1>1, <2>2, <2>3, SettledUnlock DEF Log!Export, ShortIsWhole
  <2> QED
    BY <2>4, <2>5 DEF Log!Next
<1>2. ASSUME NEW e \in Exports, Lock(e) PROVE Settled' = Settled
  <2>1. mutex = None /\ mutex' = e /\ written' = 0 /\ stream' = stream
    BY <1>2 DEF Lock, pipeVars
  <2>2. stream \in Seq(Exports) /\ Len(stream) - 0 = Len(stream)
    BY DEF IInv, TypeOK
  <2>3. SubSeq(stream, 1, Len(stream)) = stream
    BY <2>2, SubSeqFull
  <2> QED
    BY <2>1, <2>2, <2>3 DEF Settled
<1>3. ASSUME NEW e \in Exports, Step(e) \/ Interrupt(e), ~ Unlock(e), ~ Write(e)
      PROVE  Settled' = Settled
  <2>1. mutex = e /\ mutex' = mutex
    BY <1>3, StepInside
  <2>2. UNCHANGED <<stream, written>>
    BY <1>3
    DEF Step, OpenFile, OpenMissing, OpenFails, MakePipe, MakeFails, Stat, Format, WriteFails,
        Catch, Close, Interrupt, Ends, Goto, shipVars, pipeVars
  <2> QED
    BY <2>1, <2>2 DEF Settled
<1>4. ASSUME mutex' = mutex, stream' = stream, written' = written
      PROVE  Settled' = Settled
  BY <1>4, Zenon DEF Settled
<1>5. CASE \A e \in Exports : ~ Unlock(e)
  <2>1. Ended' = Ended
    BY <1>5, EndedStep
  <2>2. ASSUME NEW e \in Exports, Lock(e) \/ Step(e) \/ Interrupt(e) PROVE Settled' = Settled
    BY <1>2, <1>3, <1>5, <2>2, SettledWrite
  <2>3. ASSUME \A e \in Exports : ~ (Lock(e) \/ Step(e) \/ Interrupt(e))
        PROVE  Settled' = Settled
    <3>1. mutex' = mutex /\ stream' = stream /\ written' = written
      BY <2>3 DEF Next, ToggleReader, Read, ChangeFile, UseDescriptor, callVars, shipVars,
                  pipeVars, vars
    <3> QED
      BY <1>4, <3>1
  <2> QED
    BY <2>1, <2>2, <2>3
<1> QED
  BY <1>1, <1>5

\* Exports seem to take place one after another and at once, for any number of
\* them and any sizes, and a record no longer than PIPE_BUF is written whole or
\* not at all (BasicDistributor.cpp:21-41, NamedPipeExporter.cpp:38-166).
THEOREM ExportsAreAtomic == Spec => ImplementsLog
<1>1. Init => Log!Init
  BY DEF Init, Log!Init, Settled, Ended
<1>2. Init => ShortIsWhole
  BY DEF Init, ShortIsWhole
<1>3. IInv /\ IInv' /\ ShortIsWhole /\ [Next]_vars => [Log!Next]_(Log!logVars)
  BY LogStep
<1>4. IInv /\ ShortIsWhole /\ [Next]_vars => ShortIsWhole'
  BY ShortStep
<1> QED
  BY <1>1, <1>2, <1>3, <1>4, InvAlways, PTL DEF Spec, SafeSpec, ImplementsLog, Log!Spec
=============================================================================
