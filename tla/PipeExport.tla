------------------------------ MODULE PipeExport ------------------------------
(***************************************************************************)
(* The export of measured values: core/BasicDistributor::exportData(), one *)
(* caller at a time, and exporters/NamedPipeExporter::ship(), which opens  *)
(* the named pipe, writes a record and closes the pipe.                    *)
(*                                                                         *)
(* Several threads export (VirtualSensors, the broker's).  The pipe's      *)
(* reader, the file system and the threads that use other files belong to  *)
(* the environment.  Whoever removes or replaces the file is taken to be   *)
(* its reader or to act without one, so that an open pipe stays the one at *)
(* the path.                                                               *)
(***************************************************************************)
EXTENDS Integers, Sequences, FiniteSets

CONSTANTS
    Exports,        \* calls of exportData(), each with a record of its own
    Length,         \* length of a record
    PipeBuf,        \* a write of up to this length is atomic
    Capacity,       \* of the pipe
    Attempts,       \* ATTEMPTS_CREATE_PIPE
    None

ASSUME SizesAssumption ==
    /\ Length \in Nat \ {0} /\ PipeBuf \in Nat \ {0} /\ Capacity \in Nat \ {0}
    /\ PipeBuf <= Capacity
    /\ Attempts \in Nat
ASSUME NoneAssumption == None \notin Exports

VARIABLES
    pc,         \* progress of an export
    outcome,    \* of ship(): true, false, or an exception
    mutex,      \* holder of m_exportMutex
    attempts,   \* those left to openPipe()
    fd,         \* whose the descriptor is that the last open() returned
    opened,     \* what that open() has opened
    written,    \* restLength of writeAndClose()
    file,       \* what is at m_pipePath
    reader,     \* somebody has the pipe open for reading
    unread,     \* amount of data in the pipe
    stream      \* history: what went into the pipe, as the export it is from

callVars == <<pc, outcome, mutex>>
shipVars == <<attempts, written>>
descriptorVars == <<fd, opened>>
pipeVars == <<unread, stream>>
vars == <<callVars, shipVars, descriptorVars, pipeVars, file, reader>>

Init ==
    /\ pc = [e \in Exports |-> "new"]
    /\ outcome = [e \in Exports |-> "none"]
    /\ mutex = None
    /\ attempts = 0
    /\ fd = "free"
    /\ opened = "missing"
    /\ written = 0
    /\ file \in {"missing", "fifo", "other"}
    /\ reader = FALSE
    /\ unread = 0
    /\ stream = <<>>

Goto(e, label) == pc' = [pc EXCEPT ![e] = label]

\* ship() ends with this outcome.
Ends(e, how) ==
    /\ outcome' = [outcome EXCEPT ![e] = how]
    /\ Goto(e, "shipped")

----------------------------------------------------------------------------
(* BasicDistributor::exportData(). *)

\* Faulty Lock: without the mutex.
LockNothing(e) ==
    /\ pc[e] = "new"
    /\ mutex' = e
    /\ attempts' = Attempts
    /\ written' = 0
    /\ Goto(e, "open")
    /\ UNCHANGED <<outcome, descriptorVars, pipeVars, file, reader>>

\* The scoped lock, and ship() with the locals of its functions.
Lock(e) ==
    /\ pc[e] = "new"
    /\ mutex = None
    /\ mutex' = e
    /\ attempts' = Attempts
    /\ written' = 0
    /\ Goto(e, "open")
    /\ UNCHANGED <<outcome, descriptorVars, pipeVars, file, reader>>

\* Any result and any exception of ship() end the call alike.
Unlock(e) ==
    /\ pc[e] = "shipped"
    /\ mutex' = None
    /\ Goto(e, "done")
    /\ UNCHANGED <<outcome, shipVars, descriptorVars, pipeVars, file, reader>>

----------------------------------------------------------------------------
(* openPipe(). *)

\* open() for writing, without blocking.  A file that is not a pipe opens, too.
OpenFile(e) ==
    /\ pc[e] = "open"
    /\ file = "other" \/ (file = "fifo" /\ reader)
    /\ fd' = "exporter"
    /\ opened' = file
    /\ Goto(e, "stat")
    /\ UNCHANGED <<outcome, mutex, shipVars, pipeVars, file, reader>>

\* ENOENT.
OpenMissing(e) ==
    /\ pc[e] = "open"
    /\ file = "missing"
    /\ Goto(e, "make")
    /\ UNCHANGED <<outcome, mutex, shipVars, descriptorVars, pipeVars, file, reader>>

\* ENXIO (no reader) is ship()'s true, EINTR its false, any other an exception.
OpenFails(e) ==
    /\ pc[e] = "open"
    /\ \/ file = "fifo" /\ ~reader /\ Ends(e, "dropped")
       \/ Ends(e, "unshipped")
       \/ Ends(e, "exception")
    /\ UNCHANGED <<mutex, shipVars, descriptorVars, pipeVars, file, reader>>

\* Faulty MakePipe: the attempts are counted, but do not count.
MakePipeUnbounded(e) ==
    /\ pc[e] = "make"
    /\ file = "missing"
    /\ file' = "fifo"
    /\ attempts' = attempts - 1
    /\ Goto(e, "open")
    /\ UNCHANGED <<outcome, mutex, written, descriptorVars, pipeVars, reader>>

\* mkfifo() and the condition of the loop.  After the last attempt the counter
\* wraps, the test of 0 behind the loop fails, and fstat(-1) throws instead.
MakePipe(e) ==
    /\ pc[e] = "make"
    /\ file = "missing"
    /\ file' = "fifo"
    /\ IF attempts > 0
         THEN /\ attempts' = attempts - 1
              /\ Goto(e, "open")
              /\ UNCHANGED outcome
         ELSE Ends(e, "exception") /\ UNCHANGED attempts
    /\ UNCHANGED <<mutex, written, descriptorVars, pipeVars, reader>>

\* mkfifo() fails: somebody else was faster, or for any other reason.
MakeFails(e) ==
    /\ pc[e] = "make"
    /\ Ends(e, "exception")
    /\ UNCHANGED <<mutex, shipVars, descriptorVars, pipeVars, file, reader>>

\* Faulty Stat: no close() for what is not a pipe.
StatKeepsOpen(e) ==
    /\ pc[e] = "stat"
    /\ IF opened = "fifo" THEN Goto(e, "format") /\ UNCHANGED outcome
                          ELSE Ends(e, "exception")
    /\ UNCHANGED <<mutex, shipVars, descriptorVars, pipeVars, file, reader>>

\* fstat() and S_ISFIFO().
Stat(e) ==
    /\ pc[e] = "stat"
    /\ IF opened = "fifo"
         THEN Goto(e, "format") /\ UNCHANGED <<outcome, fd>>
         ELSE fd' = "free" /\ Ends(e, "exception")
    /\ UNCHANGED <<mutex, shipVars, opened, pipeVars, file, reader>>

----------------------------------------------------------------------------
(* ship() after openPipe(), writeAndClose(). *)

\* The formatter may throw, as NullSensorDataFormatter does.
Format(e) ==
    /\ pc[e] = "format"
    /\ Goto(e, "write") \/ Goto(e, "catch")
    /\ UNCHANGED <<outcome, mutex, shipVars, descriptorVars, pipeVars, file, reader>>

Room == Capacity - unread

\* The lengths that write() may take: all of a short message or nothing, some
\* of a long one.
Writable ==
    LET rest == Length - written IN
    IF rest <= PipeBuf THEN {rest} \cap 1..Room
                       ELSE {n \in 1..rest : n <= Room}

\* write().  (It does not wait: the pipe has been opened without blocking.)
Write(e) ==
    /\ pc[e] = "write"
    /\ reader
    /\ \E n \in Writable :
         /\ written' = written + n
         /\ unread' = unread + n
         /\ stream' = stream \o [i \in 1..n |-> e]
         /\ Goto(e, IF written + n < Length THEN "write" ELSE "close")
    /\ UNCHANGED <<outcome, mutex, attempts, descriptorVars, file, reader>>

\* EINTR breaks the loop.
Interrupt(e) ==
    /\ pc[e] = "write"
    /\ Goto(e, "close")
    /\ UNCHANGED <<outcome, mutex, shipVars, descriptorVars, pipeVars, file, reader>>

\* Faulty WriteFails: a full pipe is waited for.
WriteWaits(e) ==
    /\ pc[e] = "write"
    /\ ~reader
    /\ fd' = "free"
    /\ Goto(e, "catch")
    /\ UNCHANGED <<outcome, mutex, attempts, written, opened, pipeVars, file,
                   reader>>

\* EPIPE (the reader is gone) and EAGAIN (the pipe is full): close() and throw.
WriteFails(e) ==
    /\ pc[e] = "write"
    /\ ~reader \/ Writable = {}
    /\ fd' = "free"
    /\ Goto(e, "catch")
    /\ UNCHANGED <<outcome, mutex, attempts, written, opened, pipeVars, file, reader>>

\* The catch of ship() closes the descriptor, for a second time after a failed
\* write: by then it may be another thread's.
Catch(e) ==
    /\ pc[e] = "catch"
    /\ fd' = "free"
    /\ Ends(e, "exception")
    /\ UNCHANGED <<mutex, shipVars, opened, pipeVars, file, reader>>

\* Faulty Close: the result does not depend on what has been written.
CloseAlways(e) ==
    /\ pc[e] = "close"
    /\ fd' = "free"
    /\ Ends(e, "written")
    /\ UNCHANGED <<mutex, shipVars, opened, pipeVars, file, reader>>

\* close(), and whether all is written.
Close(e) ==
    /\ pc[e] = "close"
    /\ fd' = "free"
    /\ Ends(e, IF written >= Length THEN "written" ELSE "unshipped")
    /\ UNCHANGED <<mutex, shipVars, opened, pipeVars, file, reader>>

----------------------------------------------------------------------------
(* The environment. *)

\* A reader opens the pipe or leaves it; what it has not read is lost.
ToggleReader ==
    /\ file = "fifo"
    /\ reader' = ~reader
    /\ unread' = 0
    /\ UNCHANGED <<callVars, shipVars, descriptorVars, stream, file>>

Read ==
    /\ reader
    /\ unread > 0
    /\ unread' = unread - 1
    /\ UNCHANGED <<callVars, shipVars, descriptorVars, stream, file, reader>>

\* The file is removed or replaced.
ChangeFile(f) ==
    /\ f # file
    /\ file' = f
    /\ reader' = FALSE
    /\ unread' = 0
    /\ UNCHANGED <<callVars, shipVars, descriptorVars, stream>>

\* Another thread opens a file and gets the free descriptor, or closes it.
UseDescriptor ==
    /\ \/ fd = "free" /\ fd' = "other"
       \/ fd = "other" /\ fd' = "free"
    /\ UNCHANGED <<callVars, shipVars, opened, pipeVars, file, reader>>

----------------------------------------------------------------------------

Step(e) ==
    \/ OpenFile(e) \/ OpenMissing(e) \/ OpenFails(e) \/ MakePipe(e) \/ MakeFails(e)
    \/ Stat(e) \/ Format(e) \/ Write(e) \/ WriteFails(e) \/ Catch(e)
    \/ Close(e) \/ Unlock(e)

Next ==
    \/ \E e \in Exports : Lock(e) \/ Step(e) \/ Interrupt(e)
    \/ ToggleReader
    \/ Read
    \/ \E f \in {"missing", "fifo", "other"} : ChangeFile(f)
    \/ UseDescriptor

SafeSpec == Init /\ [][Next]_vars

\* Only the exporting threads go on: the reader need not read, and no signal
\* need interrupt a write.
Fairness == \A e \in Exports : WF_vars(Lock(e)) /\ WF_vars(Step(e))

Spec == SafeSpec /\ Fairness

----------------------------------------------------------------------------
(* Properties. *)

Labels == {"new", "open", "make", "stat", "format", "write", "catch", "close", "shipped",
           "done"}

\* Every variable has its type.
TypeOK ==
    /\ pc \in [Exports -> Labels]
    /\ outcome \in [Exports -> {"none", "written", "dropped", "unshipped", "exception"}]
    /\ mutex \in Exports \cup {None}
    /\ attempts \in 0..Attempts
    /\ fd \in {"free", "exporter", "other"}
    /\ opened \in {"missing", "fifo", "other"}
    /\ written \in 0..Length
    /\ file \in {"missing", "fifo", "other"}
    /\ reader \in BOOLEAN
    /\ unread \in 0..Capacity
    /\ stream \in Seq(Exports)

\* exportData() leaves no descriptor of the pipe behind, on none of the ways out
\* of ship(), openPipe() and writeAndClose().
DescriptorIsReleased == mutex = None => fd # "exporter"

\* Records of concurrent exports do not mix in the pipe.
RecordsStayTogether ==
    \A i, j \in DOMAIN stream :
        stream[i] = stream[j] => \A k \in i..j : stream[k] = stream[i]

Count(e) == Cardinality({i \in DOMAIN stream : stream[i] = e})

\* ship() says truly whether the record went into the pipe: all of it if it
\* returned true with a reader, nothing without one, and not all otherwise.
OutcomeIsTrue ==
    \A e \in Exports :
        pc[e] = "done" =>
            /\ outcome[e] = "written" <=> Count(e) = Length
            /\ outcome[e] = "dropped" => Count(e) = 0

\* What the exports that are over have written, and how they have ended.
Settled == IF mutex = None THEN stream ELSE SubSeq(stream, 1, Len(stream) - written)
Ended == [e \in Exports |-> IF pc[e] = "done" THEN outcome[e] ELSE "none"]

Log == INSTANCE ExportLog WITH log <- Settled, ended <- Ended

\* However the threads, the writes of a record, the reader and the errors come
\* together, each export seems to take place at once, when it unlocks
\* (BasicDistributor.cpp:21-41, NamedPipeExporter.cpp:38-166).
ImplementsLog == Log!Spec

\* An export does not wait for the pipe's reader or for its file, and lets the
\* next one go on.
EveryExportEnds == \A e \in Exports : <>(pc[e] = "done")
=============================================================================
