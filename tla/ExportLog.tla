------------------------------ MODULE ExportLog ------------------------------
(***************************************************************************)
(* What core/BasicDistributor and exporters/NamedPipeExporter promise the  *)
(* threads that export and the reader of the pipe, without the mutex, the  *)
(* descriptor and the single writes: an export seems to take place at      *)
(* once.  It adds a beginning of its record to what the reader gets, and   *)
(* says truly whether that is all of it; a record that is short enough for *)
(* one write is added whole or not at all.                                 *)
(***************************************************************************)
EXTENDS Naturals, Sequences

CONSTANTS Exports,  \* calls of exportData()
          Length,   \* of a record
          PipeBuf   \* length of a short record

VARIABLES log,      \* what is for the reader, as the export it is from
          ended     \* how an export has ended

logVars == <<log, ended>>

Endings == {"written", "dropped", "unshipped", "exception"}

Init ==
    /\ log = <<>>
    /\ ended = [e \in Exports |-> "none"]

\* The first n of the record, and how it ends: with all of it written, with
\* nothing for want of a reader, or otherwise.
Export(e, n, how) ==
    /\ ended[e] = "none"
    /\ how = "written" <=> n = Length
    /\ how = "dropped" => n = 0
    /\ Length <= PipeBuf => n \in {0, Length}
    /\ log' = log \o [i \in 1..n |-> e]
    /\ ended' = [ended EXCEPT ![e] = how]

Next == \E e \in Exports, n \in 0..Length, how \in Endings : Export(e, n, how)

Spec == Init /\ [][Next]_logVars
=============================================================================
