---------------------------- MODULE MCAnswerQueue ----------------------------
(***************************************************************************)
(* AnswerQueue for TLC: Answer a1 with one Result, a2 with none (it is     *)
(* only announced by notifyUpdated()).                                     *)
(***************************************************************************)
EXTENDS AnswerQueue

CONSTANTS a1, a2, r1

MCAnswers == {a1, a2}
MCResults == {r1}
MCOwnerOf == [r \in MCResults |-> a1]
=============================================================================
