------------------------------- MODULE MCMinHeap -------------------------------
(***************************************************************************)
(* A small instance of MinHeap: the processes are numbers, as their IDs    *)
(* are compared.                                                           *)
(***************************************************************************)
EXTENDS MinHeap

CONSTANT Processes   \* how many there are

ProcIds == 1..Processes
KeyValues == 1..3
================================================================================
