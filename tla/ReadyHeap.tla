------------------------------- MODULE ReadyHeap -------------------------------
(***************************************************************************)
(* What a ready heap promises its user, and what the module Scheduler      *)
(* takes its ready_Heap to be: a set of processes, of which the user gets  *)
(* a process with the least key.                                           *)
(***************************************************************************)
EXTENDS Integers

CONSTANTS
  Proc,
  Keys,   \* the priorities, or the remaining times
  None    \* no process, the NULL of extract_min

VARIABLES
  ready,  \* the processes in the heap
  key,    \* the key of each process
  taken   \* the process that the last operation has taken out, or None

vars == <<ready, key, taken>>

Init ==
  /\ ready = {}
  /\ key \in [Proc -> Keys]
  /\ taken = None

Insert(p, k) ==
  /\ p \notin ready
  /\ ready' = ready \cup {p}
  /\ key' = [key EXCEPT ![p] = k]
  /\ taken' = None

ExtractMin(p) ==
  /\ p \in ready
  /\ \A q \in ready : key[p] <= key[q]
  /\ ready' = ready \ {p}
  /\ taken' = p
  /\ UNCHANGED key

\* The key of a ready process changes, and the heap is told.
Update(p, k) ==
  /\ p \in ready
  /\ key' = [key EXCEPT ![p] = k]
  /\ taken' = None
  /\ UNCHANGED ready

\* There is none to take.
ExtractFails ==
  /\ ready = {}
  /\ taken' = None
  /\ UNCHANGED <<ready, key>>

Next ==
  \/ ExtractFails
  \/ \E p \in Proc : ExtractMin(p) \/ \E k \in Keys : Insert(p, k) \/ Update(p, k)

Spec == Init /\ [][Next]_vars
================================================================================
