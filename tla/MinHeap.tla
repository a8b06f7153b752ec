-------------------------------- MODULE MinHeap --------------------------------
(***************************************************************************)
(* The binary heap of DS/minHeap.c, with the comparators of                *)
(* DS/comparators.c.  The array is a sequence, so indices start at 1.      *)
(***************************************************************************)
EXTENDS Integers, SequencesExt

CONSTANTS
  Proc,      \* a process is its id_from_file
  Keys,      \* the priorities (HPF) or the remaining times (SRTN)
  Capacity,  \* MAX_PROCESSES
  None       \* NULL

ASSUME KeysAssumption == Keys \subseteq Int
ASSUME CapacityAssumption == Capacity \in Nat

VARIABLES
  processes,  \* ready_Heap->processes, as long as ready_Heap->size
  key,        \* what the comparator compares
  taken       \* what extract_min has returned, None after another operation

heapVars == <<processes, key, taken>>

parent(i) == i \div 2
left_child(i) == 2 * i
right_child(i) == 2 * i + 1

\* cmp(a, b) < 0
Less(k, a, b) == k[a] < k[b]

\* A swap without the temporary.
Overwritten(h, i, j) == [h EXCEPT ![i] = h[j]]

Swap(h, i, j) == [h EXCEPT ![i] = h[j], ![j] = h[i]]

\* A process that is on its way through the array h, at the index i.
Moving == Seq(Proc) \X (Nat \ {0})

Rises(k, h, i) == i \in 2..Len(h) /\ Less(k, h[i], h[parent(i)])

\* heapify_up for the keys k, as a function of <<h, i>>.
heapify_up(k) ==
  LET up[m \in Moving] ==
        LET h == m[1]  i == m[2]
        IN  IF Rises(k, h, i) THEN up[<<Swap(h, i, parent(i)), parent(i)>>] ELSE h
  IN  up

LeftOnly(k, h, i) ==
  IF left_child(i) <= Len(h) /\ Less(k, h[left_child(i)], h[i]) THEN left_child(i) ELSE i

LeftFirst(k, h, i) == LeftOnly(k, h, i)

\* The least of a process and its children; of equal ones the first.
Smallest(k, h, i) ==
  LET l == LeftOnly(k, h, i)
  IN  IF right_child(i) <= Len(h) /\ Less(k, h[right_child(i)], h[l])
      THEN right_child(i) ELSE l

heapify_down(k) ==
  LET down[m \in Moving] ==
        LET h == m[1]  i == m[2]  s == Smallest(k, h, i)
        IN  IF s # i THEN down[<<Swap(h, i, s), s>>] ELSE h
  IN  down
--------------------------------------------------------------------------------
HeapInit ==
  /\ processes = << >>
  /\ key \in [Proc -> Keys]
  /\ taken = None

Inside == Range(processes)

\* insert_process_min_heap.  The key of a process is fixed by then.
Insert(p, k) ==
  /\ p \notin Inside
  /\ Len(processes) < Capacity
  /\ key' = [key EXCEPT ![p] = k]
  /\ processes' = heapify_up(key')[<<Append(processes, p), Len(processes) + 1>>]
  /\ taken' = None

\* The heap is full: the process is dropped.
InsertFails(p) ==
  /\ p \notin Inside
  /\ Len(processes) >= Capacity
  /\ UNCHANGED heapVars

Sifted(k, h) == IF h = << >> THEN h ELSE heapify_down(k)[<<h, 1>>]

\* extract_min; the last process moves to the root.
ExtractMin ==
  /\ processes # << >>
  /\ taken' = Head(processes)
  /\ processes' = Sifted(key, Front([processes EXCEPT ![1] = Last(processes)]))
  /\ UNCHANGED key

ExtractFails ==
  /\ processes = << >>
  /\ taken' = None
  /\ UNCHANGED <<processes, key>>

RaisedOnly(k, h, i) == heapify_up(k)[<<h, i>>]

Reordered(k, h, i) == heapify_down(k)[<<heapify_up(k)[<<h, i>>], i>>]

PlaceOf(p) == CHOOSE i \in DOMAIN processes : processes[i] = p

(***************************************************************************)
(* update_process_in_heap, after the key of a process in the heap has      *)
(* changed.  The index stays where the process was, even if heapify_up     *)
(* has moved it.  Nothing calls this operation yet.                        *)
(***************************************************************************)
Update(p, k) ==
  /\ p \in Inside
  /\ key' = [key EXCEPT ![p] = k]
  /\ processes' = Reordered(key', processes, PlaceOf(p))
  /\ taken' = None

HeapNext ==
  \/ \E p \in Proc :
       InsertFails(p) \/ \E k \in Keys : Insert(p, k) \/ Update(p, k)
  \/ ExtractMin
  \/ ExtractFails

HeapSpec == HeapInit /\ [][HeapNext]_heapVars
--------------------------------------------------------------------------------
\* No process is in the array twice, and the array is not overrun.
HeapTypeOK ==
  /\ processes \in Seq(Proc)
  /\ IsInjective(processes)
  /\ Len(processes) <= Capacity
  /\ key \in [Proc -> Keys]
  /\ taken \in Proc \cup {None}

(***************************************************************************)
(* The heap order: no process of the array goes before its parent, after   *)
(* any sequence of insertions and extractions.                             *)
(***************************************************************************)
HeapOrdered ==
  \A i \in 2..Len(processes) : ~Less(key, processes[i], processes[parent(i)])

(***************************************************************************)
(* The heap is used as a set from which a least process is taken: none is  *)
(* lost or doubled by the swaps, and extract_min returns a least one.      *)
(***************************************************************************)
Ready == INSTANCE ReadyHeap WITH ready <- Inside
ImplementsReadyHeap == Ready!Spec

(***************************************************************************)
(* README: "Ties in scheduling ... are resolved by process ID (lower ID    *)
(* first)".  A process that is taken leaves no equal one with a lower ID.  *)
(***************************************************************************)
TiesByLowerId ==
  taken # None => \A q \in Inside : key[q] = key[taken] => taken < q
================================================================================
