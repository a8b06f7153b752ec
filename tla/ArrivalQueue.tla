------------------------------ MODULE ArrivalQueue ------------------------------
(***************************************************************************)
(* The priority queue of DS/priorityQueue.c, sorted by arrival time, as    *)
(* the generator uses it: read_processes pushes every line of the input    *)
(* file, then main takes them out.  Generator has a set in its place.      *)
(***************************************************************************)
EXTENDS Integers, SequencesExt

CONSTANTS
  Entry,       \* the lines of the input file, each a process
  Times,       \* the arrival times
  PqCapacity,  \* what main asks pq_init for
  Blank        \* what malloc leaves in a place, and no process

ASSUME TimesAssumption == Times # {} /\ Times \subseteq Int
ASSUME PqCapacityAssumption == PqCapacity \in Nat \ {0}

VARIABLES
  data,          \* the array, as long as pq->capacity
  size,
  arrival_time,  \* the arrival time of each process
  popped,        \* the process that has been popped last
  loading        \* read_processes has not reached the end of the file

arrivalsVars == <<data, size, arrival_time, popped, loading>>

capacity == Len(data)
left(i) == 2 * i
right(i) == 2 * i + 1

\* compare_processes(a, b) < 0
Before(k, a, b) == k[a] < k[b]

pq_resize(d, n) == d \o [i \in 1..(n - Len(d)) |-> Blank]

\* A place in an array of at least n processes.
Places(n) == {d \in Seq(Entry \cup {Blank}) : n <= Len(d)} \X (Nat \ {0})

(***************************************************************************)
(* pq_push moves the hole at the end towards the root, past every parent   *)
(* that comes after the new process, and puts the process there.           *)
(***************************************************************************)
Climb(k, p) ==
  LET hole[m \in Places(0)] ==
        LET d == m[1]  i == m[2]
        IN  IF i > 1 /\ Before(k, p, d[i \div 2])
            THEN hole[<<[d EXCEPT ![i] = d[i \div 2]], i \div 2>>]
            ELSE [d EXCEPT ![i] = p]
  IN  hole

LeftChild(k, d, n, i) ==
  IF left(i) <= n /\ Before(k, d[left(i)], d[i]) THEN left(i) ELSE i

LeftChildFirst(k, d, n, i) == LeftChild(k, d, n, i)

\* The least of a process and its children in an array of n processes.
Least(k, d, n, i) ==
  LET l == LeftChild(k, d, n, i)
  IN  IF right(i) <= n /\ Before(k, d[right(i)], d[l]) THEN right(i) ELSE l

\* pq_pop sifts the process at the root down, among the first n of the array.
Sink(k, n) ==
  LET down[m \in Places(n)] ==
        LET d == m[1]  i == m[2]  s == Least(k, d, n, i)
        IN  IF s = i THEN d ELSE down[<<[d EXCEPT ![i] = d[s], ![s] = d[i]], s>>]
  IN  down
--------------------------------------------------------------------------------
ArrivalsInit ==
  /\ data = [i \in 1..PqCapacity |-> Blank]
  /\ size = 0
  /\ arrival_time = [p \in Entry |-> CHOOSE k \in Times : TRUE]
  /\ popped = Blank
  /\ loading = TRUE

Pushed == {data[i] : i \in 1..size}

\* pq_push; the array is doubled when it is full.
Push(p, k) ==
  /\ loading
  /\ p \notin Pushed
  /\ LET d == IF size >= capacity THEN pq_resize(data, 2 * capacity) ELSE data
     IN  /\ arrival_time' = [arrival_time EXCEPT ![p] = k]
         /\ data' = Climb(arrival_time', p)[<<d, size + 1>>]
  /\ size' = size + 1
  /\ UNCHANGED <<popped, loading>>

\* The end of the file; a queue that stays empty is not read from.
Loaded ==
  /\ loading
  /\ loading' = FALSE
  /\ UNCHANGED <<data, size, arrival_time, popped>>

Kept == size

Shrunk == size - 1

\* pq_top and pq_pop: the last process moves to the root and sinks.  The places
\* behind the end keep what they hold.
Pop ==
  /\ ~loading
  /\ size > 0
  /\ popped' = data[1]
  /\ size' = Shrunk
  /\ data' = Sink(arrival_time, Shrunk)[<<[data EXCEPT ![1] = data[size]], 1>>]
  /\ UNCHANGED <<arrival_time, loading>>

ArrivalsNext == Loaded \/ Pop \/ \E p \in Entry, k \in Times : Push(p, k)

ArrivalsSpec == ArrivalsInit /\ [][ArrivalsNext]_arrivalsVars
--------------------------------------------------------------------------------
\* The used part of the array holds processes, each of them once.
ArrivalsTypeOK ==
  /\ size \in 0..capacity
  /\ \A i \in 1..size : data[i] \in Entry
  /\ Cardinality(Pushed) = size
  /\ arrival_time \in [Entry -> Times]
  /\ popped \in Entry \cup {Blank}
  /\ loading \in BOOLEAN

(***************************************************************************)
(* The generator takes the lines of the file out by their arrival times:   *)
(* growing and sifting lose none of them, and double none.                 *)
(***************************************************************************)
Arrivals == INSTANCE ReadyHeap WITH
              Proc <- Entry, Keys <- Times, None <- Blank,
              ready <- Pushed, key <- arrival_time, taken <- popped
ArrivalsImplementReadyHeap == Arrivals!Spec
================================================================================
