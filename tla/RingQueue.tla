------------------------------- MODULE RingQueue -------------------------------
(***************************************************************************)
(* The ring buffer of DS/Queue.c, as functions from a queue to a queue.    *)
(* The waiting queue of the generator and the ready queue of RR are such   *)
(* queues.  They hold PCBs, for which a member of Item stands.             *)
(***************************************************************************)
EXTENDS Integers, Sequences

CONSTANTS
  Item,             \* the processes
  InitialCapacity,  \* the capacity that main and serve_waiting_queue ask for
  Nothing           \* what malloc leaves in a place, and the PCB of an empty queue

ASSUME InitialCapacityAssumption == InitialCapacity \in Nat \ {0}
ASSUME NothingAssumption == Nothing \notin Item

queue_init(c) ==
  [data |-> [i \in 0..(c - 1) |-> Nothing], front |-> 0, rear |-> 0, size |-> 0, capacity |-> c]

queue_empty(q) == q.size = 0
queue_full(q) == q.size = q.capacity

\* The i-th process from the front, counted from 0.
At(q, i) == q.data[(q.front + i) % q.capacity]

Unrotated(q, i) == q.data[i]

Moved(q, i) == At(q, i)

\* The processes move to the beginning of the new array, in their order.
queue_resize(q, c) ==
  [data |-> [i \in 0..(c - 1) |-> IF i < q.size THEN Moved(q, i) ELSE Nothing],
   front |-> 0, rear |-> q.size, size |-> q.size, capacity |-> c]

queue_enqueue(q, v) ==
  LET r == IF queue_full(q) THEN queue_resize(q, q.capacity * 2) ELSE q
  IN  [r EXCEPT !.data[r.rear] = v, !.rear = (@ + 1) % r.capacity, !.size = @ + 1]

queue_front(q) == IF queue_empty(q) THEN Nothing ELSE q.data[q.front]

Unwrapped(q) == [q EXCEPT !.front = @ + 1, !.size = @ - 1]

queue_dequeue(q) ==
  IF queue_empty(q) THEN q
  ELSE [q EXCEPT !.front = (@ + 1) % q.capacity, !.size = @ - 1]

\* What the queue holds, from front to rear.
Contents(q) == [i \in 1..q.size |-> At(q, i - 1)]

\* rear is where the next process goes, and the queue fits into its array.
WellFormed(q) ==
  /\ q.capacity \in Nat \ {0}
  /\ q.data \in [0..(q.capacity - 1) -> Item \cup {Nothing}]
  /\ q.size \in 0..q.capacity
  /\ q.front \in 0..(q.capacity - 1)
  /\ q.rear = (q.front + q.size) % q.capacity
  /\ \A i \in 0..(q.size - 1) : At(q, i) \in Item
================================================================================
