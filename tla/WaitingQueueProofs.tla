--------------------------- MODULE WaitingQueueProofs ---------------------------
(***************************************************************************)
(* Proofs about the ring buffer of DS/Queue.c and the waiting queue that   *)
(* the generator makes of two of them, for any processes and any capacity. *)
(***************************************************************************)
EXTENDS WaitingQueue, SequenceTheorems, TLAPS

\* The structure Queue: five fields and no more, so that updates keep the others.
Queue(q) ==
  /\ WellFormed(q)
  /\ q = [data |-> q.data, front |-> q.front, rear |-> q.rear, size |-> q.size,
          capacity |-> q.capacity]

\* The places of a ring come after each other, and after the last one the first.
Wrapped(x, c) == IF x < c THEN x ELSE x - c

LEMMA Wrap ==
  \A c \in Nat \ {0} : \A x \in 0..(2 * c - 1) : x % c = Wrapped(x, c)
<1> TAKE c \in Nat \ {0}
<1> TAKE x \in 0..(2 * c - 1)
<1>1. CASE x < c
  BY <1>1 DEF Wrapped
<1>2. CASE x >= c
  BY <1>2 DEF Wrapped
<1> QED BY <1>1, <1>2

LEMMA QueueFields ==
  ASSUME NEW q, Queue(q)
  PROVE  /\ q.capacity \in Nat \ {0} /\ q.size \in 0..q.capacity
         /\ q.front \in 0..(q.capacity - 1) /\ q.rear \in 0..(q.capacity - 1)
         /\ q.data \in [0..(q.capacity - 1) -> Item \cup {Nothing}]
         /\ q.rear = (q.front + q.size) % q.capacity
         /\ \A i \in 0..(q.size - 1) : At(q, i) \in Item
<1>1. WellFormed(q)
  BY DEF Queue
<1>2. PICK c \in Nat \ {0}, f \in Nat, n \in Nat :
        /\ q.capacity = c /\ q.front = f /\ q.size = n /\ f < c /\ n <= c
        /\ q.rear = (f + n) % c
  BY <1>1 DEF WellFormed
<1>3. (f + n) % c = Wrapped(f + n, c)
  BY <1>2, Wrap
<1>4. q.rear \in 0..(q.capacity - 1)
  BY <1>2, <1>3 DEF Wrapped
<1> QED BY <1>1, <1>4 DEF WellFormed

LEMMA ContentsAreItems ==
  ASSUME NEW q, Queue(q)
  PROVE  /\ Contents(q) \in Seq(Item) /\ Len(Contents(q)) = q.size
         /\ \A i \in 1..q.size : Contents(q)[i] = At(q, i - 1)
<1>1. q.size \in Nat /\ \A i \in 1..q.size : At(q, i - 1) \in Item
  <2>1. \A i \in 1..q.size : i - 1 \in 0..(q.size - 1)
    BY QueueFields
  <2> QED BY <2>1, QueueFields
<1>2. PICK n \in Nat : n = q.size
  BY <1>1
<1>3. Contents(q) = [i \in 1..n |-> At(q, i - 1)]
  BY <1>2 DEF Contents
<1> QED BY <1>1, <1>2, <1>3

\* queue_init
LEMMA InitQueue ==
  ASSUME NEW c \in Nat \ {0}
  PROVE  Queue(queue_init(c)) /\ Contents(queue_init(c)) = << >>
<1>1. 0 % c = 0
  BY Wrap
<1>2. WellFormed(queue_init(c))
  BY <1>1 DEF queue_init, WellFormed
<1> QED BY <1>2 DEF queue_init, Queue, Contents

(***************************************************************************)
(* queue_dequeue and queue_front: the first process, and the rest of the   *)
(* queue in its order, also across the end of the array.                   *)
(***************************************************************************)
LEMMA DequeueQueue ==
  ASSUME NEW q, Queue(q), ~queue_empty(q)
  PROVE  /\ Queue(queue_dequeue(q)) /\ queue_front(q) = Head(Contents(q))
         /\ Contents(q) # << >> /\ Contents(queue_dequeue(q)) = Tail(Contents(q))
<1>1. PICK r : r = queue_dequeue(q)
  OBVIOUS
<1>2. PICK c \in Nat \ {0}, f \in Nat, n \in Nat \ {0} :
        q.capacity = c /\ q.front = f /\ q.size = n /\ f < c /\ n <= c
  BY QueueFields DEF queue_empty
<1>3. PICK g \in Nat : g = (f + 1) % c /\ g = IF f + 1 < c THEN f + 1 ELSE f + 1 - c
  <2>1. (f + 1) % c = Wrapped(f + 1, c)
    BY <1>2, Wrap
  <2> QED BY <1>2, <2>1 DEF Wrapped
<1>4. r = [data |-> q.data, front |-> g, rear |-> q.rear, size |-> n - 1, capacity |-> c]
  BY <1>1, <1>2, <1>3 DEF queue_dequeue, queue_empty, Queue
<1>5. \A i \in 0..(n - 2) : At(r, i) = At(q, i + 1)
  <2> SUFFICES ASSUME NEW i \in 0..(n - 2) PROVE (g + i) % c = (f + (i + 1)) % c
    BY <1>2, <1>4 DEF At
  <2>1. g + i \in 0..(2 * c - 1) /\ f + (i + 1) \in 0..(2 * c - 1)
    BY <1>2, <1>3
  <2>2. (g + i) % c = Wrapped(g + i, c) /\ (f + (i + 1)) % c = Wrapped(f + (i + 1), c)
    BY <2>1, Wrap
  <2> QED BY <1>2, <1>3, <2>2 DEF Wrapped
<1>6. q.rear = (g + (n - 1)) % c
  <2>1. q.rear = (f + n) % c
    BY <1>2, QueueFields
  <2>2. g + (n - 1) \in 0..(2 * c - 1) /\ f + n \in 0..(2 * c - 1)
    BY <1>2, <1>3
  <2>3. (g + (n - 1)) % c = Wrapped(g + (n - 1), c) /\ (f + n) % c = Wrapped(f + n, c)
    BY <2>2, Wrap
  <2> QED BY <1>2, <1>3, <2>1, <2>3 DEF Wrapped
<1>7. Queue(r)
  <2>1. \A i \in 0..(r.size - 1) : At(r, i) \in Item
    <3>1. \A i \in 0..(n - 2) : i + 1 \in 0..(q.size - 1)
      BY <1>2
    <3>2. \A i \in 0..(n - 2) : At(r, i) \in Item
      BY <1>5, <3>1, QueueFields
    <3> QED BY <1>2, <1>4, <3>2
  <2>2. /\ r.capacity \in Nat \ {0} /\ r.size \in 0..r.capacity
        /\ r.front \in 0..(r.capacity - 1)
    BY <1>2, <1>4, <1>3
  <2>3. r.data \in [0..(r.capacity - 1) -> Item \cup {Nothing}]
    BY <1>2, <1>4, QueueFields
  <2>4. r.rear = (r.front + r.size) % r.capacity
    BY <1>4, <1>6
  <2> QED BY <1>4, <2>1, <2>2, <2>3, <2>4 DEF Queue, WellFormed
<1>8. queue_front(q) = At(q, 0)
  <2>1. f \in 0..(2 * c - 1) /\ f + 0 = f
    BY <1>2
  <2>2. (f + 0) % c = Wrapped(f, c)
    BY <2>1, Wrap
  <2>3. (f + 0) % c = f
    BY <1>2, <2>2 DEF Wrapped
  <2> QED BY <1>2, <2>3 DEF queue_front, queue_empty, At
<1>9. /\ Contents(q) \in Seq(Item) /\ Len(Contents(q)) = n
      /\ \A i \in 1..n : Contents(q)[i] = At(q, i - 1)
      /\ Contents(r) \in Seq(Item) /\ Len(Contents(r)) = n - 1
      /\ \A i \in 1..(n - 1) : Contents(r)[i] = At(r, i - 1)
  BY <1>2, <1>4, <1>7, ContentsAreItems
<1>10. /\ Tail(Contents(q)) \in Seq(Item) /\ Len(Tail(Contents(q))) = n - 1
       /\ \A i \in 1..(n - 1) : Tail(Contents(q))[i] = Contents(q)[i + 1]
       /\ Contents(q) # << >> /\ Head(Contents(q)) = At(q, 0)
  BY <1>2, <1>9, HeadTailProperties
<1>11. \A i \in 1..(n - 1) : Contents(r)[i] = Tail(Contents(q))[i]
  BY <1>2, <1>5, <1>9, <1>10
<1> QED BY <1>1, <1>7, <1>8, <1>9, <1>10, <1>11, SeqEqual

\* queue_resize of a full queue: the same processes in an array of twice the size.
LEMMA ResizeQueue ==
  ASSUME NEW q, Queue(q), queue_full(q)
  PROVE  LET r == queue_resize(q, q.capacity * 2)
         IN  /\ Queue(r) /\ Contents(r) = Contents(q)
             /\ r.size = q.size /\ ~queue_full(r)
<1>1. PICK r : r = queue_resize(q, q.capacity * 2)
  OBVIOUS
<1>2. PICK c \in Nat \ {0} : q.capacity = c /\ q.size = c
  BY QueueFields DEF queue_full
<1>3. r = [data |-> [i \in 0..(c * 2 - 1) |-> IF i < c THEN At(q, i) ELSE Nothing],
           front |-> 0, rear |-> c, size |-> c, capacity |-> c * 2]
  BY <1>1, <1>2 DEF queue_resize, Moved
<1>4. \A i \in 0..(c - 1) : At(r, i) = At(q, i)
  <2> SUFFICES ASSUME NEW i \in 0..(c - 1) PROVE At(r, i) = At(q, i)
    OBVIOUS
  <2>1. (0 + i) % (c * 2) = i
    BY <1>2
  <2> QED BY <1>2, <1>3, <2>1 DEF At
<1>5. Queue(r)
  <2>1. (0 + c) % (c * 2) = c
    BY <1>2
  <2>2. \A i \in 0..(c - 1) : At(q, i) \in Item
    BY <1>2, QueueFields
  <2>3. r.data \in [0..(c * 2 - 1) -> Item \cup {Nothing}]
    BY <1>2, <1>3, <2>2
  <2>4. \A i \in 0..(r.size - 1) : At(r, i) \in Item
    BY <1>3, <1>4, <2>2
  <2>5. WellFormed(r)
    BY <1>2, <1>3, <2>1, <2>3, <2>4 DEF WellFormed
  <2> QED BY <1>3, <2>5 DEF Queue
<1>6. Contents(r) = Contents(q)
  BY <1>2, <1>3, <1>4 DEF Contents
<1> QED BY <1>1, <1>2, <1>3, <1>5, <1>6 DEF queue_full

(***************************************************************************)
(* queue_enqueue: the process is the last, whether the queue is full,      *)
(* wraps around, or both.                                                  *)
(***************************************************************************)
Put(q, v) == [q EXCEPT !.data[q.rear] = v, !.rear = (@ + 1) % q.capacity, !.size = @ + 1]

LEMMA EnqueueNotFull ==
  ASSUME NEW q, Queue(q), ~queue_full(q), NEW v \in Item
  PROVE  Queue(Put(q, v)) /\ Contents(Put(q, v)) = Append(Contents(q), v)
<1>1. PICK r : r = Put(q, v)
  OBVIOUS
<1>2. PICK c \in Nat \ {0}, f \in Nat, n \in Nat, e \in Nat :
        /\ q.capacity = c /\ q.front = f /\ q.size = n /\ q.rear = e
        /\ f < c /\ n < c /\ e < c /\ e = (f + n) % c
  BY QueueFields DEF queue_full
<1>3. r = [data |-> [q.data EXCEPT ![e] = v], front |-> f, rear |-> (e + 1) % c, size |-> n + 1,
           capacity |-> c]
  BY <1>1, <1>2 DEF Queue, Put
<1>4. q.data \in [0..(c - 1) -> Item \cup {Nothing}]
  BY <1>2, QueueFields
<1>5. e = IF f + n < c THEN f + n ELSE f + n - c
  <2>1. (f + n) % c = Wrapped(f + n, c)
    BY <1>2, Wrap
  <2> QED BY <1>2, <2>1 DEF Wrapped
<1>6. \A i \in 0..(n - 1) : (f + i) % c \in 0..(c - 1) /\ (f + i) % c # e
  <2> SUFFICES ASSUME NEW i \in 0..(n - 1)
               PROVE  (f + i) % c \in 0..(c - 1) /\ (f + i) % c # e
    OBVIOUS
  <2>1. (f + i) % c = Wrapped(f + i, c)
    BY <1>2, Wrap
  <2> QED BY <1>2, <1>5, <2>1 DEF Wrapped
<1>7. \A i \in 0..(n - 1) : At(r, i) = At(q, i)
  <2> SUFFICES ASSUME NEW i \in 0..(n - 1) PROVE r.data[(f + i) % c] = q.data[(f + i) % c]
    BY <1>2, <1>3 DEF At
  <2>1. PICK j : j = (f + i) % c
    OBVIOUS
  <2>2. j \in 0..(c - 1) /\ j # e
    BY <1>6, <2>1
  <2> QED BY <1>3, <1>4, <2>1, <2>2
<1>8. At(r, n) = v
  BY <1>2, <1>3, <1>4 DEF At
<1>9. (e + 1) % c = (f + (n + 1)) % c
  <2>1. e + 1 \in 0..(2 * c - 1) /\ f + (n + 1) \in 0..(2 * c - 1)
    BY <1>2
  <2>2. (e + 1) % c = Wrapped(e + 1, c) /\ (f + (n + 1)) % c = Wrapped(f + (n + 1), c)
    BY <2>1, Wrap
  <2> QED BY <1>2, <1>5, <2>2 DEF Wrapped
<1>10. Queue(r)
  <2>1. \A i \in 0..(r.size - 1) : At(r, i) \in Item
    <3>1. \A i \in 0..n : i = n \/ i \in 0..(n - 1)
      BY <1>2
    <3>2. \A i \in 0..(n - 1) : At(q, i) \in Item
      BY <1>2, QueueFields
    <3>3. \A i \in 0..n : At(r, i) \in Item
      BY <1>7, <1>8, <3>1, <3>2
    <3> QED BY <1>2, <1>3, <3>3
  <2>2. r.data \in [0..(c - 1) -> Item \cup {Nothing}]
    BY <1>3, <1>4
  <2>3. r.capacity = c /\ r.front = f /\ r.size = n + 1 /\ r.rear = (f + (n + 1)) % c
    BY <1>3, <1>9
  <2>4. WellFormed(r)
    BY <1>2, <2>1, <2>2, <2>3 DEF WellFormed
  <2> QED BY <1>3, <2>4 DEF Queue
<1>11. /\ Contents(q) \in Seq(Item) /\ Len(Contents(q)) = n
       /\ \A i \in 1..n : Contents(q)[i] = At(q, i - 1)
       /\ Contents(r) \in Seq(Item) /\ Len(Contents(r)) = n + 1
       /\ \A i \in 1..(n + 1) : Contents(r)[i] = At(r, i - 1)
  <2>1. r.size = n + 1 /\ q.size = n
    BY <1>2, <1>3
  <2> QED BY <1>10, <2>1, ContentsAreItems
<1>12. /\ Append(Contents(q), v) \in Seq(Item) /\ Len(Append(Contents(q), v)) = n + 1
       /\ \A i \in 1..n : Append(Contents(q), v)[i] = Contents(q)[i]
       /\ Append(Contents(q), v)[n + 1] = v
  BY <1>11, AppendProperties
<1>13. \A i \in 1..(n + 1) : Contents(r)[i] = Append(Contents(q), v)[i]
  <2>1. Contents(r)[n + 1] = v
    BY <1>2, <1>8, <1>11
  <2>2. \A i \in 1..n : Contents(r)[i] = Contents(q)[i]
    BY <1>2, <1>7, <1>11
  <2> QED BY <1>2, <1>12, <2>1, <2>2
<1> QED BY <1>1, <1>10, <1>11, <1>12, <1>13, SeqEqual

LEMMA EnqueueQueue ==
  ASSUME NEW q, Queue(q), NEW v \in Item
  PROVE  Queue(queue_enqueue(q, v)) /\ Contents(queue_enqueue(q, v)) = Append(Contents(q), v)
<1>1. PICK r : r = IF queue_full(q) THEN queue_resize(q, q.capacity * 2) ELSE q
  OBVIOUS
<1>2. Queue(r) /\ Contents(r) = Contents(q) /\ ~queue_full(r)
  BY <1>1, ResizeQueue
<1>3. queue_enqueue(q, v) = Put(r, v)
  BY <1>1 DEF queue_enqueue, Put
<1> QED BY <1>2, <1>3, EnqueueNotFull
--------------------------------------------------------------------------------
(***************************************************************************)
(* Two sequences that are one line.                                        *)
(***************************************************************************)

\* The first of the second becomes the last of the first: the line is the same.
LEMMA MoveHead ==
  ASSUME NEW S, NEW s \in Seq(S), NEW t \in Seq(S), t # << >>
  PROVE  Append(s, Head(t)) \o Tail(t) = s \o t
<1>1. /\ Append(s, Head(t)) \in Seq(S) /\ Len(Append(s, Head(t))) = Len(s) + 1
      /\ \A i \in 1..Len(s) : Append(s, Head(t))[i] = s[i]
      /\ Append(s, Head(t))[Len(s) + 1] = t[1]
  BY AppendProperties
<1>2. /\ Tail(t) \in Seq(S) /\ Len(Tail(t)) = Len(t) - 1
      /\ \A i \in 1..(Len(t) - 1) : Tail(t)[i] = t[i + 1]
      /\ Len(s) \in Nat /\ Len(t) \in Nat \ {0}
  BY HeadTailProperties
<1>3. PICK u : u = Append(s, Head(t)) \o Tail(t)
  OBVIOUS
<1>4. PICK v : v = s \o t
  OBVIOUS
<1>5. /\ u \in Seq(S) /\ Len(u) = Len(s) + Len(t)
      /\ \A i \in 1..(Len(s) + Len(t)) :
           u[i] = IF i <= Len(s) + 1 THEN Append(s, Head(t))[i] ELSE Tail(t)[i - (Len(s) + 1)]
  BY <1>1, <1>2, <1>3, ConcatProperties
<1>6. /\ v \in Seq(S) /\ Len(v) = Len(s) + Len(t)
      /\ \A i \in 1..(Len(s) + Len(t)) : v[i] = IF i <= Len(s) THEN s[i] ELSE t[i - Len(s)]
  BY <1>4, ConcatProperties
<1>7. ASSUME NEW i \in 1..(Len(s) + Len(t)) PROVE u[i] = v[i]
  <2>1. CASE i <= Len(s)
    BY <1>1, <1>2, <1>5, <1>6, <2>1
  <2>2. CASE i = Len(s) + 1
    BY <1>1, <1>2, <1>5, <1>6, <2>2
  <2>3. CASE i > Len(s) + 1
    <3>1. i - (Len(s) + 1) \in 1..(Len(t) - 1) /\ (i - (Len(s) + 1)) + 1 = i - Len(s)
      BY <1>2, <2>3
    <3>2. Tail(t)[i - (Len(s) + 1)] = t[i - Len(s)]
      BY <1>2, <3>1
    <3> QED BY <1>2, <1>5, <1>6, <2>3, <3>2
  <2> QED BY <1>2, <2>1, <2>2, <2>3
<1> QED BY <1>3, <1>4, <1>5, <1>6, <1>7, SeqEqual

\* The first of the second leaves.
LEMMA SkipHead ==
  ASSUME NEW S, NEW s \in Seq(S), NEW t \in Seq(S), t # << >>
  PROVE  /\ Len(s) + 1 \in DOMAIN (s \o t)
         /\ s \o Tail(t) = SubSeq(s \o t, 1, (Len(s) + 1) - 1)
                             \o SubSeq(s \o t, (Len(s) + 1) + 1, Len(s \o t))
<1>1. s \o t \in Seq(S) /\ Len(s \o t) = Len(s) + Len(t) /\ Len(s) \in Nat /\ Len(t) \in Nat \ {0}
  BY ConcatProperties
<1>2. SubSeq(s \o t, 1, (Len(s) + 1) - 1) = s
  <2>1. CASE s = << >>
    BY <1>1, <2>1, SubSeqEmpty
  <2>2. CASE s # << >>
    BY <1>1, <2>2, SubSeqOfConcat1, SubSeqFull
  <2> QED BY <2>1, <2>2
<1>3. SubSeq(s \o t, (Len(s) + 1) + 1, Len(s \o t)) = Tail(t)
  <2>1. Tail(t) = SubSeq(t, 2, Len(t))
    BY TailIsSubSeq
  <2>2. CASE Len(t) = 1
    BY <1>1, <2>1, <2>2, SubSeqEmpty
  <2>3. CASE Len(t) # 1
    <3>1. PICK m \in Nat, n \in Nat \ {0, 1} : m = Len(s) /\ n = Len(t)
      BY <1>1, <2>3
    <3>2. /\ (m + 1) + 1 \in (m + 1)..(m + n) /\ m + n \in (m + 1)..(m + n)
          /\ ((m + 1) + 1) - m = 2 /\ (m + n) - m = n
      BY <3>1
    <3> QED BY <1>1, <2>1, <3>1, <3>2, SubSeqOfConcat2
  <2> QED BY <2>2, <2>3
<1>4. Len(s) + 1 \in DOMAIN (s \o t)
  <2>1. DOMAIN (s \o t) = 1..Len(s \o t)
    BY <1>1
  <2>2. Len(s) + 1 \in 1..(Len(s) + Len(t))
    BY <1>1
  <2> QED BY <1>1, <2>1, <2>2
<1> QED BY <1>2, <1>3, <1>4
--------------------------------------------------------------------------------
(***************************************************************************)
(* WaitingQueue implements WaitingLine.                                    *)
(***************************************************************************)

\* Between two calls of serve_waiting_queue everybody is back.
Inv ==
  /\ Queue(waiting_queue) /\ Queue(temp_queue)
  /\ stage \in {"main", "serve", "back"}
  /\ stage = "main" => queue_empty(temp_queue)

LEMMA EmptyContents ==
  ASSUME NEW q, Queue(q)
  PROVE  queue_empty(q) => Contents(q) = << >>
  BY ContentsAreItems DEF queue_empty

LEMMA InvInit == RingsInit => Inv /\ Line = << >>
<1> SUFFICES ASSUME RingsInit PROVE Inv /\ Line = << >>
  OBVIOUS
<1>1. /\ Queue(waiting_queue) /\ Contents(waiting_queue) = << >>
      /\ Queue(temp_queue) /\ Contents(temp_queue) = << >>
  BY InitialCapacityAssumption, InitQueue DEF RingsInit
<1>2. stage = "main" /\ queue_empty(temp_queue)
  BY DEF RingsInit, queue_init, queue_empty
<1> QED BY <1>1, <1>2 DEF Inv, Line

LEMMA InvStep == Inv /\ [RingsNext]_ringsVars => Inv' /\ (Waiting!Next \/ Line' = Line)
<1> SUFFICES ASSUME Inv, [RingsNext]_ringsVars PROVE Inv' /\ (Waiting!Next \/ Line' = Line)
  OBVIOUS
<1>1. /\ Queue(waiting_queue) /\ Contents(waiting_queue) \in Seq(Item)
      /\ Queue(temp_queue) /\ Contents(temp_queue) \in Seq(Item)
  BY ContentsAreItems DEF Inv
<1>2. ASSUME NEW p \in Item, Enqueue(p) PROVE Inv' /\ (Waiting!Next \/ Line' = Line)
  <2>1. /\ Queue(waiting_queue)' /\ Contents(waiting_queue)' = Append(Contents(waiting_queue), p)
        /\ temp_queue' = temp_queue /\ stage' = stage /\ stage = "main"
    BY <1>1, <1>2, EnqueueQueue DEF Enqueue
  <2>2. Contents(temp_queue) = << >>
    BY <1>1, <2>1, EmptyContents DEF Inv
  <2>3. Line = Contents(waiting_queue) /\ Line' = Append(Line, p)
    BY <1>1, <2>1, <2>2 DEF Line
  <2>4. p \notin Waiting!Range(Line)
    <3>1. ASSUME NEW i \in DOMAIN Contents(waiting_queue) PROVE Contents(waiting_queue)[i] # p
      <4>1. i \in 1..waiting_queue.size /\ Contents(waiting_queue)[i] = At(waiting_queue, i - 1)
        BY <1>1, <3>1, ContentsAreItems
      <4>2. i - 1 \in 0..(waiting_queue.size - 1)
        BY <1>1, <4>1, QueueFields
      <4> QED BY <1>2, <4>1, <4>2 DEF Enqueue, Held
    <3> QED BY <2>3, <3>1 DEF Waiting!Range
  <2>5. Waiting!Next
    BY <2>3, <2>4 DEF Waiting!Next, Waiting!Join
  <2> QED BY <2>1, <2>5 DEF Inv
<1>3. CASE StartServe
  <2>1. Queue(temp_queue)' /\ Contents(temp_queue)' = << >>
    BY <1>3, InitialCapacityAssumption, InitQueue DEF StartServe
  <2>2. Contents(temp_queue) = << >>
    BY <1>1, <1>3, EmptyContents DEF Inv, StartServe
  <2> QED BY <1>3, <2>1, <2>2 DEF StartServe, Inv, Line
<1>4. CASE Serve
  <2>1. /\ Queue(waiting_queue)' /\ Contents(waiting_queue)' = Tail(Contents(waiting_queue))
        /\ Contents(waiting_queue) # << >>
        /\ queue_front(waiting_queue) = Head(Contents(waiting_queue))
        /\ stage' = stage /\ stage = "serve"
    BY <1>1, <1>4, DequeueQueue DEF Serve
  <2>2. CASE UNCHANGED temp_queue
    <3>1. /\ Line = Contents(temp_queue) \o Contents(waiting_queue)
          /\ Line' = Contents(temp_queue) \o Tail(Contents(waiting_queue))
      BY <2>1, <2>2 DEF Line
    <3>2. PICK i : i = Len(Contents(temp_queue)) + 1
      OBVIOUS
    <3>3. i \in DOMAIN Line /\ Line' = Waiting!RemoveAt(Line, i)
      BY <1>1, <2>1, <3>1, <3>2, SkipHead DEF Waiting!RemoveAt
    <3>4. Waiting!Next
      BY <3>3 DEF Waiting!Next, Waiting!Leave
    <3> QED BY <2>1, <2>2, <3>4 DEF Inv
  <2>3. CASE temp_queue' = queue_enqueue(temp_queue, queue_front(waiting_queue))
    <3>1. queue_front(waiting_queue) \in Item
      BY <1>1, <2>1
    <3>2. /\ Queue(temp_queue)'
          /\ Contents(temp_queue)' = Append(Contents(temp_queue), Head(Contents(waiting_queue)))
      BY <1>1, <2>1, <2>3, <3>1, EnqueueQueue
    <3>3. Line' = Line
      BY <1>1, <2>1, <3>2, MoveHead DEF Line
    <3> QED BY <2>1, <3>2, <3>3 DEF Inv
  <2> QED BY <1>4, <2>2, <2>3 DEF Serve
<1>5. CASE EndServe
  <2>1. Contents(waiting_queue) = << >>
    BY <1>1, <1>5, EmptyContents DEF EndServe
  <2>2. /\ Line = Contents(temp_queue) \o Contents(waiting_queue)
        /\ Line' = Contents(waiting_queue) \o Contents(temp_queue)
    BY <1>5 DEF EndServe, Line
  <2> QED BY <1>1, <1>5, <2>1, <2>2, ConcatEmptySeq DEF EndServe, Inv
<1>6. CASE PutBack
  <2>1. /\ Queue(temp_queue)' /\ Contents(temp_queue)' = Tail(Contents(temp_queue))
        /\ Contents(temp_queue) # << >> /\ queue_front(temp_queue) = Head(Contents(temp_queue))
        /\ stage' = stage /\ stage = "back"
    BY <1>1, <1>6, DequeueQueue DEF PutBack
  <2>2. queue_front(temp_queue) \in Item
    BY <1>1, <2>1
  <2>3. /\ Queue(waiting_queue)'
        /\ Contents(waiting_queue)' = Append(Contents(waiting_queue), Head(Contents(temp_queue)))
    BY <1>1, <1>6, <2>1, <2>2, EnqueueQueue DEF PutBack
  <2>4. Line' = Line
    BY <1>1, <2>1, <2>3, MoveHead DEF Line
  <2> QED BY <2>1, <2>3, <2>4 DEF Inv
<1>7. CASE Return
  <2>1. Contents(temp_queue) = << >>
    BY <1>1, <1>7, EmptyContents DEF Return
  <2>2. /\ Line = Contents(waiting_queue) \o Contents(temp_queue)
        /\ Line' = Contents(temp_queue) \o Contents(waiting_queue)
    BY <1>7 DEF Return, Line
  <2> QED BY <1>1, <1>7, <2>1, <2>2, ConcatEmptySeq DEF Return, Inv
<1>8. CASE UNCHANGED ringsVars
  BY <1>8 DEF ringsVars, Inv, Line
<1> QED BY <1>2, <1>3, <1>4, <1>5, <1>6, <1>7, <1>8 DEF RingsNext

(***************************************************************************)
(* The two rings of the waiting queue keep their shape, whatever arrives   *)
(* and is served, however often they wrap around and grow: front, rear and *)
(* size agree, and every process is in the array between them.             *)
(***************************************************************************)
THEOREM RingsAreSound == RingsSpec => []RingsTypeOK
<1>1. RingsInit => Inv
  BY InvInit
<1>2. Inv /\ [RingsNext]_ringsVars => Inv'
  BY InvStep
<1>3. Inv => RingsTypeOK
  BY DEF Inv, RingsTypeOK, Queue
<1> QED BY <1>1, <1>2, <1>3, PTL DEF RingsSpec

(***************************************************************************)
(* The waiting queue keeps the order of arrival: a process that is refused *)
(* memory keeps its place, and serve_waiting_queue, which moves everybody  *)
(* to another ring and back, loses and doubles nobody.                     *)
(***************************************************************************)
THEOREM OrderOfArrivalIsKept == RingsSpec => ImplementsWaitingLine
<1>1. RingsInit => Inv /\ Waiting!Init
  BY InvInit DEF Waiting!Init
<1>2. Inv /\ [RingsNext]_ringsVars => Inv' /\ [Waiting!Next]_Line
  BY InvStep
<1> QED BY <1>1, <1>2, PTL DEF RingsSpec, ImplementsWaitingLine, Waiting!Spec
================================================================================
