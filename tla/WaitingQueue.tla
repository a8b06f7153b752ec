------------------------------ MODULE WaitingQueue ------------------------------
(***************************************************************************)
(* The waiting queue of the generator as it is in memory: a ring that main *)
(* appends to, and that serve_waiting_queue empties once per tick into a   *)
(* second ring and fills again.  Generator has the same steps with plain   *)
(* sequences.                                                              *)
(***************************************************************************)
EXTENDS RingQueue

VARIABLES
  waiting_queue,
  temp_queue,     \* the queue of serve_waiting_queue, new in every call
  stage           \* "main", or which loop of serve_waiting_queue: "serve" or "back"

ringsVars == <<waiting_queue, temp_queue, stage>>

RingsInit ==
  /\ waiting_queue = queue_init(InitialCapacity)
  /\ temp_queue = queue_init(InitialCapacity)
  /\ stage = "main"

Held == {At(waiting_queue, i) : i \in 0..(waiting_queue.size - 1)}

\* main: no memory for a process that arrives.
Enqueue(p) ==
  /\ stage = "main"
  /\ p \notin Held
  /\ waiting_queue' = queue_enqueue(waiting_queue, p)
  /\ UNCHANGED <<temp_queue, stage>>

\* serve_waiting_queue is called.
StartServe ==
  /\ stage = "main"
  /\ temp_queue' = queue_init(InitialCapacity)
  /\ stage' = "serve"
  /\ UNCHANGED waiting_queue

\* The first of the queue, which is given memory or not.
Serve ==
  /\ stage = "serve"
  /\ ~queue_empty(waiting_queue)
  /\ waiting_queue' = queue_dequeue(waiting_queue)
  /\ \/ UNCHANGED temp_queue
     \/ temp_queue' = queue_enqueue(temp_queue, queue_front(waiting_queue))
  /\ UNCHANGED stage

EndServe ==
  /\ stage = "serve"
  /\ queue_empty(waiting_queue)
  /\ stage' = "back"
  /\ UNCHANGED <<waiting_queue, temp_queue>>

PutBack ==
  /\ stage = "back"
  /\ ~queue_empty(temp_queue)
  /\ waiting_queue' = queue_enqueue(waiting_queue, queue_front(temp_queue))
  /\ temp_queue' = queue_dequeue(temp_queue)
  /\ UNCHANGED stage

Return ==
  /\ stage = "back"
  /\ queue_empty(temp_queue)
  /\ stage' = "main"
  /\ UNCHANGED <<waiting_queue, temp_queue>>

RingsNext == StartServe \/ Serve \/ EndServe \/ PutBack \/ Return \/ \E p \in Item : Enqueue(p)

RingsSpec == RingsInit /\ [][RingsNext]_ringsVars
--------------------------------------------------------------------------------
RingsTypeOK ==
  /\ WellFormed(waiting_queue)
  /\ WellFormed(temp_queue)
  /\ stage \in {"main", "serve", "back"}

(***************************************************************************)
(* The two rings together are one line in the order of arrival: while they *)
(* are served, the refused ones are before those still to be asked, and    *)
(* while they go back, those that are back are before the others.  Rings   *)
(* that wrap around or grow in the middle of it lose and double nobody.    *)
(***************************************************************************)
Line ==
  IF stage = "back" THEN Contents(waiting_queue) \o Contents(temp_queue)
                    ELSE Contents(temp_queue) \o Contents(waiting_queue)

Waiting == INSTANCE WaitingLine WITH line <- Line
ImplementsWaitingLine == Waiting!Spec
================================================================================
