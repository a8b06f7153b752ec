------------------------------- MODULE Generator -------------------------------
(***************************************************************************)
(* The process generator (process_generator.c): once per tick it gives     *)
(* memory to the processes that wait for some and to those that arrive,    *)
(* creates them stopped, sends their PCBs to the scheduler and posts one   *)
(* token.  Its SIGCHLD handler frees the memory of the processes that have *)
(* exited, at any moment between two of these steps.  The memory is        *)
(* BuddyMemory, of which this module uses the functions.                   *)
(***************************************************************************)
EXTENDS SharedState

CONSTANTS Depth, Sizes   \* of BuddyMemory

VARIABLES
  gen,            \* where the generator is
  last_tick,
  pq,             \* the lines of the input file that have not arrived yet
  waiting_queue,  \* the processes that memory could not be found for
  temp_queue,     \* those of them that this tick has not found any for either
  once,           \* SIGUSR1 has not been sent yet
  roused,         \* a SIGCHLD cuts the sleep short (recorded where it matters)
  mem, booked     \* see BuddyMemory

generatorVars ==
  <<gen, last_tick, pq, waiting_queue, temp_queue, once, roused, mem, booked>>

Resident == {p \in Proc : life[p] \notin {"unborn", "reaped"}}

Memory == INSTANCE BuddyMemory WITH resident <- Resident

ASSUME MemoryAssumption == Depth \in Nat /\ Sizes \subseteq Nat
ASSUME SizesAssumption == \A w \in Workloads : \A p \in Proc : w[p].mem \in Sizes

GeneratorTypeOK ==
  /\ gen \in {"poll", "serve", "serveLaunch", "arrive", "arriveLaunch", "sleep", "exited"}
  /\ last_tick \in -1..MaxClk
  /\ pq \subseteq Proc
  /\ {waiting_queue, temp_queue} \subseteq SeqOf(Proc, Cardinality(Proc))
  /\ once \in BOOLEAN /\ roused \in BOOLEAN
  /\ Memory!TypeOK

GeneratorInit ==
  /\ gen = "poll"
  /\ last_tick = -1
  /\ pq = Proc
  /\ waiting_queue = << >> /\ temp_queue = << >>
  /\ once = TRUE /\ roused = FALSE
  /\ Memory!Init

\* A new tick: get_clk() differs from last_tick.
Poll ==
  /\ gen = "poll"
  /\ clk # last_tick
  /\ last_tick' = clk
  /\ gen' = "serve"
  /\ UNCHANGED <<sharedVars, pq, waiting_queue, temp_queue, once, roused, mem, booked>>

(***************************************************************************)
(* allocate_memory for process p: book finds a block and books it, refuse  *)
(* finds none, and the blocks split in the search stay split.              *)
(***************************************************************************)
Level(p) == Memory!BlockLevel(job[p].mem)
Searched(p) == Memory!traverse_MemorySegment(mem, Level(p))
Fits(p) == Memory!Found(mem, Level(p)) # {}

Book(p) ==
  /\ Fits(p)
  /\ \E n \in Memory!Found(mem, Level(p)) :
       mem' = [Searched(p) EXCEPT ![n].id_from_file = p, ![n].allocated = job[p].mem]
  /\ booked' = p

Refuse(p) ==
  /\ ~Fits(p)
  /\ mem' = Searched(p)
  /\ UNCHANGED booked

\* serve_waiting_queue: the next process of the queue.
Serve ==
  /\ gen = "serve"
  /\ waiting_queue # << >>
  /\ LET p == Head(waiting_queue) IN
       \/ Book(p) /\ gen' = "serveLaunch" /\ UNCHANGED temp_queue
       \/ Refuse(p) /\ temp_queue' = Append(temp_queue, p) /\ UNCHANGED gen
  /\ waiting_queue' = Tail(waiting_queue)
  /\ UNCHANGED <<sharedVars, last_tick, pq, once, roused>>

\* Those that were refused go back to the waiting queue, in the same order.
ServeDone ==
  /\ gen = "serve"
  /\ waiting_queue = << >>
  /\ waiting_queue' = temp_queue
  /\ temp_queue' = << >>
  /\ gen' = "arrive"
  /\ UNCHANGED <<sharedVars, last_tick, pq, once, roused, mem, booked>>

EarlyArrived == {p \in pq : job[p].arrival <= last_tick + 1}

Arrived == {p \in pq : job[p].arrival <= last_tick}

\* The next process of the priority queue that has arrived.
Arrive ==
  /\ gen = "arrive"
  /\ \E p \in Arrived :
       /\ \A q \in pq : job[p].arrival <= job[q].arrival
       /\ pq' = pq \ {p}
       /\ \/ Book(p) /\ gen' = "arriveLaunch" /\ UNCHANGED waiting_queue
          \/ Refuse(p) /\ waiting_queue' = Append(waiting_queue, p) /\ UNCHANGED gen
  /\ UNCHANGED <<sharedVars, last_tick, temp_queue, once, roused>>

(***************************************************************************)
(* createProcess, update_id and msgsnd for the process that has just been  *)
(* given memory.  It is stopped before it has run; the SIGCHLD that tells  *)
(* the generator so comes a little later.                                  *)
(***************************************************************************)
Launch ==
  /\ \/ gen = "serveLaunch" /\ gen' = "serve"
     \/ gen = "arriveLaunch" /\ gen' = "arrive"
  /\ mem' = [n \in DOMAIN mem |->
               IF mem[n].id_from_file = booked THEN [mem[n] EXCEPT !.process_pid = booked]
                                               ELSE mem[n]]
  /\ booked' = None
  /\ shm' = [shm EXCEPT ![booked] = job[booked].exec]
  /\ sync_sem' = [sync_sem EXCEPT ![booked] = 0]
  /\ life' = [life EXCEPT ![booked] = "spin"]
  /\ stopped' = stopped \cup {booked}
  /\ msgq' = Append(msgq, booked)
  /\ roused' = (Timely /\ pq = {})
  /\ UNCHANGED <<job, clk, semid, usr1, usr2, last_tick, pq, waiting_queue, temp_queue, once>>

OneMoreToken == semid + 1
TokenForMessages == IF msgq # << >> THEN 1 ELSE semid

\* semctl(semid, 0, SETVAL, 1): a token that has not been taken is not doubled.
Token == 1

\* Nobody is left to come or to wait, for the first time.
SentAll == pq = {} /\ waiting_queue = << >> /\ once

\* The end of the generator's work for a tick, when nobody else has arrived.  The
\* stop of a process it has launched may be reported in the sleep that follows.
Post ==
  /\ gen = "arrive"
  /\ Arrived = {}
  /\ semid' = Token
  /\ gen' = "sleep"
  /\ roused' \in {roused /\ SentAll, FALSE}
  /\ UNCHANGED <<job, clk, msgq, sync_sem, shm, life, stopped, usr1, usr2,
                 last_tick, pq, waiting_queue, temp_queue, once, mem, booked>>

\* A tenth of a second later, or when a SIGCHLD interrupts usleep: SIGUSR1 when
\* all have been sent.
Wake ==
  /\ gen = "sleep"
  /\ IF SentAll
     THEN usr1' = TRUE /\ once' = FALSE
     ELSE UNCHANGED <<usr1, once>>
  /\ gen' = "poll"
  /\ roused' = FALSE
  /\ UNCHANGED <<job, clk, semid, msgq, sync_sem, shm, life, stopped, usr2,
                 last_tick, pq, waiting_queue, temp_queue, mem, booked>>

BlockOf(p) == CHOOSE b \in DOMAIN mem : mem[b].process_pid = p
Unmerged(p) == [mem EXCEPT ![BlockOf(p)] = Memory!Released(@)]

\* deallocate_memory
Freed(p) == Memory!merge_buddy_blocks(Unmerged(p), BlockOf(p))

(***************************************************************************)
(* handle_children_termination for a process that has exited.  One that    *)
(* was killed by a signal is reaped as well, but its memory is not freed:  *)
(* it stays "crashed" in the model.                                        *)
(***************************************************************************)
ReapProcess(p) ==
  /\ gen # "exited"
  /\ life[p] = "zombie"
  /\ mem' = IF \E b \in DOMAIN mem : mem[b].process_pid = p THEN Freed(p) ELSE mem
  /\ life' = [life EXCEPT ![p] = "reaped"]
  /\ UNCHANGED <<job, clk, semid, msgq, sync_sem, shm, stopped, usr1, usr2,
                 gen, last_tick, pq, waiting_queue, temp_queue, once, roused, booked>>

\* The exit, the stop or the continuation of a child in the sleep: there is no
\* SA_NOCLDSTOP.  It matters if a tick leaves time for its work and SIGUSR1 is next.
Rouse(event) == roused' = (roused \/ (Timely /\ gen = "sleep" /\ SentAll /\ event))

restVars == <<gen, last_tick, pq, waiting_queue, temp_queue, once, mem, booked>>

GeneratorStep == Poll \/ Serve \/ ServeDone \/ Arrive \/ Launch \/ Post

GeneratorSettled == gen = "poll" /\ clk = last_tick /\ \A p \in Proc : life[p] # "zombie"
================================================================================
