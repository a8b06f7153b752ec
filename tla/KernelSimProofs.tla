---------------------------- MODULE KernelSimProofs ----------------------------
(***************************************************************************)
(* Proofs about KernelSim, for every number of processes, every input      *)
(* file, every algorithm, and whether or not ticks are late.               *)
(***************************************************************************)
EXTENDS KernelSim, DataLemmas

Launched(p) == life[p] # "unborn"
Ended(p) == life[p] \in {"exit", "zombie", "reaped"}
Finished(p) == finish[p] # None
Time == 0..MaxClk \cup {None}
PCBType == [remaining : Int, start : Time, waiting : Int, last_prempt : Time]

\* The types of what is not a queue, as far as they are needed to reason.
Types ==
  /\ job \in Workloads
  /\ clk \in 0..MaxClk
  /\ semid \in {0, 1}
  /\ sync_sem \in [Proc -> 0..2 \cup {None}]
  /\ shm \in [Proc -> Int]
  /\ life \in [Proc -> Life]
  /\ stopped \subseteq Proc
  /\ usr1 \in BOOLEAN /\ usr2 \in BOOLEAN
  /\ seen \in [Proc -> Time]
  /\ at \in Places
  /\ caller \in {"tick", "recv"}
  /\ current_process \in Proc \cup {None}
  /\ pcb \in [Proc -> PCBType]
  /\ clockValue \in -1..MaxClk /\ current_time \in -1..MaxClk
  /\ time_slice_start \in -1..MaxClk
  /\ start_time \in Time
  /\ generator_finished \in BOOLEAN
  /\ finish \in [Proc -> Time]
  /\ logged \in -1..MaxClk

ReadyTypes ==
  /\ Distinct(rr_queue, Proc)
  /\ ready_Heap \subseteq Proc
  /\ IF Algorithm = "RR" THEN ready_Heap = {} ELSE rr_queue = << >>

\* The processes that the generator has not launched yet.
Waiting == Range(waiting_queue) \cup Range(temp_queue) \cup ({booked} \ {None})

GeneratorPlaces ==
  /\ pq \subseteq Proc
  /\ Distinct(waiting_queue, Proc) /\ Distinct(temp_queue, Proc)
  /\ Range(waiting_queue) \cap Range(temp_queue) = {}
  /\ pq \cap Waiting = {}
  /\ booked \in Proc \cup {None}
  /\ booked \notin Range(waiting_queue) \cup Range(temp_queue)
  /\ gen \in {"poll", "serve", "serveLaunch", "arrive", "arriveLaunch", "sleep", "exited"}
  /\ gen \in {"serveLaunch", "arriveLaunch"} => booked # None
  /\ booked # None => gen \in {"serveLaunch", "arriveLaunch", "exited"}
  /\ once \in BOOLEAN /\ roused \in BOOLEAN
  /\ \A p \in Proc : Launched(p) <=> p \notin pq \cup Waiting

SchedulerPlaces ==
  /\ ReadyTypes
  /\ Distinct(msgq, Proc)
  /\ \A p \in Proc :
       /\ p \in Range(msgq) =>
            Launched(p) /\ p \notin ReadySet /\ p # current_process /\ ~Finished(p)
       /\ p \in ReadySet => Launched(p) /\ ~Finished(p) /\ p \in stopped
       /\ p = current_process => Launched(p) /\ ~Finished(p) /\ (p \in ReadySet <=> at = "pick")
       /\ Launched(p) /\ p \notin stopped => p = current_process \/ Finished(p)

Control ==
  /\ at \in {"preempt", "stop"} => ~Idle
  /\ at \in {"boot", "sync"} => Idle
  /\ Algorithm = "HPF" => at \notin {"preempt", "stop"} /\ (at \in {"switch", "pick"} => Idle)

Signals ==
  /\ usr2 => ~Idle /\ Ended(current_process) /\ at # "pick"
  /\ \A p \in Proc :
       /\ Ended(p) /\ Alive => Finished(p) \/ (usr2 /\ p = current_process)
       /\ Finished(p) => Ended(p)

Working ==
  \A p \in Proc :
    /\ life[p] \in {"unborn", "spin", "read", "tick"} =>
         shm[p] \in 0..job[p].exec /\ (job[p].exec > 0 => shm[p] > 0)
    /\ life[p] = "unborn" => shm[p] = job[p].exec
    /\ life[p] = "notify" => job[p].exec > 0 /\ shm[p] = 0
    /\ life[p] = "crashed" => job[p].exec = 0 /\ shm[p] = -1
    /\ Ended(p) => shm[p] = 0
    /\ sync_sem[p] = None => Finished(p)
    /\ sync_sem[p] = 2 => Ended(p)

\* Whoever has left the priority queue has arrived.
Arrivals ==
  /\ last_tick \in -1..clk
  /\ \A p \in Proc \ pq : job[p].arrival <= last_tick

\* The scheduler decides who runs next.
Deciding == at \in {"run", "switch", "preempt", "stop", "pick"}

\* The main loop has read the clock and not yet stored it in clockValue.
Reading == at \in {"compare", "store"}

\* The time that the main loop works with.
LoopTime == IF Reading THEN current_time ELSE clockValue

\* A completion handled while Reading stamps its own time: only without a tick
\* in between is it the time of the loop.
Clocks ==
  /\ clockValue <= clk /\ current_time <= clk /\ logged <= clk
  /\ Deciding \/ ~Idle => clockValue # -1
  /\ Reading => current_time # -1 /\ (Timely => current_time = clk)
  /\ Timely /\ LoopTime # -1 => logged <= LoopTime
  /\ at = "stop" => pcb[current_process].last_prempt = clockValue
  /\ ~Idle => /\ pcb[current_process].start # None
              /\ time_slice_start \in 0..clk
              /\ Steady => time_slice_start <= LoopTime
  /\ at \in {"boot", "sync"} =>
       clockValue = -1 /\ logged = -1 /\ \A p \in Proc : pcb[p].start = None

\* A time that the scheduler has stamped a PCB with.
Past(t) == t # None => t <= clk /\ (Steady /\ LoopTime # -1 => t <= LoopTime)

\* The waiting time lies between the response time and the time since the arrival.
WaitStamped(p) ==
  /\ pcb[p].start # None =>
       pcb[p].waiting \in pcb[p].start - job[p].arrival .. MaxClk - job[p].arrival
  /\ pcb[p].last_prempt # None => pcb[p].start <= pcb[p].last_prempt
  /\ p = current_process /\ p \notin ReadySet =>
       pcb[p].waiting <= time_slice_start - job[p].arrival
  /\ p \in ReadySet /\ pcb[p].start # None =>
       pcb[p].waiting <= pcb[p].last_prempt - job[p].arrival

\* The start, the waiting time and the last preemption in the PCB of a process.
Stamped(p) ==
  /\ Past(pcb[p].start) /\ Past(pcb[p].last_prempt)
  /\ pcb[p].start = None => pcb[p].waiting = 0 /\ pcb[p].last_prempt = None
  /\ pcb[p].start # None => Launched(p)
  /\ p \in ReadySet /\ pcb[p].start # None => pcb[p].last_prempt # None
  /\ Steady => WaitStamped(p)

Stamps == \A p \in Proc : Stamped(p)

\* The time of a completion is the last one.
Completed(p) ==
  /\ pcb[p].start # None /\ pcb[p].start <= finish[p] /\ finish[p] <= clk
  /\ pcb[p].last_prempt # None => pcb[p].last_prempt <= finish[p]
  /\ Steady => pcb[p].waiting <= finish[p] - job[p].arrival

Completions == \A p \in Proc : Finished(p) => Completed(p)

\* With SRTN a new process can start with the clockValue of the tick before.
Starts ==
  Algorithm # "SRTN" =>
    /\ Deciding \/ Reading => \A p \in ReadySet : job[p].arrival <= LoopTime
    /\ StartsAfterArrival

IInv ==
  /\ Types /\ GeneratorPlaces /\ SchedulerPlaces /\ Control /\ Signals /\ Working
  /\ Arrivals /\ Clocks /\ Stamps /\ Completions /\ Starts
--------------------------------------------------------------------------------
LEMMA ConstantTypes ==
  /\ MaxClk \in Nat
  /\ None \notin Proc /\ None \notin Int
  /\ \A w \in Workloads : \A p \in Proc :
       w[p].arrival \in Nat /\ w[p].exec \in Nat /\ w[p].mem \in Sizes
  BY MaxClkAssumption, NoneAssumption, WorkloadsAssumption, SizesAssumption DEF Job

(***************************************************************************)
(* The ready queue and the ready heap as one set.                          *)
(***************************************************************************)
LEMMA NoReadyIsEmpty ==
  ASSUME ReadyTypes
  PROVE  NoReady <=> ReadySet = {}
  BY RangeEmpty DEF NoReady, ReadySet, ReadyTypes, Distinct

LEMMA ReadyInProc ==
  ASSUME ReadyTypes
  PROVE  ReadySet \subseteq Proc
  BY RangeInSet DEF ReadySet, ReadyTypes, Distinct

\* A process enters the ready queue, as Receive and StopVictim have it.
EnterReady(p) ==
  IF Algorithm = "RR"
  THEN rr_queue' = Append(rr_queue, p) /\ UNCHANGED ready_Heap
  ELSE ready_Heap' = ready_Heap \cup {p} /\ UNCHANGED rr_queue

LEMMA ReadyEnters ==
  ASSUME ReadyTypes, NEW p \in Proc, p \notin ReadySet, EnterReady(p)
  PROVE  ReadyTypes' /\ ReadySet' = ReadySet \cup {p}
<1>1. CASE Algorithm = "RR"
  <2>1. rr_queue' = Append(rr_queue, p) /\ ready_Heap' = ready_Heap
    BY <1>1 DEF EnterReady
  <2>2. ReadySet = Range(rr_queue) /\ ReadySet' = Range(rr_queue')
    BY <1>1 DEF ReadySet
  <2>3. Distinct(rr_queue, Proc)
    BY DEF ReadyTypes
  <2>4. Distinct(rr_queue', Proc) /\ Range(rr_queue') = Range(rr_queue) \cup {p}
    BY <2>1, <2>2, <2>3, AppendDistinct
  <2>5. ReadyTypes'
    BY <1>1, <2>1, <2>4 DEF ReadyTypes
  <2> QED BY <2>2, <2>4, <2>5
<1>2. CASE Algorithm # "RR"
  BY <1>2 DEF EnterReady, ReadyTypes, ReadySet
<1> QED BY <1>1, <1>2

LEMMA ReadyLeaves ==
  ASSUME ReadyTypes, NEW now, TakeNext(now)
  PROVE  /\ ReadyTypes'
         /\ \E p \in ReadySet : ReadySet' = ReadySet \ {p} /\ Dispatch(p, now)
<1>1. CASE Algorithm = "RR"
  <2>1. /\ rr_queue # << >> /\ rr_queue' = Tail(rr_queue) /\ ready_Heap' = ready_Heap
        /\ Dispatch(Head(rr_queue), now)
    BY <1>1 DEF TakeNext
  <2>2. Distinct(rr_queue, Proc)
    BY DEF ReadyTypes
  <2>3. /\ Head(rr_queue) \in Range(rr_queue)
        /\ Distinct(rr_queue', Proc) /\ Range(rr_queue') = Range(rr_queue) \ {Head(rr_queue)}
    BY <2>1, <2>2, TailDistinct
  <2>4. ReadySet = Range(rr_queue) /\ ReadySet' = Range(rr_queue')
    BY <1>1 DEF ReadySet
  <2>5. ReadyTypes'
    BY <1>1, <2>1, <2>3 DEF ReadyTypes
  <2> QED BY <2>1, <2>3, <2>4, <2>5
<1>2. CASE Algorithm # "RR"
  BY <1>2 DEF TakeNext, ReadyTypes, ReadySet
<1> QED BY <1>1, <1>2

LEMMA ReadyKept ==
  ASSUME UNCHANGED <<rr_queue, ready_Heap>>
  PROVE  ReadySet' = ReadySet /\ (ReadyTypes => ReadyTypes')
  BY DEF ReadySet, ReadyTypes
--------------------------------------------------------------------------------
(***************************************************************************)
(* Kinds of steps, by what they leave alone.                               *)
(***************************************************************************)
QuietStep ==
  \/ Boot \/ SyncClk \/ Leave \/ Down \/ CheckIdle \/ ReceiveDone
  \/ ReadTime \/ CompareTime \/ StoreTime
  \/ RunAlgorithm \/ EnterSwitch \/ Preempt \/ TestBeforeGrant \/ Grant
  \/ TestBeforeReport \/ Report \/ WaitForTick \/ HandleGeneratorCompletion

LEMMA QuietFrame ==
  ASSUME QuietStep
  PROVE  UNCHANGED <<job, clk, msgq, shm, life, stopped, usr2, current_process, rr_queue,
                     ready_Heap, time_slice_start, start_time, finish, logged>>
  BY DEF QuietStep, Boot, SyncClk, Leave, Down, CheckIdle, ReceiveDone, ReadTime, CompareTime,
         StoreTime, RunAlgorithm, EnterSwitch, Preempt, TestBeforeGrant, Grant, TestBeforeReport,
         Report, WaitForTick, HandleGeneratorCompletion, sharedVars

PlanStep == Poll \/ Serve \/ ServeDone \/ Arrive \/ Post \/ Wake

LEMMA PlanFrame ==
  ASSUME PlanStep
  PROVE  UNCHANGED <<job, clk, msgq, shm, sync_sem, life, stopped, usr2>>
  BY DEF PlanStep, Poll, Serve, ServeDone, Arrive, Post, Wake, sharedVars

LEMMA ProcessFrame ==
  ASSUME NEW p \in Proc, ProcessNext(p)
  PROVE  UNCHANGED <<job, clk, semid, msgq, stopped, usr1, schedulerVars, restVars>>
  BY DEF ProcessNext, ProcessStep, Acquire, ReadClk, Work, Notify, Exit

LEMMA SchedulerFrame ==
  ASSUME QuietStep \/ Receive \/ StopVictim \/ Pick \/ HandleProcessCompletion
  PROVE  UNCHANGED <<job, clk, shm, life>>
  BY QuietFrame DEF Receive, StopVictim, Pick, HandleProcessCompletion
--------------------------------------------------------------------------------
(***************************************************************************)
(* GeneratorPlaces: a process that has not been launched is in one queue   *)
(* of the generator, or is the one that has just been given memory.        *)
(***************************************************************************)
LEMMA GeneratorPlacesInit == Init => GeneratorPlaces
<1> SUFFICES ASSUME Init PROVE GeneratorPlaces
  OBVIOUS
<1>1. /\ pq = Proc /\ waiting_queue = << >> /\ temp_queue = << >> /\ gen = "poll"
      /\ once = TRUE /\ roused = FALSE /\ life = [p \in Proc |-> "unborn"]
  BY DEF Init, GeneratorInit, SharedInit
<1>2. booked = None
  BY DEF Init, GeneratorInit, Memory!Init
<1>3. Distinct(<< >>, Proc) /\ Range(<< >>) = {}
  BY EmptyQueue
<1>4. Waiting = {}
  BY <1>1, <1>2, <1>3 DEF Waiting
<1> QED BY <1>1, <1>2, <1>3, <1>4 DEF GeneratorPlaces, Launched

\* No step but a launch takes a process out of "unborn".
LEMMA GeneratorPlacesKept ==
  ASSUME GeneratorPlaces, UNCHANGED <<pq, waiting_queue, temp_queue, booked, gen, once>>,
         roused' \in BOOLEAN,
         \A p \in Proc : Launched(p)' <=> Launched(p)
  PROVE  GeneratorPlaces'
<1>1. Waiting' = Waiting
  BY DEF Waiting
<1> QED BY <1>1 DEF GeneratorPlaces

LEMMA ProcessKeepsLife ==
  ASSUME Types, NEW p \in Proc, ProcessNext(p)
  PROVE  /\ Launched(p) /\ p \notin stopped /\ life' \in [Proc -> Life]
         /\ life' = [life EXCEPT ![p] = life'[p]] /\ life'[p] # "unborn"
  BY DEF Types, ProcessNext, ProcessStep, Acquire, ReadClk, Work, Notify, Exit, Running, Goto,
         Launched, Life

LEMMA LaunchPlaces ==
  ASSUME Types, GeneratorPlaces, Launch
  PROVE  /\ booked \in Proc /\ ~Launched(booked) /\ GeneratorPlaces'
<1> USE DEF GeneratorPlaces
<1>1. booked \in Proc /\ booked \in Waiting /\ ~Launched(booked)
  BY DEF Launch, Waiting
<1>2. /\ booked' = None /\ UNCHANGED <<pq, waiting_queue, temp_queue, once>>
      /\ gen' \in {"serve", "arrive"} /\ roused' \in BOOLEAN
      /\ life' = [life EXCEPT ![booked] = "spin"]
  BY ModesAssumption DEF Launch
<1>3. Waiting' = Waiting \ {booked}
  BY <1>1, <1>2 DEF Waiting
<1>4. \A p \in Proc : Launched(p)' <=> Launched(p) \/ p = booked
  BY <1>2 DEF Launched, Types
<1>5. None \notin Range(waiting_queue) \cup Range(temp_queue)
  BY RangeInSet, ConstantTypes DEF Distinct
<1> QED BY <1>1, <1>2, <1>3, <1>4, <1>5

LEMMA GeneratorPlacesStep ==
  ASSUME Types, GeneratorPlaces, Next
  PROVE  GeneratorPlaces'
<1>1. ASSUME NEW p \in Proc, ProcessNext(p) PROVE GeneratorPlaces'
  <2>1. UNCHANGED <<pq, waiting_queue, temp_queue, booked, gen, once>> /\ roused' \in BOOLEAN
    BY <1>1, ModesAssumption DEF ProcessNext, restVars, Rouse, GeneratorPlaces
  <2>2. \A q \in Proc : Launched(q)' <=> Launched(q)
    BY <1>1, ProcessKeepsLife DEF Launched, Types
  <2> QED BY <2>1, <2>2, GeneratorPlacesKept
<1>2. ASSUME NEW p \in Proc, Reap(p) PROVE GeneratorPlaces'
  <2>1. UNCHANGED <<pq, waiting_queue, temp_queue, booked, gen, once, roused>>
    BY <1>2 DEF Reap, ReapProcess
  <2>2. \A q \in Proc : Launched(q)' <=> Launched(q)
    BY <1>2 DEF Launched, Types, Reap, ReapProcess
  <2> QED BY <2>1, <2>2, GeneratorPlacesKept DEF GeneratorPlaces
<1>3. ASSUME TheScheduler PROVE GeneratorPlaces'
  <2>1. UNCHANGED <<pq, waiting_queue, temp_queue, booked, gen, once>> /\ roused' \in BOOLEAN
    BY <1>3, ModesAssumption DEF TheScheduler, restVars, Rouse, GeneratorPlaces
  <2>2. \A q \in Proc : Launched(q)' <=> Launched(q)
    BY <1>3, SchedulerFrame
       DEF Launched, TheScheduler, SchedulerNext, SchedulerStep, QuietStep
  <2> QED BY <2>1, <2>2, GeneratorPlacesKept
<1>4. ASSUME PlanStep PROVE GeneratorPlaces'
  <2> USE DEF GeneratorPlaces
  <2>0. \A q \in Proc : Launched(q)' <=> Launched(q)
    BY <1>4, PlanFrame DEF Launched
  <2>1. ASSUME Poll \/ Post \/ Wake PROVE GeneratorPlaces'
    <3>1. UNCHANGED <<pq, waiting_queue, temp_queue, booked>>
      BY <2>1 DEF Poll, Post, Wake
    <3>2. /\ gen \notin {"serveLaunch", "arriveLaunch", "exited"}
          /\ gen' \in {"serve", "sleep", "poll"}
          /\ once' \in BOOLEAN /\ roused' \in BOOLEAN
      BY <2>1 DEF Poll, Post, Wake
    <3>3. Waiting' = Waiting
      BY <3>1 DEF Waiting
    <3> QED BY <2>0, <3>1, <3>2, <3>3
  <2>2. ASSUME Serve PROVE GeneratorPlaces'
    <3> DEFINE h == Head(waiting_queue)
    <3>1. /\ h \in Proc /\ h \in Range(waiting_queue)
          /\ Distinct(waiting_queue', Proc) /\ Range(waiting_queue') = Range(waiting_queue) \ {h}
      BY <2>2, TailDistinct DEF Serve
    <3>2. booked = None /\ gen = "serve" /\ UNCHANGED <<pq, once, roused>>
      BY <2>2 DEF Serve
    <3>3. \/ booked' = h /\ gen' = "serveLaunch" /\ temp_queue' = temp_queue
          \/ booked' = None /\ gen' = "serve" /\ temp_queue' = Append(temp_queue, h)
      BY <2>2, <3>2 DEF Serve, Book, Refuse
    <3>4. Distinct(Append(temp_queue, h), Proc)
          /\ Range(Append(temp_queue, h)) = Range(temp_queue) \cup {h}
      BY <3>1, AppendDistinct
    <3> HIDE DEF h
    <3>5. CASE booked' = h /\ gen' = "serveLaunch" /\ temp_queue' = temp_queue
      <4>1. Waiting' = Waiting
        BY <3>1, <3>2, <3>5, ConstantTypes DEF Waiting
      <4>2. h # None
        BY <3>1, ConstantTypes
      <4> QED BY <2>0, <3>1, <3>2, <3>5, <4>1, <4>2
    <3>6. CASE booked' = None /\ gen' = "serve" /\ temp_queue' = Append(temp_queue, h)
      <4>1. Waiting' = Waiting
        BY <3>1, <3>2, <3>4, <3>6, ConstantTypes DEF Waiting
      <4>2. None \notin Range(waiting_queue') \cup Range(temp_queue')
        BY <3>1, <3>4, <3>6, RangeInSet, ConstantTypes DEF Distinct
      <4> QED BY <2>0, <3>1, <3>2, <3>4, <3>6, <4>1, <4>2
    <3> QED BY <3>3, <3>5, <3>6
  <2>3. ASSUME ServeDone PROVE GeneratorPlaces'
    <3>1. /\ waiting_queue = << >> /\ waiting_queue' = temp_queue /\ temp_queue' = << >>
          /\ gen = "serve" /\ gen' = "arrive" /\ UNCHANGED <<pq, once, roused, booked>>
      BY <2>3 DEF ServeDone
    <3>2. Distinct(<< >>, Proc) /\ Range(<< >>) = {}
      BY EmptyQueue
    <3>3. Waiting' = Waiting
      BY <3>1, <3>2 DEF Waiting
    <3> QED BY <2>0, <3>1, <3>2, <3>3
  <2>4. ASSUME Arrive PROVE GeneratorPlaces'
    <3>1. booked = None /\ gen = "arrive" /\ UNCHANGED <<temp_queue, once, roused>>
      BY <2>4 DEF Arrive
    <3>2. PICK p \in pq : /\ pq' = pq \ {p}
                          /\ \/ Book(p) /\ gen' = "arriveLaunch" /\ UNCHANGED waiting_queue
                             \/ Refuse(p) /\ waiting_queue' = Append(waiting_queue, p)
                                  /\ UNCHANGED gen
      BY <2>4 DEF Arrive, Arrived
    <3>3. p \in Proc /\ p \notin Waiting
      OBVIOUS
    <3>4. CASE booked' = p /\ gen' = "arriveLaunch" /\ UNCHANGED waiting_queue
      <4>1. Waiting' = Waiting \cup {p}
        BY <3>1, <3>3, <3>4, ConstantTypes DEF Waiting
      <4> QED BY <2>0, <3>1, <3>2, <3>3, <3>4, <4>1, ConstantTypes DEF Waiting
    <3>5. CASE booked' = None /\ gen' = gen /\ waiting_queue' = Append(waiting_queue, p)
      <4>1. Distinct(waiting_queue', Proc) /\ Range(waiting_queue') = Range(waiting_queue) \cup {p}
        BY <3>3, <3>5, AppendDistinct DEF Waiting
      <4>2. Waiting' = Waiting \cup {p}
        BY <3>1, <3>3, <3>5, <4>1, ConstantTypes DEF Waiting
      <4>3. None \notin Range(waiting_queue') \cup Range(temp_queue')
        BY <3>1, <4>1, RangeInSet, ConstantTypes DEF Distinct
      <4> QED BY <2>0, <3>1, <3>2, <3>3, <3>5, <4>1, <4>2, <4>3 DEF Waiting
    <3> QED BY <3>1, <3>2, <3>4, <3>5 DEF Book, Refuse
  <2> QED BY <1>4, <2>1, <2>2, <2>3, <2>4 DEF PlanStep
<1>5. CASE ReapScheduler \/ Tick
  <2>1. Waiting' = Waiting
    BY <1>5 DEF ReapScheduler, Tick, generatorVars, Waiting
  <2>2. \A q \in Proc : Launched(q)' <=> Launched(q)
    BY <1>5 DEF ReapScheduler, Tick, sharedVars, Launched
  <2>3. UNCHANGED <<pq, waiting_queue, temp_queue, booked, once, roused>>
        /\ gen' \in {gen, "exited"}
    BY <1>5 DEF ReapScheduler, Tick, generatorVars
  <2> QED BY <2>1, <2>2, <2>3 DEF GeneratorPlaces
<1> QED BY <1>1, <1>2, <1>3, <1>4, <1>5, LaunchPlaces
        DEF Next, TheGenerator, GeneratorStep, PlanStep
--------------------------------------------------------------------------------
(***************************************************************************)
(* Types: every variable but the queues and the memory keeps its type.     *)
(***************************************************************************)
LEMMA TypesInit == Init => Types
<1> SUFFICES ASSUME Init PROVE Types
  OBVIOUS
<1>1. job \in Workloads /\ job \in [Proc -> Job]
  BY WorkloadsAssumption DEF Init, SharedInit
<1>2. /\ clk = 0 /\ semid = 0 /\ sync_sem = [p \in Proc |-> 0] /\ stopped = {}
      /\ shm = [p \in Proc |-> job[p].exec] /\ life = [p \in Proc |-> "unborn"]
      /\ usr1 = FALSE /\ usr2 = FALSE /\ seen = [p \in Proc |-> None]
      /\ at = "boot" /\ caller = "tick" /\ current_process = None
      /\ pcb = [p \in Proc |-> NewPCB(p)] /\ clockValue = -1 /\ current_time = -1
      /\ time_slice_start = -1 /\ start_time = None /\ generator_finished = FALSE
      /\ finish = [p \in Proc |-> None] /\ logged = -1
  BY DEF Init, SharedInit, ProcessInit, SchedulerInit
<1>3. shm \in [Proc -> Int]
  BY <1>1, <1>2 DEF Job
<1>4. ASSUME NEW p \in Proc
      PROVE  NewPCB(p) \in PCBType
  <2>1. job[p].exec \in Int /\ None \in Time
    BY <1>1 DEF Job, Time
  <2> QED BY <2>1 DEF NewPCB, PCBType
<1>5. pcb \in [Proc -> PCBType]
  <2>1. pcb = [p \in Proc |-> NewPCB(p)]
    BY <1>2
  <2> QED BY <1>4, <2>1
<1>6. 0 \in 0..MaxClk /\ -1 \in -1..MaxClk /\ None \in Time
  BY ConstantTypes DEF Time
<1>7. /\ life \in [Proc -> Life] /\ sync_sem \in [Proc -> 0..2 \cup {None}]
      /\ seen \in [Proc -> Time] /\ finish \in [Proc -> Time]
  BY <1>2, <1>6 DEF Life
<1>8. at \in Places
  BY <1>2 DEF Places
<1> QED BY <1>1, <1>2, <1>3, <1>5, <1>6, <1>7, <1>8 DEF Types

LEMMA JobTypes ==
  ASSUME Types, NEW p \in Proc
  PROVE  job[p].arrival \in Nat /\ job[p].exec \in Nat /\ job[p].mem \in Sizes
  BY ConstantTypes DEF Types

LEMMA RefreshedType ==
  ASSUME Types, NEW p \in Proc
  PROVE  /\ Refreshed(p) \in [Proc -> PCBType]
         /\ \A q \in Proc : /\ Refreshed(p)[q].start = pcb[q].start
                            /\ Refreshed(p)[q].waiting = pcb[q].waiting
                            /\ Refreshed(p)[q].last_prempt = pcb[q].last_prempt
  BY DEF Refreshed, Types, PCBType

\* What start_process and resume_process do to the PCBs.
LEMMA DispatchTypes ==
  ASSUME Types, NEW p \in Proc, NEW now \in 0..MaxClk, Dispatch(p, now)
  PROVE  /\ current_process' = p /\ stopped' = stopped \ {p}
         /\ time_slice_start' = now /\ logged' = now
         /\ start_time' \in Time
         /\ pcb' \in [Proc -> PCBType]
         /\ \A q \in Proc : q # p => pcb'[q] = pcb[q]
         /\ pcb'[p].last_prempt = pcb[p].last_prempt
         /\ IF pcb[p].start = None
            THEN pcb'[p].start = now /\ pcb'[p].waiting = now - job[p].arrival
            ELSE pcb'[p].start = pcb[p].start /\ pcb'[p].waiting = WaitToResume(p, now)
<1>1. job[p].arrival \in Int
  BY JobTypes
<1>2. now \in Time /\ now \in Int
  BY DEF Time
<1>3. pcb[p] \in PCBType
  BY DEF Types, PCBType
<1>4. WaitToResume(p, now) \in Int
  BY <1>2, <1>3, ConstantTypes DEF WaitToResume, PCBType, Time
<1>5. pcb \in [Proc -> PCBType]
  BY DEF Types
<1>6. CASE pcb[p].start = None
  <2>1. pcb' = [pcb EXCEPT ![p].start = now, ![p].waiting = now - job[p].arrival]
    BY <1>6 DEF Dispatch, WaitToStart
  <2>2. now - job[p].arrival \in Int
    BY <1>1, <1>2
  <2>3. pcb' \in [Proc -> PCBType]
    BY <1>2, <1>5, <2>1, <2>2 DEF PCBType
  <2>4. start_time' \in Time
    BY <1>2 DEF Dispatch, Types
  <2> QED BY <1>5, <1>6, <2>1, <2>3, <2>4 DEF Dispatch, PCBType
<1>7. CASE pcb[p].start # None
  <2>1. pcb' = [pcb EXCEPT ![p].waiting = WaitToResume(p, now)]
    BY <1>7 DEF Dispatch
  <2> QED BY <1>2, <1>4, <1>5, <1>7, <2>1 DEF Dispatch, PCBType, Types
<1> QED BY <1>6, <1>7

\* What the context switch finds: nobody, or a ready process.
LEMMA PickCases ==
  ASSUME Types, ReadyTypes, Pick
  PROVE  /\ ReadyTypes'
         /\ \/ /\ ReadySet = {} /\ ReadySet' = {} /\ current_process' = None
               /\ UNCHANGED <<pcb, start_time, stopped, time_slice_start, logged>>
            \/ \E p \in ReadySet : ReadySet' = ReadySet \ {p} /\ Dispatch(p, clockValue)
<1>1. CASE NoReady
  BY <1>1, ReadyKept, NoReadyIsEmpty DEF Pick
<1>2. CASE ~NoReady
  BY <1>2, ReadyLeaves DEF Pick
<1> QED BY <1>1, <1>2

LEMMA PickFrame ==
  ASSUME Pick
  PROVE  /\ at = "pick" /\ at' \in {"check", "post"}
         /\ UNCHANGED <<job, clk, semid, msgq, sync_sem, shm, life, usr1, usr2, caller,
                        clockValue, current_time, generator_finished, finish>>
  BY DEF Pick, Return, Step

\* The completion handler: the three ways through it.
Completes ==
  /\ finish' = [finish EXCEPT ![current_process] = clk]
  /\ sync_sem' = [sync_sem EXCEPT ![current_process] = None]

CompletionFindsNobody ==
  /\ Idle
  /\ UNCHANGED <<logged, finish, sync_sem, current_process, rr_queue, ready_Heap, pcb,
                 stopped, time_slice_start, start_time>>

CompletionLeavesIdle ==
  /\ ~Idle /\ Completes
  /\ current_process' = None /\ logged' = clk
  /\ UNCHANGED <<rr_queue, ready_Heap, pcb, stopped, time_slice_start, start_time>>

CompletionTakesNext ==
  /\ ~Idle /\ Completes
  /\ Algorithm = "SRTN"
  /\ \E p \in ReadySet : ReadySet' = ReadySet \ {p} /\ Dispatch(p, clk)

LEMMA CompletionCases ==
  ASSUME ReadyTypes, HandleProcessCompletion
  PROVE  /\ ReadyTypes'
         /\ CompletionFindsNobody \/ CompletionLeavesIdle \/ CompletionTakesNext
<1>1. CASE Idle
  BY <1>1, ReadyKept DEF HandleProcessCompletion, CompletionFindsNobody
<1>2. CASE ~Idle /\ TakeNext(clk) /\ Completes /\ Algorithm = "SRTN"
  BY <1>2, ReadyLeaves DEF CompletionTakesNext
<1>3. CASE CompletionLeavesIdle
  BY <1>3, ReadyKept DEF CompletionLeavesIdle
<1>4. ~Idle => CompletionLeavesIdle \/ (TakeNext(clk) /\ Completes /\ Algorithm = "SRTN")
  BY DEF HandleProcessCompletion, CompletionLeavesIdle, Completes
<1> QED BY <1>1, <1>2, <1>3, <1>4

LEMMA CompletionFrame ==
  ASSUME HandleProcessCompletion
  PROVE  /\ usr2 /\ usr2' = FALSE /\ Alive /\ clockValue' = clk
         /\ at' = IF at \in {"preempt", "stop"} /\ ~Idle THEN "fault" ELSE at
         /\ UNCHANGED <<job, clk, semid, msgq, shm, life, usr1, caller, current_time,
                        generator_finished>>
  BY DEF HandleProcessCompletion, CompletionTime

LEMMA TypesQuiet ==
  ASSUME IInv, QuietStep, UNCHANGED seen
  PROVE  Types'
<1> USE DEF IInv, Types
<1>1. UNCHANGED <<job, clk, shm, life, stopped, usr2, current_process, time_slice_start,
                  start_time, finish, logged>>
  BY QuietFrame
<1>2. ~Idle => current_process \in Proc
  BY DEF Idle
<1>3. at' \in Places
  BY DEF QuietStep, Boot, SyncClk, Leave, Down, CheckIdle, ReceiveDone, ReadTime, CompareTime,
         StoreTime, RunAlgorithm, EnterSwitch, Preempt, TestBeforeGrant, Grant, TestBeforeReport,
         Report, WaitForTick, HandleGeneratorCompletion, Places, Return
<1>4. semid' \in {0, 1}
  BY DEF QuietStep, Boot, SyncClk, Leave, Down, CheckIdle, ReceiveDone, ReadTime, CompareTime,
         StoreTime, RunAlgorithm, EnterSwitch, Preempt, TestBeforeGrant, Grant, TestBeforeReport,
         Report, WaitForTick, HandleGeneratorCompletion, sharedVars, down, down_nb_succeeds
<1>5. caller' \in {"tick", "recv"}
  BY DEF QuietStep, Boot, SyncClk, Leave, Down, CheckIdle, ReceiveDone, ReadTime, CompareTime,
         StoreTime, RunAlgorithm, EnterSwitch, Preempt, TestBeforeGrant, Grant, TestBeforeReport,
         Report, WaitForTick, HandleGeneratorCompletion
<1>6. usr1' \in BOOLEAN /\ generator_finished' \in BOOLEAN
  BY DEF QuietStep, Boot, SyncClk, Leave, Down, CheckIdle, ReceiveDone, ReadTime, CompareTime,
         StoreTime, RunAlgorithm, EnterSwitch, Preempt, TestBeforeGrant, Grant, TestBeforeReport,
         Report, WaitForTick, HandleGeneratorCompletion, sharedVars
<1>7. clockValue' \in -1..MaxClk /\ current_time' \in -1..MaxClk
  BY ConstantTypes
     DEF QuietStep, Boot, SyncClk, Leave, Down, CheckIdle, ReceiveDone, ReadTime, CompareTime,
         StoreTime, RunAlgorithm, EnterSwitch, Preempt, TestBeforeGrant, Grant, TestBeforeReport,
         Report, WaitForTick, HandleGeneratorCompletion, TickTime
<1>8. sync_sem' \in [Proc -> 0..2 \cup {None}]
  <2>1. CASE Grant
    BY <2>1, <1>2 DEF Grant
  <2>2. CASE ~Grant
    BY <2>2
       DEF QuietStep, Boot, SyncClk, Leave, Down, CheckIdle, ReceiveDone, ReadTime, CompareTime,
           StoreTime, RunAlgorithm, EnterSwitch, Preempt, TestBeforeGrant, TestBeforeReport,
           Report, WaitForTick, HandleGeneratorCompletion, sharedVars
  <2> QED BY <2>1, <2>2
<1>9. pcb' \in [Proc -> PCBType]
  <2>1. CASE RunAlgorithm \/ EnterSwitch \/ TestBeforeReport
    BY <2>1, <1>2, RefreshedType DEF RunAlgorithm, EnterSwitch, TestBeforeReport
  <2>2. CASE Preempt
    <3>1. current_process \in Proc /\ clockValue \in Time
      BY <2>2 DEF Preempt, Step, Control, Idle, Clocks, Deciding, Time
    <3>2. Refreshed(current_process) \in [Proc -> PCBType]
      BY <3>1, RefreshedType
    <3> QED BY <2>2, <3>1, <3>2 DEF Preempt, PCBType
  <2>3. CASE ~(RunAlgorithm \/ EnterSwitch \/ TestBeforeReport \/ Preempt)
    BY <2>3
       DEF QuietStep, Boot, SyncClk, Leave, Down, CheckIdle, ReceiveDone, ReadTime, CompareTime,
           StoreTime, Grant, TestBeforeGrant, Report, WaitForTick, HandleGeneratorCompletion
  <2> QED BY <2>1, <2>2, <2>3
<1> QED BY <1>1, <1>3, <1>4, <1>5, <1>6, <1>7, <1>8, <1>9

LEMMA TypesPick ==
  ASSUME IInv, Pick, UNCHANGED seen
  PROVE  Types'
<1>1. Types /\ ReadyTypes /\ ReadySet \subseteq Proc
  BY ReadyInProc DEF IInv, SchedulerPlaces
<1>2. at' \in Places
  BY PickFrame DEF Places
<1>3. clockValue \in 0..MaxClk
  BY <1>1, PickFrame DEF IInv, Clocks, Deciding, Types
<1>4. CASE /\ current_process' = None
           /\ UNCHANGED <<pcb, start_time, stopped, time_slice_start, logged>>
  BY <1>1, <1>2, <1>4, PickFrame DEF Types
<1>5. ASSUME NEW p \in ReadySet, Dispatch(p, clockValue)
      PROVE  Types'
  <2>1. p \in Proc
    BY <1>1
  <2>2. /\ current_process' = p /\ stopped' = stopped \ {p}
        /\ time_slice_start' = clockValue /\ logged' = clockValue
        /\ start_time' \in Time /\ pcb' \in [Proc -> PCBType]
    BY <1>1, <1>3, <1>5, <2>1, DispatchTypes
  <2> QED BY <1>1, <1>2, <1>3, <2>1, <2>2, PickFrame DEF Types
<1> QED BY <1>1, <1>4, <1>5, PickCases

LEMMA TypesCompletion ==
  ASSUME IInv, HandleProcessCompletion, UNCHANGED seen
  PROVE  Types'
<1>1. Types /\ ReadyTypes /\ ReadySet \subseteq Proc
  BY ReadyInProc DEF IInv, SchedulerPlaces
<1>2. at' \in Places
  BY <1>1, CompletionFrame DEF Places, Types
<1>3. clk \in 0..MaxClk /\ clk \in -1..MaxClk /\ clk \in Time
  BY <1>1, ConstantTypes DEF Types, Time
<1>4. CASE CompletionFindsNobody
  BY <1>1, <1>2, <1>3, <1>4, CompletionFrame DEF Types, CompletionFindsNobody
<1>5. ASSUME Completes
      PROVE  finish' \in [Proc -> Time] /\ sync_sem' \in [Proc -> 0..2 \cup {None}]
  <2>1. finish' = [finish EXCEPT ![current_process] = clk] /\ finish \in [Proc -> Time]
    BY <1>1, <1>5 DEF Completes, Types
  <2>2. /\ sync_sem' = [sync_sem EXCEPT ![current_process] = None]
        /\ sync_sem \in [Proc -> 0..2 \cup {None}]
    BY <1>1, <1>5 DEF Completes, Types
  <2> QED BY <1>3, <2>1, <2>2
<1>6. CASE CompletionLeavesIdle
  BY <1>1, <1>2, <1>3, <1>5, <1>6, CompletionFrame DEF Types, CompletionLeavesIdle
<1>7. CASE CompletionTakesNext
  <2>1. PICK p \in ReadySet : Dispatch(p, clk)
    BY <1>7 DEF CompletionTakesNext
  <2>2. p \in Proc
    BY <1>1
  <2>3. /\ current_process' = p /\ stopped' = stopped \ {p}
        /\ time_slice_start' = clk /\ logged' = clk
        /\ start_time' \in Time /\ pcb' \in [Proc -> PCBType]
    BY <1>1, <1>3, <2>1, <2>2, DispatchTypes
  <2> QED BY <1>1, <1>2, <1>3, <1>5, <1>7, <2>2, <2>3, CompletionFrame
          DEF Types, CompletionTakesNext
<1> QED BY <1>1, <1>4, <1>6, <1>7, CompletionCases

LEMMA TypesProcess ==
  ASSUME IInv, NEW p \in Proc, ProcessNext(p)
  PROVE  Types'
<1>1. Types /\ UNCHANGED <<job, clk, semid, stopped, usr1, schedulerVars>>
  BY ProcessFrame DEF IInv
<1>2. life' \in [Proc -> Life]
  BY <1>1, ProcessKeepsLife
<1>3. CASE Acquire(p)
  <2>1. sync_sem' \in [Proc -> 0..2 \cup {None}]
    BY <1>1, <1>3 DEF Acquire, Types, down, down_nb_succeeds
  <2> QED BY <1>1, <1>2, <1>3, <2>1 DEF Acquire, Types, schedulerVars
<1>4. CASE ReadClk(p)
  <2>1. seen' \in [Proc -> Time]
    BY <1>1, <1>4 DEF ReadClk, Types, Time
  <2> QED BY <1>1, <1>2, <1>4, <2>1 DEF ReadClk, Types, schedulerVars
<1>5. CASE Work(p)
  <2>1. seen' \in [Proc -> Time] /\ shm' \in [Proc -> Int]
    BY <1>1, <1>5 DEF Work, Types, Time
  <2> QED BY <1>1, <1>2, <1>5, <2>1 DEF Work, Types, schedulerVars
<1>6. CASE Notify(p)
  <2>1. shm' \in [Proc -> Int]
    BY <1>1, <1>6 DEF Notify, Types
  <2>2. usr2' = TRUE \/ usr2' = usr2
    BY <1>6 DEF Notify, Announce
  <2>3. sync_sem' \in [Proc -> 0..2 \cup {None}]
    <3>1. sync_sem[p] # 2
      BY <1>6 DEF Notify, Running, IInv, Working, Ended
    <3> QED BY <1>1, <1>6, <3>1 DEF Notify, Types, up, up_succeeds
  <2> QED BY <1>1, <1>2, <1>6, <2>1, <2>2, <2>3 DEF Notify, Types, schedulerVars
<1>7. CASE Exit(p)
  BY <1>1, <1>2, <1>7 DEF Exit, Types, schedulerVars
<1> QED BY <1>3, <1>4, <1>5, <1>6, <1>7 DEF ProcessNext, ProcessStep

LEMMA TypesStep ==
  ASSUME IInv, Next
  PROVE  Types'
<1> USE DEF IInv
<1>1. ASSUME NEW p \in Proc, Reap(p) PROVE Types'
  BY <1>1 DEF Reap, ReapProcess, Types, processVars, schedulerVars, Life
<1>2. CASE Receive /\ UNCHANGED seen
  <2>1. Head(msgq) \in Proc
    BY <1>2, TailDistinct DEF Receive, SchedulerPlaces
  <2>2. NewPCB(Head(msgq)) \in PCBType
    BY <2>1, JobTypes DEF NewPCB, PCBType, Time
  <2>3. pcb' = [pcb EXCEPT ![Head(msgq)] = NewPCB(Head(msgq))]
    BY <1>2 DEF Receive
  <2>4. pcb' \in [Proc -> PCBType]
    BY <2>2, <2>3 DEF Types
  <2>5. at' \in Places /\ caller' \in {"tick", "recv"}
    BY <1>2 DEF Receive, Places, Types
  <2> QED BY <1>2, <2>4, <2>5 DEF Receive, Types
<1>3. CASE StopVictim /\ UNCHANGED seen
  <2>1. current_process \in Proc
    BY <1>3 DEF StopVictim, Step, Control, Idle, Types
  <2> QED BY <1>3, <2>1 DEF StopVictim, Stopped, Types, Places
<1>4. ASSUME TheScheduler PROVE Types'
  BY <1>2, <1>3, <1>4, TypesQuiet, TypesPick, TypesCompletion
     DEF TheScheduler, SchedulerNext, SchedulerStep, QuietStep, processVars
<1>5. CASE PlanStep /\ UNCHANGED <<processVars, schedulerVars>>
  <2>1. semid' \in {0, 1} /\ usr1' \in BOOLEAN
    BY <1>5 DEF PlanStep, Poll, Serve, ServeDone, Arrive, Post, Wake, Types, Token, sharedVars
  <2> QED BY <1>5, <2>1, PlanFrame DEF Types, processVars, schedulerVars
<1>6. CASE Launch /\ UNCHANGED <<processVars, schedulerVars>>
  <2>1. booked \in Proc
    BY <1>6, LaunchPlaces
  <2>2. shm' \in [Proc -> Int] /\ sync_sem' \in [Proc -> 0..2 \cup {None}]
    BY <1>6, <2>1, JobTypes DEF Launch, Types
  <2>3. life' \in [Proc -> Life] /\ stopped' \subseteq Proc
    BY <1>6, <2>1 DEF Launch, Types, Life
  <2> QED BY <1>6, <2>2, <2>3 DEF Launch, Types, processVars, schedulerVars
<1>7. CASE ReapScheduler
  BY <1>7 DEF ReapScheduler, Types, sharedVars, processVars, schedulerVars
<1>8. CASE Tick
  <2>1. clk' \in 0..MaxClk
    BY <1>8, ConstantTypes DEF Tick, Types
  <2> QED BY <1>8, <2>1 DEF Tick, Types, processVars, schedulerVars
<1> QED BY <1>1, <1>4, <1>5, <1>6, <1>7, <1>8, TypesProcess
        DEF Next, TheGenerator, GeneratorStep, PlanStep
--------------------------------------------------------------------------------
(***************************************************************************)
(* SchedulerPlaces: a launched process is in the message queue, or ready,  *)
(* or current, or finished, and all but the current one are stopped.       *)
(***************************************************************************)
LEMMA NextCases ==
  ASSUME Next
  PROVE  \/ \E p \in Proc : ProcessNext(p)
         \/ \E p \in Proc : Reap(p)
         \/ /\ QuietStep \/ Receive \/ StopVictim \/ Pick \/ HandleProcessCompletion
            /\ UNCHANGED <<processVars, restVars>>
         \/ (PlanStep \/ Launch) /\ UNCHANGED <<processVars, schedulerVars>>
         \/ ReapScheduler
         \/ Tick
  BY DEF Next, TheScheduler, SchedulerNext, SchedulerStep, QuietStep, TheGenerator,
         GeneratorStep, PlanStep

\* Steps that move nobody.
LEMMA SchedulerPlacesKept ==
  ASSUME SchedulerPlaces,
         UNCHANGED <<msgq, rr_queue, ready_Heap, current_process, finish, stopped>>,
         current_process # None => (at' = "pick" <=> at = "pick"),
         None \notin Proc,
         \A p \in Proc : Launched(p)' <=> Launched(p)
  PROVE  SchedulerPlaces'
<1>1. ReadySet' = ReadySet /\ ReadyTypes'
  BY ReadyKept DEF SchedulerPlaces
<1> QED BY <1>1 DEF SchedulerPlaces, Finished

LEMMA QuietKeepsPick ==
  ASSUME QuietStep, current_process # None
  PROVE  at' = "pick" <=> at = "pick"
  BY DEF QuietStep, Boot, SyncClk, Leave, Down, CheckIdle, ReceiveDone, ReadTime, CompareTime,
         StoreTime, RunAlgorithm, EnterSwitch, Preempt, TestBeforeGrant, Grant, TestBeforeReport,
         Report, WaitForTick, HandleGeneratorCompletion, Step, Return, Idle

LEMMA ReceivePlaces ==
  ASSUME IInv, Receive
  PROVE  /\ Head(msgq) \in Range(msgq) /\ Head(msgq) \in Proc
         /\ ReadyTypes' /\ ReadySet' = ReadySet \cup {Head(msgq)}
         /\ Distinct(msgq', Proc) /\ Range(msgq') = Range(msgq) \ {Head(msgq)}
<1>1. msgq # << >> /\ msgq' = Tail(msgq) /\ EnterReady(Head(msgq))
  BY DEF Receive, EnterReady
<1>2. Distinct(msgq, Proc) /\ ReadyTypes
  BY DEF IInv, SchedulerPlaces
<1>3. /\ Head(msgq) \in Range(msgq) /\ Head(msgq) \in Proc
      /\ Distinct(msgq', Proc) /\ Range(msgq') = Range(msgq) \ {Head(msgq)}
  BY <1>1, <1>2, TailDistinct
<1>4. Head(msgq) \notin ReadySet
  BY <1>3 DEF IInv, SchedulerPlaces
<1> QED BY <1>1, <1>2, <1>3, <1>4, ReadyEnters

LEMMA StopPlaces ==
  ASSUME IInv, StopVictim
  PROVE  /\ current_process \in Proc
         /\ ReadyTypes' /\ ReadySet' = ReadySet \cup {current_process}
<1>1. at = "stop" /\ EnterReady(current_process)
  BY DEF StopVictim, EnterReady, Step
<1>2. current_process \in Proc
  BY <1>1 DEF IInv, Control, Types, Idle
<1>3. current_process \notin ReadySet /\ ReadyTypes
  BY <1>1, <1>2 DEF IInv, SchedulerPlaces
<1> QED BY <1>1, <1>2, <1>3, ReadyEnters

\* With the signal pending there is a current process, and it has not been
\* put back into the ready queue: the handler retires it.
LEMMA CompletionPlaces ==
  ASSUME IInv, HandleProcessCompletion
  PROVE  /\ current_process \in Proc /\ Ended(current_process) /\ ~Idle
         /\ current_process \notin ReadySet /\ at # "pick"
         /\ Completes
         /\ ReadyTypes'
         /\ \/ CompletionLeavesIdle
            \/ CompletionTakesNext
<1>1. ReadyTypes /\ usr2 /\ ~Idle /\ Ended(current_process) /\ at # "pick"
  BY CompletionFrame DEF IInv, SchedulerPlaces, Signals
<1>2. current_process \in Proc
  BY <1>1 DEF IInv, Types, Idle
<1>3. current_process \notin ReadySet
  BY <1>1, <1>2 DEF IInv, SchedulerPlaces
<1> QED BY <1>1, <1>2, <1>3, CompletionCases
        DEF CompletionFindsNobody, CompletionLeavesIdle, CompletionTakesNext

LEMMA SchedulerPlacesScheduler ==
  ASSUME IInv, Receive \/ StopVictim \/ Pick \/ HandleProcessCompletion
  PROVE  SchedulerPlaces'
<1> USE DEF IInv
<1>0. None \notin Proc /\ ReadySet \subseteq Proc /\ ReadyTypes
  BY ConstantTypes, ReadyInProc DEF SchedulerPlaces
<1>1. CASE Receive
  <2>1. /\ UNCHANGED <<life, stopped, current_process, finish>>
        /\ at = "recv" /\ at' # "pick"
    BY <1>1 DEF Receive, Step
  <2> QED BY <1>0, <1>1, <2>1, ReceivePlaces DEF SchedulerPlaces, Launched, Finished
<1>2. CASE StopVictim
  <2>1. /\ UNCHANGED <<msgq, life, current_process, finish>>
        /\ stopped' = stopped \cup {current_process} /\ at = "stop" /\ at' = "pick"
    BY <1>2 DEF StopVictim, Step, Stopped
  <2> QED BY <1>0, <1>2, <2>1, StopPlaces DEF SchedulerPlaces, Launched, Finished
<1>3. CASE Pick
  <2>1. at = "pick" /\ at' # "pick" /\ UNCHANGED <<msgq, life, finish>>
    BY <1>3, PickFrame
  <2>2. current_process \in Proc => current_process \in ReadySet
    BY <2>1 DEF SchedulerPlaces
  <2>3. ReadyTypes'
    BY <1>0, <1>3, PickCases
  <2>4. CASE ReadySet = {} /\ ReadySet' = {} /\ current_process' = None /\ UNCHANGED stopped
    BY <1>0, <2>1, <2>2, <2>3, <2>4 DEF SchedulerPlaces, Launched, Finished
  <2>5. ASSUME NEW p \in ReadySet, ReadySet' = ReadySet \ {p},
               current_process' = p, stopped' = stopped \ {p}
        PROVE  SchedulerPlaces'
    BY <1>0, <2>1, <2>2, <2>3, <2>5 DEF SchedulerPlaces, Launched, Finished
  <2> QED BY <1>0, <1>3, <2>4, <2>5, PickCases DEF Dispatch
<1>4. CASE HandleProcessCompletion
  <2> DEFINE c == current_process
  <2>1. /\ c \in Proc /\ Ended(c) /\ c \notin ReadySet /\ ReadyTypes'
        /\ CompletionLeavesIdle \/ CompletionTakesNext
    BY <1>4, CompletionPlaces
  <2>2. UNCHANGED <<msgq, life>> /\ at' # "pick"
    BY <1>4, CompletionFrame, CompletionPlaces
  <2>3. \A q \in Proc : Finished(q)' <=> Finished(q) \/ q = c
    <3>1. finish' = [finish EXCEPT ![c] = clk] /\ finish \in [Proc -> Time]
      BY <1>4, CompletionPlaces DEF Completes, Types
    <3>2. clk # None
      BY ConstantTypes DEF Types
    <3> QED BY <2>1, <3>1, <3>2 DEF Finished
  <2> HIDE DEF c
  <2>4. CASE ReadySet' = ReadySet /\ current_process' = None /\ UNCHANGED stopped
    BY <1>0, <2>1, <2>2, <2>3, <2>4 DEF SchedulerPlaces, Launched, c
  <2>5. ASSUME NEW p \in ReadySet, ReadySet' = ReadySet \ {p},
               current_process' = p, stopped' = stopped \ {p}
        PROVE  SchedulerPlaces'
    BY <1>0, <2>1, <2>2, <2>3, <2>5 DEF SchedulerPlaces, Launched, c
  <2>6. CompletionLeavesIdle => ReadySet' = ReadySet /\ current_process' = None /\ UNCHANGED stopped
    BY ReadyKept DEF CompletionLeavesIdle
  <2> QED BY <2>1, <2>4, <2>5, <2>6 DEF CompletionTakesNext, Dispatch
<1> QED BY <1>1, <1>2, <1>3, <1>4

LEMMA SchedulerPlacesStep ==
  ASSUME IInv, Next
  PROVE  SchedulerPlaces'
<1> USE DEF IInv
<1>0. None \notin Proc
  BY ConstantTypes
<1>1. ASSUME NEW p \in Proc, ProcessNext(p) PROVE SchedulerPlaces'
  <2>1. UNCHANGED <<msgq, rr_queue, ready_Heap, current_process, finish, stopped, at>>
    BY <1>1, ProcessFrame DEF schedulerVars
  <2>2. \A q \in Proc : Launched(q)' <=> Launched(q)
    BY <1>1, ProcessKeepsLife DEF Launched, Types
  <2> QED BY <1>0, <2>1, <2>2, SchedulerPlacesKept
<1>2. ASSUME NEW p \in Proc, Reap(p) PROVE SchedulerPlaces'
  <2>1. UNCHANGED <<msgq, rr_queue, ready_Heap, current_process, finish, stopped, at>>
    BY <1>2 DEF Reap, ReapProcess, schedulerVars
  <2>2. \A q \in Proc : Launched(q)' <=> Launched(q)
    BY <1>2 DEF Launched, Types, Reap, ReapProcess
  <2> QED BY <1>0, <2>1, <2>2, SchedulerPlacesKept
<1>3. ASSUME QuietStep PROVE SchedulerPlaces'
  BY <1>0, <1>3, QuietFrame, QuietKeepsPick, SchedulerPlacesKept DEF Launched
<1>4. ASSUME PlanStep \/ ReapScheduler \/ Tick, UNCHANGED schedulerVars PROVE SchedulerPlaces'
  <2>1. UNCHANGED <<msgq, rr_queue, ready_Heap, current_process, finish, stopped, at, life>>
    BY <1>4, PlanFrame DEF ReapScheduler, Tick, sharedVars, schedulerVars
  <2> QED BY <1>0, <2>1, SchedulerPlacesKept DEF Launched
<1>5. ASSUME Launch, UNCHANGED schedulerVars PROVE SchedulerPlaces'
  <2>1. booked \in Proc /\ ~Launched(booked)
    BY <1>5, LaunchPlaces
  <2>2. UNCHANGED <<rr_queue, ready_Heap, current_process, finish, at>>
    BY <1>5 DEF schedulerVars
  <2>3. ReadySet' = ReadySet /\ ReadyTypes'
    BY <2>2, ReadyKept DEF SchedulerPlaces
  <2>4. /\ stopped' = stopped \cup {booked} /\ msgq' = Append(msgq, booked)
        /\ life' = [life EXCEPT ![booked] = "spin"]
    BY <1>5 DEF Launch
  <2>5. booked \notin Range(msgq) /\ Distinct(msgq, Proc)
    BY <2>1 DEF SchedulerPlaces
  <2>6. Distinct(msgq', Proc) /\ Range(msgq') = Range(msgq) \cup {booked}
    BY <2>1, <2>4, <2>5, AppendDistinct
  <2>7. \A q \in Proc : Launched(q)' <=> Launched(q) \/ q = booked
    BY <2>4 DEF Launched, Types
  <2>8. ~Finished(booked)
    BY <2>1 DEF Signals, Ended, Launched
  <2> QED BY <2>1, <2>2, <2>3, <2>4, <2>6, <2>7, <2>8 DEF SchedulerPlaces, Finished
<1> QED BY <1>1, <1>2, <1>3, <1>4, <1>5, NextCases, SchedulerPlacesScheduler
        DEF ReapScheduler, Tick
--------------------------------------------------------------------------------
(***************************************************************************)
(* Control: where the scheduler is and whether there is a current process. *)
(***************************************************************************)
LEMMA ControlStep ==
  ASSUME IInv, Next
  PROVE  Control'
<1> USE DEF IInv, Control, Idle
<1>1. CASE QuietStep
  <2>1. current_process' = current_process
    BY <1>1, QuietFrame
  <2>2. at' \in {at, "sync", "top", "exited", "recv", "check", "clock", "compare", "store", "run",
                 "switch", "preempt", "stop", "pick", "post", "grant", "refresh", "report",
                 "wait", "fault"}
        /\ (at' = "sync" => at \in {"boot", "sync"})
        /\ (at' = "boot" => at = "boot")
        /\ (at' = "switch" => at = "switch" \/ (at = "run" /\ MustSwitch))
        /\ (at' = "preempt" => at = "preempt" \/ (at = "switch" /\ ~Idle))
        /\ (at' = "stop" => at \in {"preempt", "stop"})
        /\ (at' = "pick" => at = "pick" \/ (at = "switch" /\ Idle))
    BY <1>1 DEF QuietStep, Boot, SyncClk, Leave, Down, CheckIdle, ReceiveDone, ReadTime,
                CompareTime, StoreTime, RunAlgorithm, EnterSwitch, Preempt, TestBeforeGrant, Grant,
                TestBeforeReport, Report, WaitForTick, HandleGeneratorCompletion, Step, Return
  <2>3. Algorithm = "HPF" => (MustSwitch => Idle)
    BY DEF MustSwitch
  <2> QED BY <2>1, <2>2, <2>3
<1>2. CASE Receive \/ StopVictim \/ Pick
  BY <1>2, PickFrame, AlgorithmAssumption DEF Receive, StopVictim, Step
<1>3. CASE HandleProcessCompletion
  BY <1>3, CompletionFrame, CompletionPlaces
<1>4. ASSUME UNCHANGED schedulerVars PROVE Control'
  BY <1>4 DEF schedulerVars
<1>5. CASE \E p \in Proc : ProcessNext(p)
  BY <1>4, <1>5, ProcessFrame
<1> QED BY <1>1, <1>2, <1>3, <1>4, <1>5, NextCases DEF Reap, ReapScheduler, Tick
--------------------------------------------------------------------------------
(***************************************************************************)
(* Signals: SIGUSR2 is pending only while the current process has ended,   *)
(* and each other process that has ended is retired.                       *)
(***************************************************************************)
LEMMA ProcessIsCurrent ==
  ASSUME IInv, NEW p \in Proc, ProcessNext(p), ~Ended(p)
  PROVE  p = current_process /\ ~Idle /\ at # "pick" /\ ~Finished(p) /\ sync_sem[p] # None
<1>1. Launched(p) /\ p \notin stopped /\ ~Finished(p)
  BY ProcessKeepsLife DEF IInv, Signals
<1>2. p = current_process /\ p \notin ReadySet
  BY <1>1 DEF IInv, SchedulerPlaces
<1>3. p # None
  BY ConstantTypes
<1> QED BY <1>1, <1>2, <1>3 DEF IInv, SchedulerPlaces, Working, Idle

LEMMA SignalsProcess ==
  ASSUME IInv, NEW p \in Proc, ProcessNext(p)
  PROVE  Signals'
<1> USE DEF IInv, Signals
<1>1. UNCHANGED <<at, current_process, finish>>
  BY ProcessFrame DEF schedulerVars
<1>2. /\ life' = [life EXCEPT ![p] = life'[p]]
      /\ life \in [Proc -> Life]
  BY ProcessKeepsLife DEF Types
<1>3. CASE Notify(p)
  <2>1. ~Ended(p)
    BY <1>3 DEF Notify, Running, Ended
  <2>2. p = current_process /\ ~Idle /\ at # "pick" /\ sync_sem[p] # None
    BY <2>1, ProcessIsCurrent
  <2>3. usr2' = TRUE /\ life' = [life EXCEPT ![p] = "exit"]
    BY <1>3, <2>2 DEF Notify, Announce, up_succeeds, Goto
  <2> QED BY <1>1, <1>2, <2>2, <2>3 DEF Idle, Ended, Finished, Alive
<1>4. CASE ~Notify(p)
  <2>1. usr2' = usr2
    BY <1>4 DEF ProcessNext, ProcessStep, Acquire, ReadClk, Work, Exit
  <2>2. Ended(p)' <=> Ended(p)
    BY <1>2, <1>4 DEF ProcessNext, ProcessStep, Acquire, ReadClk, Work, Exit, Running, Goto, Ended
  <2>3. \A q \in Proc : Ended(q)' <=> Ended(q)
    BY <1>2, <2>2 DEF Ended
  <2>4. usr2 => current_process \in Proc
    BY DEF Idle, Types
  <2> QED BY <1>1, <2>1, <2>3, <2>4 DEF Idle, Finished, Alive, Ended
<1> QED BY <1>3, <1>4

LEMMA SignalsStep ==
  ASSUME IInv, Next
  PROVE  Signals'
<1> USE DEF IInv, Signals
<1>0. usr2 => current_process \in Proc
  BY DEF Idle, Types
<1>1. ASSUME UNCHANGED <<usr2, life, current_process, finish>>,
             usr2 => at' # "pick",
             Alive' => Alive
      PROVE  Signals'
  BY <1>1 DEF Idle, Ended, Finished
<1>2. CASE QuietStep
  <2>1. Alive' => Alive
    BY <1>2 DEF QuietStep, Boot, SyncClk, Leave, Down, CheckIdle, ReceiveDone, ReadTime,
                CompareTime, StoreTime, RunAlgorithm, EnterSwitch, Preempt, TestBeforeGrant, Grant,
                TestBeforeReport, Report, WaitForTick, HandleGeneratorCompletion, Step, Alive
  <2> QED BY <1>1, <1>2, <2>1, QuietFrame, QuietKeepsPick DEF Idle
<1>3. CASE Receive
  BY <1>1, <1>3 DEF Receive, Step, Alive
<1>4. CASE StopVictim
  <2>1. ~usr2
    BY <1>4, SignalAssumption DEF StopVictim, Step, Interruptible, Control
  <2> QED BY <1>1, <1>4, <2>1 DEF StopVictim, Step, Alive
<1>5. CASE Pick
  <2>1. ~usr2 /\ ~usr2' /\ Alive
    BY <1>5, PickFrame DEF Alive
  <2> QED BY <1>5, <2>1, PickFrame DEF Ended, Finished
<1>6. CASE HandleProcessCompletion
  <2> DEFINE c == current_process
  <2>1. c \in Proc /\ Ended(c) /\ Completes
    BY <1>6, CompletionPlaces
  <2>2. usr2' = FALSE /\ life' = life /\ Alive
    BY <1>6, CompletionFrame
  <2>3. \A q \in Proc : Finished(q)' <=> Finished(q) \/ q = c
    <3>1. finish' = [finish EXCEPT ![c] = clk] /\ finish \in [Proc -> Time]
      BY <2>1 DEF Completes, Types
    <3>2. clk # None
      BY ConstantTypes DEF Types
    <3> QED BY <2>1, <3>1, <3>2 DEF Finished
  <2> HIDE DEF c
  <2> QED BY <2>1, <2>2, <2>3 DEF Ended, c
<1>7. CASE PlanStep /\ UNCHANGED <<processVars, schedulerVars>>
  BY <1>1, <1>7, PlanFrame DEF schedulerVars, Alive
<1>8. CASE Launch /\ UNCHANGED <<processVars, schedulerVars>>
  <2>1. booked \in Proc /\ ~Launched(booked)
    BY <1>8, LaunchPlaces
  <2>2. life' = [life EXCEPT ![booked] = "spin"] /\ usr2' = usr2
    BY <1>8 DEF Launch
  <2>3. \A q \in Proc : Ended(q)' <=> Ended(q)
    BY <2>1, <2>2 DEF Ended, Launched, Types
  <2> QED BY <1>0, <1>8, <2>2, <2>3 DEF schedulerVars, Idle, Finished, Alive, Ended
<1>9. ASSUME NEW p \in Proc, Reap(p) PROVE Signals'
  <2>1. life' = [life EXCEPT ![p] = "reaped"] /\ life[p] = "zombie" /\ usr2' = usr2
    BY <1>9 DEF Reap, ReapProcess
  <2>2. \A q \in Proc : Ended(q)' <=> Ended(q)
    BY <2>1 DEF Ended, Types
  <2> QED BY <1>0, <1>9, <2>1, <2>2 DEF Reap, schedulerVars, Idle, Finished, Alive, Ended
<1>10. CASE ReapScheduler \/ Tick
  BY <1>1, <1>10 DEF ReapScheduler, Tick, sharedVars, schedulerVars, Alive
<1> QED BY <1>2, <1>3, <1>4, <1>5, <1>6, <1>7, <1>8, <1>9, <1>10, NextCases, SignalsProcess
--------------------------------------------------------------------------------
(***************************************************************************)
(* Working: the remaining time in shared memory and the semaphore of a     *)
(* process, by where the process is in its program.                        *)
(***************************************************************************)
LEMMA WorkingProcess ==
  ASSUME IInv, NEW p \in Proc, ProcessNext(p)
  PROVE  Working'
<1> USE DEF IInv, Working
<1>1. UNCHANGED <<job, finish>>
  BY ProcessFrame DEF schedulerVars
<1>2. /\ life \in [Proc -> Life] /\ shm \in [Proc -> Int]
      /\ sync_sem \in [Proc -> 0..2 \cup {None}] /\ None \notin Int
      /\ job[p].exec \in Nat
  BY ConstantTypes, JobTypes DEF Types
<1>3. ASSUME ~Ended(p) PROVE sync_sem[p] \in 0..1 /\ sync_sem[p] # None
  BY <1>2, <1>3, ProcessIsCurrent
<1>4. CASE Acquire(p)
  <2>1. ~Ended(p)
    BY <1>4 DEF Acquire, Running, Ended
  <2>2. sync_sem[p] > 0 /\ sync_sem' = [sync_sem EXCEPT ![p] = sync_sem[p] - 1]
    BY <1>4 DEF Acquire, down, down_nb_succeeds
  <2>3. sync_sem[p] = 1
    BY <1>3, <2>1, <2>2
  <2>4. sync_sem' = [sync_sem EXCEPT ![p] = 0]
    BY <2>2, <2>3
  <2> QED BY <1>1, <1>2, <1>4, <2>4 DEF Acquire, Running, Goto, Ended, Finished
<1>5. CASE ReadClk(p)
  BY <1>1, <1>2, <1>5 DEF ReadClk, Running, Goto, Ended, Finished
<1>6. CASE Work(p)
  <2>1. shm[p] \in 0..job[p].exec /\ (job[p].exec > 0 => shm[p] > 0) /\ ~Ended(p)
    BY <1>6 DEF Work, Running, Ended
  <2>2. shm' = [shm EXCEPT ![p] = shm[p] - 1] /\ UNCHANGED sync_sem
    BY <1>6 DEF Work
  <2>3. \/ shm[p] - 1 > 0 /\ life' = [life EXCEPT ![p] = "spin"]
        \/ shm[p] - 1 <= 0 /\ job[p].exec > 0 /\ life' = [life EXCEPT ![p] = "notify"]
        \/ shm[p] - 1 <= 0 /\ job[p].exec = 0 /\ life' = [life EXCEPT ![p] = "crashed"]
    BY <1>2, <1>6, <2>2 DEF Work, Goto
  <2>4. sync_sem[p] \in 0..1 /\ sync_sem[p] # None
    BY <1>3, <2>1
  <2> QED BY <1>1, <1>2, <2>1, <2>2, <2>3, <2>4 DEF Ended, Finished
<1>7. CASE Notify(p)
  <2>1. ~Ended(p)
    BY <1>7 DEF Notify, Running, Ended
  <2>2. sync_sem[p] \in 0..1 /\ sync_sem[p] # None
    BY <1>3, <2>1
  <2>3. /\ sync_sem' = [sync_sem EXCEPT ![p] = sync_sem[p] + 1]
        /\ life' = [life EXCEPT ![p] = "exit"] /\ shm' = [shm EXCEPT ![p] = 0]
    BY <1>7, <2>2 DEF Notify, up, up_succeeds, Goto
  <2> QED BY <1>1, <1>2, <2>2, <2>3 DEF Ended, Finished
<1>8. CASE Exit(p)
  BY <1>1, <1>2, <1>8 DEF Exit, Running, Goto, Ended, Finished
<1> QED BY <1>4, <1>5, <1>6, <1>7, <1>8 DEF ProcessNext, ProcessStep

LEMMA WorkingStep ==
  ASSUME IInv, Next
  PROVE  Working'
<1> USE DEF IInv, Working
<1>0. /\ life \in [Proc -> Life] /\ shm \in [Proc -> Int]
      /\ sync_sem \in [Proc -> 0..2 \cup {None}] /\ None \notin Int
  BY ConstantTypes DEF Types
<1>1. ASSUME UNCHANGED <<job, life, shm, sync_sem, finish>> PROVE Working'
  BY <1>1 DEF Ended, Finished
<1>2. CASE QuietStep
  <2>1. UNCHANGED <<job, life, shm, finish>>
    BY <1>2, QuietFrame
  <2>2. CASE Grant
    <3>1. \/ sync_sem' = sync_sem
          \/ sync_sem' = [sync_sem EXCEPT ![current_process] =
                            IF sync_sem[current_process] = None THEN None ELSE 1]
      BY <2>2 DEF Grant
    <3> QED BY <1>0, <2>1, <3>1 DEF Ended, Finished
  <2>3. CASE ~Grant
    <3>1. UNCHANGED sync_sem
      BY <1>2, <2>3
         DEF QuietStep, Boot, SyncClk, Leave, Down, CheckIdle, ReceiveDone, ReadTime, CompareTime,
             StoreTime, RunAlgorithm, EnterSwitch, Preempt, TestBeforeGrant, TestBeforeReport,
             Report, WaitForTick, HandleGeneratorCompletion, sharedVars
    <3> QED BY <1>1, <2>1, <3>1
  <2> QED BY <2>2, <2>3
<1>3. CASE Receive \/ StopVictim \/ Pick
  BY <1>1, <1>3, PickFrame DEF Receive, StopVictim
<1>4. CASE HandleProcessCompletion
  <2>1. UNCHANGED <<job, life, shm>> /\ current_process \in Proc /\ Completes
    BY <1>4, CompletionFrame, CompletionPlaces
  <2>2. /\ finish' = [finish EXCEPT ![current_process] = clk] /\ finish \in [Proc -> Time]
        /\ sync_sem' = [sync_sem EXCEPT ![current_process] = None]
        /\ clk # None
    BY <1>0, <2>1 DEF Completes, Types
  <2> QED BY <1>0, <2>1, <2>2 DEF Ended, Finished
<1>5. CASE PlanStep /\ UNCHANGED <<processVars, schedulerVars>>
  BY <1>1, <1>5, PlanFrame DEF schedulerVars
<1>6. CASE Launch /\ UNCHANGED <<processVars, schedulerVars>>
  <2>1. booked \in Proc /\ ~Launched(booked) /\ job[booked].exec \in Nat
    BY <1>6, LaunchPlaces, JobTypes
  <2>2. /\ life' = [life EXCEPT ![booked] = "spin"] /\ UNCHANGED <<job, finish>>
        /\ shm' = [shm EXCEPT ![booked] = job[booked].exec]
        /\ sync_sem' = [sync_sem EXCEPT ![booked] = 0]
    BY <1>6 DEF Launch, schedulerVars
  <2> QED BY <1>0, <2>1, <2>2 DEF Ended, Finished, Launched
<1>7. ASSUME NEW p \in Proc, Reap(p) PROVE Working'
  <2>1. life' = [life EXCEPT ![p] = "reaped"] /\ life[p] = "zombie"
        /\ UNCHANGED <<job, shm, sync_sem, finish>>
    BY <1>7 DEF Reap, ReapProcess, schedulerVars
  <2> QED BY <1>0, <2>1 DEF Ended, Finished
<1>8. CASE ReapScheduler \/ Tick
  BY <1>1, <1>8 DEF ReapScheduler, Tick, sharedVars, schedulerVars
<1> QED BY <1>2, <1>3, <1>4, <1>5, <1>6, <1>7, <1>8, NextCases, WorkingProcess
--------------------------------------------------------------------------------
(***************************************************************************)
(* Arrivals: the generator hands over nobody before it has arrived.        *)
(***************************************************************************)
LEMMA ArrivalsStep ==
  ASSUME IInv, Next
  PROVE  Arrivals'
<1> USE DEF IInv, Arrivals
<1>0. clk \in Nat /\ last_tick \in Int /\ last_tick <= clk /\ \A p \in Proc : job[p].arrival \in Nat
  BY JobTypes DEF Types
<1>1. ASSUME UNCHANGED <<job, clk, last_tick, pq>> PROVE Arrivals'
  BY <1>1
<1>2. CASE \E p \in Proc : ProcessNext(p)
  BY <1>1, <1>2, ProcessFrame DEF restVars
<1>3. CASE /\ QuietStep \/ Receive \/ StopVictim \/ Pick \/ HandleProcessCompletion
           /\ UNCHANGED restVars
  BY <1>1, <1>3, SchedulerFrame DEF restVars
<1>4. CASE Arrive
  <2>1. UNCHANGED <<job, clk, last_tick>> /\ \E p \in Arrived : pq' = pq \ {p}
    BY <1>4 DEF Arrive, sharedVars
  <2> QED BY <1>0, <2>1 DEF Arrived
<1>5. CASE Poll
  <2>1. UNCHANGED <<job, clk, pq>> /\ last_tick' = clk
    BY <1>5 DEF Poll, sharedVars
  <2>2. \A p \in Proc \ pq' : job[p]'.arrival <= last_tick'
    BY <1>0, <2>1
  <2> QED BY <1>0, <2>1, <2>2
<1>6. CASE Serve \/ ServeDone \/ Post \/ Wake \/ Launch
  BY <1>1, <1>6 DEF Serve, ServeDone, Post, Wake, Launch, sharedVars
<1>7. CASE \E p \in Proc : Reap(p)
  BY <1>1, <1>7 DEF Reap, ReapProcess
<1>8. CASE ReapScheduler
  BY <1>1, <1>8 DEF ReapScheduler, sharedVars
<1>9. CASE Tick
  BY <1>0, <1>9 DEF Tick, generatorVars
<1> QED BY <1>2, <1>3, <1>4, <1>5, <1>6, <1>7, <1>8, <1>9, NextCases DEF PlanStep
--------------------------------------------------------------------------------
(***************************************************************************)
(* Clocks: the scheduler's own times, none of which is in the future.      *)
(***************************************************************************)
LEMMA Numbers ==
  ASSUME Types
  PROVE  /\ clk \in Nat /\ clockValue \in Int /\ current_time \in Int
         /\ time_slice_start \in Int /\ logged \in Int /\ None \notin Int
         /\ \A p \in Proc : /\ pcb[p].start \in Time /\ pcb[p].last_prempt \in Time
                            /\ pcb[p].waiting \in Int /\ job[p].arrival \in Nat
  BY ConstantTypes, JobTypes DEF Types, PCBType

\* What the steps of the scheduler that decide nothing do to its times.
LEMMA QuietTimes ==
  ASSUME IInv, QuietStep
  PROVE  /\ \/ clockValue' = clockValue /\ (Deciding' => Deciding)
            \/ clockValue' = -1 /\ Idle /\ at' = "recv"
            \/ clockValue' = current_time /\ at = "store" /\ at' = "run"
            \/ clockValue' = clk - 1 /\ at = "sync" /\ at' = "top"
         /\ current_time' \in {current_time, clk}
         /\ Reading' => current_time' = clk \/ (Reading /\ current_time' = current_time)
         /\ at' \in {"boot", "sync"} => at \in {"boot", "sync"} /\ clockValue' = clockValue
         /\ at' = "stop" => (at = "stop" /\ clockValue' = clockValue) \/ Preempt
         /\ \/ LoopTime' = LoopTime
            \/ LoopTime' = -1 /\ Idle
            \/ LoopTime' = clk
            \/ LoopTime' = clk - 1 /\ at = "sync"
         /\ Deciding' \/ Reading' =>
              LoopTime' = clk \/ (LoopTime' = LoopTime /\ (Deciding \/ Reading))
<1> USE DEF LoopTime, Reading, Deciding, Step
<1>1. CASE Boot \/ SyncClk \/ Leave \/ Down \/ CheckIdle \/ ReceiveDone
  BY <1>1 DEF Boot, SyncClk, Leave, Down, CheckIdle, ReceiveDone
<1>2. CASE ReadTime \/ CompareTime \/ StoreTime
  BY <1>2 DEF ReadTime, CompareTime, StoreTime, TickTime
<1>3. CASE RunAlgorithm \/ EnterSwitch \/ Preempt \/ HandleGeneratorCompletion
  BY <1>3 DEF RunAlgorithm, EnterSwitch, Preempt, HandleGeneratorCompletion, Return
<1>4. CASE TestBeforeGrant \/ Grant \/ TestBeforeReport \/ Report \/ WaitForTick
  BY <1>4 DEF TestBeforeGrant, Grant, TestBeforeReport, Report, WaitForTick
<1> QED BY <1>1, <1>2, <1>3, <1>4 DEF QuietStep

LEMMA QuietStamps ==
  ASSUME IInv, QuietStep, NEW p \in Proc
  PROVE  /\ pcb'[p].start = pcb[p].start /\ pcb'[p].waiting = pcb[p].waiting
         /\ \/ pcb'[p].last_prempt = pcb[p].last_prempt /\ ~Preempt
            \/ /\ Preempt /\ pcb'[p].last_prempt = pcb[p].last_prempt
               /\ p # current_process
            \/ /\ Preempt /\ pcb'[p].last_prempt = clockValue
               /\ clockValue' = clockValue /\ p = current_process
<1>1. Types
  BY DEF IInv
<1>2. ~Idle => current_process \in Proc
  BY <1>1 DEF Types, Idle
<1>3. CASE Preempt
  <2>1. current_process \in Proc
    BY <1>2, <1>3 DEF IInv, Control, Preempt, Step
  <2>2. /\ pcb' = [Refreshed(current_process) EXCEPT ![current_process].last_prempt = clockValue]
        /\ clockValue' = clockValue
    BY <1>3 DEF Preempt
  <2>3. /\ Refreshed(current_process) \in [Proc -> PCBType]
        /\ Refreshed(current_process)[p].start = pcb[p].start
        /\ Refreshed(current_process)[p].waiting = pcb[p].waiting
        /\ Refreshed(current_process)[p].last_prempt = pcb[p].last_prempt
    BY <1>1, <2>1, RefreshedType
  <2> DEFINE r == Refreshed(current_process)
  <2> HIDE DEF r
  <2>4. /\ r \in [Proc -> PCBType] /\ pcb' = [r EXCEPT ![current_process].last_prempt = clockValue]
        /\ r[p].start = pcb[p].start /\ r[p].waiting = pcb[p].waiting
        /\ r[p].last_prempt = pcb[p].last_prempt
    BY <2>2, <2>3 DEF r
  <2> QED BY <1>3, <2>1, <2>2, <2>4 DEF PCBType
<1>4. CASE ~Preempt
  <2>1. pcb' = pcb \/ (~Idle /\ pcb' = Refreshed(current_process))
    BY <1>4 DEF QuietStep, Boot, SyncClk, Leave, Down, CheckIdle, ReceiveDone, ReadTime,
                CompareTime, StoreTime, RunAlgorithm, EnterSwitch, TestBeforeGrant, Grant,
                TestBeforeReport, Report, WaitForTick, HandleGeneratorCompletion
  <2> QED BY <1>1, <1>2, <1>4, <2>1, RefreshedType
<1> QED BY <1>3, <1>4

LEMMA ClocksQuiet ==
  ASSUME IInv, QuietStep
  PROVE  Clocks'
<1> USE DEF IInv, Clocks
<1>1. UNCHANGED <<clk, current_process, time_slice_start, logged>>
  BY QuietFrame
<1>2. /\ clk \in Nat /\ clockValue \in Int /\ current_time \in Int
      /\ time_slice_start \in Int /\ logged \in Int
  BY Numbers
<1>3. ~Idle => current_process \in Proc
  BY DEF Types, Idle
<1>4. clockValue' <= clk' /\ current_time' <= clk' /\ logged' <= clk'
  BY <1>1, <1>2, QuietTimes
<1>5. Deciding' \/ ~Idle' => clockValue' # -1
  BY <1>1, <1>2, QuietTimes DEF Idle, Control, Deciding, Reading
<1>6. /\ Reading' => current_time' # -1 /\ (Timely => current_time' = clk')
      /\ Timely /\ LoopTime' # -1 => logged' <= LoopTime'
  BY <1>1, <1>2, QuietTimes
<1>7. at' = "stop" => pcb'[current_process'].last_prempt = clockValue'
  BY <1>1, <1>3, QuietTimes, QuietStamps DEF Control, Preempt, Step
<1>8. ~Idle' => /\ pcb'[current_process'].start # None
                /\ time_slice_start' \in 0..clk'
                /\ Steady => time_slice_start' <= LoopTime'
  <2>1. ~Idle => at # "sync"
    BY DEF Control
  <2> QED BY <1>1, <1>2, <1>3, <2>1, QuietTimes, QuietStamps DEF Idle
<1>9. at' \in {"boot", "sync"} =>
        clockValue' = -1 /\ logged' = -1 /\ \A p \in Proc : pcb'[p].start = None
  BY <1>1, QuietTimes, QuietStamps
<1> QED BY <1>4, <1>5, <1>6, <1>7, <1>8, <1>9

\* What a dispatch at a time that is not in the past does to the times.
LEMMA DispatchTimes ==
  ASSUME IInv, NEW now \in 0..MaxClk, now <= clk,
         NEW p \in ReadySet, Dispatch(p, now),
         clockValue' = now, UNCHANGED <<clk, current_time>>,
         Steady => LoopTime' = now, Reading' => Reading,
         at' \notin {"boot", "sync", "stop"}
  PROVE  Clocks'
<1>1. Types /\ p \in Proc
  BY ReadyInProc DEF IInv, SchedulerPlaces
<1>2. /\ current_process' = p /\ time_slice_start' = now /\ logged' = now
      /\ pcb'[p].start # None
  BY <1>1, DispatchTypes, ConstantTypes
<1>3. /\ now # -1 /\ current_time' <= clk /\ (Timely => Steady)
      /\ Reading' => current_time' # -1 /\ (Timely => current_time' = clk')
  BY DEF IInv, Clocks, Steady
<1> QED BY <1>2, <1>3 DEF Clocks, Idle

LEMMA ClocksStep ==
  ASSUME IInv, Next
  PROVE  Clocks'
<1> USE DEF IInv
<1>0. /\ clk \in 0..MaxClk /\ clockValue \in -1..MaxClk /\ current_time \in Int
      /\ time_slice_start \in Int /\ logged \in Int /\ None \notin Int
  BY Numbers DEF Types
<1>1. ASSUME UNCHANGED <<clk, schedulerVars>> PROVE Clocks'
  BY <1>1 DEF Clocks, Deciding, Idle, Reading, LoopTime, schedulerVars
<1>2. CASE Receive
  <2>1. Head(msgq) \in Proc /\ pcb' = [pcb EXCEPT ![Head(msgq)] = NewPCB(Head(msgq))]
        /\ Head(msgq) # current_process
    BY <1>2, ReceivePlaces DEF Receive, SchedulerPlaces
  <2>2. \A p \in Proc : p # Head(msgq) => pcb'[p] = pcb[p]
    BY <2>1 DEF Types
  <2>3. ~Idle => current_process \in Proc
    BY DEF Types, Idle
  <2>4. /\ UNCHANGED <<clk, clockValue, current_time, time_slice_start, logged, current_process>>
        /\ at = "recv" /\ at' \in {"run", "check"} /\ (at' = "run" => ~Idle)
    BY <1>2 DEF Receive, Step
  <2> QED BY <2>1, <2>2, <2>3, <2>4 DEF Clocks, Idle, Deciding, Reading, LoopTime
<1>3. CASE StopVictim
  <2>1. /\ UNCHANGED <<clk, clockValue, current_time, time_slice_start, pcb, current_process>>
        /\ at = "stop" /\ at' = "pick" /\ logged' = clockValue
    BY <1>3 DEF StopVictim, Step
  <2> QED BY <1>0, <2>1 DEF Clocks, Idle, Deciding, Reading, LoopTime
<1>4. CASE Pick
  <2>1. /\ at = "pick" /\ at' \in {"check", "post"} /\ UNCHANGED <<clk, clockValue, current_time>>
    BY <1>4, PickFrame
  <2>2. clockValue \in 0..MaxClk /\ clockValue <= clk
    BY <1>0, <2>1 DEF Clocks, Deciding
  <2>3. CASE current_process' = None /\ UNCHANGED <<time_slice_start, logged>>
    BY <2>1, <2>3 DEF Clocks, Idle, Deciding, Reading, LoopTime
  <2>4. ASSUME NEW p \in ReadySet, Dispatch(p, clockValue) PROVE Clocks'
    <3>1. ~Reading' /\ LoopTime' = clockValue
      BY <2>1 DEF Reading, LoopTime
    <3> QED BY <2>1, <2>2, <2>4, <3>1, DispatchTimes
  <2> QED BY <1>4, <2>3, <2>4, PickCases DEF SchedulerPlaces
<1>5. CASE HandleProcessCompletion
  <2>1. /\ clockValue' = clk /\ UNCHANGED <<clk, current_time>> /\ ~Idle
        /\ at' \notin {"boot", "sync", "stop"}
        /\ CompletionLeavesIdle \/ CompletionTakesNext
        /\ (Reading' => Reading) /\ LoopTime' \in {clk, current_time}
        /\ LoopTime' = IF Reading' THEN current_time ELSE clk
    BY <1>5, CompletionFrame, CompletionPlaces DEF Control, Reading, LoopTime
  <2>2. CASE CompletionLeavesIdle
    <3>1. current_process' = None /\ logged' = clk /\ time_slice_start' = time_slice_start
      BY <2>2 DEF CompletionLeavesIdle
    <3>2. Reading' => current_time # -1 /\ (Timely => current_time = clk)
      BY <2>1 DEF Clocks
    <3> QED BY <1>0, <2>1, <3>1, <3>2 DEF Clocks, Idle, Deciding
  <2>3. ASSUME CompletionTakesNext, NEW p \in ReadySet, Dispatch(p, clk) PROVE Clocks'
    <3>1. Steady => LoopTime' = clk
      BY <2>1, <2>3 DEF CompletionTakesNext, Steady, Clocks
    <3> QED BY <1>0, <2>1, <2>3, <3>1, DispatchTimes
  <2> QED BY <2>1, <2>2, <2>3 DEF CompletionTakesNext
<1>6. CASE (PlanStep \/ Launch) /\ UNCHANGED schedulerVars
  BY <1>1, <1>6, PlanFrame DEF Launch
<1>7. CASE \E p \in Proc : ProcessNext(p) \/ Reap(p)
  BY <1>1, <1>7, ProcessFrame DEF Reap, ReapProcess
<1>8. CASE ReapScheduler
  BY <1>1, <1>8 DEF ReapScheduler, sharedVars
<1>9. CASE Tick
  <2>1. clk' = clk + 1 /\ UNCHANGED schedulerVars /\ (Timely => ~Reading)
    BY <1>9 DEF Tick, SchedulerSettled, Alive, Reading
  <2> QED BY <1>0, <2>1 DEF Clocks, Deciding, Idle, Reading, LoopTime, schedulerVars
<1> QED BY <1>2, <1>3, <1>4, <1>5, <1>6, <1>7, <1>8, <1>9, ClocksQuiet, NextCases
--------------------------------------------------------------------------------
(***************************************************************************)
(* Stamps: the times in the PCBs.                                          *)
(***************************************************************************)
LEMMA LoopTimeType ==
  ASSUME IInv
  PROVE  LoopTime \in -1..MaxClk /\ LoopTime <= clk
  BY DEF IInv, Types, Clocks, LoopTime

LEMMA StampedKept ==
  ASSUME IInv, NEW p \in Proc,
         pcb'[p].start = pcb[p].start, pcb'[p].waiting = pcb[p].waiting,
         pcb'[p].last_prempt = pcb[p].last_prempt,
         job' = job, Launched(p) => Launched(p)',
         clk' \in Nat, clk <= clk',
         LoopTime' \in {LoopTime, -1, clk} \/ pcb[p].start = None,
         p = current_process' /\ p \notin ReadySet' =>
           p = current_process /\ p \notin ReadySet /\ time_slice_start' = time_slice_start,
         p \in ReadySet' /\ pcb[p].start # None => p \in ReadySet
  PROVE  Stamped(p)'
<1>0. /\ clk \in Nat /\ LoopTime \in Int /\ LoopTime <= clk /\ None \notin Int
      /\ pcb[p].start \in Time /\ pcb[p].last_prempt \in Time
  BY Numbers, LoopTimeType DEF IInv
<1>1. Stamped(p)
  BY DEF IInv, Stamps
<1>2. Past(pcb[p].start)' /\ Past(pcb[p].last_prempt)'
  BY <1>0, <1>1 DEF Past, Time, Stamped
<1>3. Steady => WaitStamped(p)'
  BY <1>1 DEF Stamped, WaitStamped
<1> QED BY <1>1, <1>2, <1>3 DEF Stamped

\* The process that gets the CPU at time now: its wait ends there.
LEMMA StampedDispatch ==
  ASSUME IInv, NEW now \in 0..MaxClk, now = clk \/ now = LoopTime,
         NEW p \in ReadySet, Dispatch(p, now), p \notin ReadySet',
         Steady => LoopTime' = now, UNCHANGED <<job, clk>>, Launched(p)'
  PROVE  Stamped(p)'
<1> USE DEF IInv
<1>0. p \in Proc
  BY ReadyInProc DEF SchedulerPlaces
<1>1. /\ clk \in Nat /\ None \notin Int /\ MaxClk \in Nat /\ now <= clk
      /\ pcb[p].start \in Time /\ pcb[p].last_prempt \in Time
      /\ pcb[p].waiting \in Int /\ job[p].arrival \in Nat
  BY <1>0, Numbers, ConstantTypes, LoopTimeType
<1>2. /\ current_process' = p /\ time_slice_start' = now
      /\ pcb'[p].last_prempt = pcb[p].last_prempt
      /\ IF pcb[p].start = None
         THEN pcb'[p].start = now /\ pcb'[p].waiting = now - job[p].arrival
         ELSE pcb'[p].start = pcb[p].start /\ pcb'[p].waiting = WaitToResume(p, now)
  BY <1>0, DispatchTypes
<1>3. Stamped(p)
  BY <1>0 DEF Stamps
<1>4. now # None /\ now # -1 /\ now \in Int
  BY <1>1
<1>5. CASE pcb[p].start = None
  <2>1. /\ pcb'[p].start = now /\ pcb'[p].waiting = now - job[p].arrival
        /\ pcb'[p].last_prempt = None
    BY <1>2, <1>3, <1>5 DEF Stamped
  <2>2. Past(pcb[p].start)' /\ Past(pcb[p].last_prempt)'
    BY <1>1, <1>4, <2>1 DEF Past
  <2>3. pcb'[p].waiting \in pcb'[p].start - job[p].arrival .. MaxClk - job[p].arrival
    BY <1>1, <2>1
  <2>4. WaitStamped(p)'
    BY <1>1, <1>2, <2>1, <2>3 DEF WaitStamped
  <2> QED BY <1>4, <2>1, <2>2, <2>4 DEF Stamped
<1>6. CASE pcb[p].start # None
  <2>1. /\ pcb[p].last_prempt \in 0..MaxClk /\ pcb[p].last_prempt # None
        /\ pcb[p].start \in 0..MaxClk
    BY <1>1, <1>3, <1>6 DEF Stamped, Time
  <2>2. /\ pcb'[p].waiting = pcb[p].waiting + now - pcb[p].last_prempt
        /\ pcb'[p].start = pcb[p].start /\ pcb'[p].last_prempt = pcb[p].last_prempt
    BY <1>1, <1>2, <1>6, <2>1 DEF WaitToResume
  <2>3. Past(pcb[p].start)' /\ Past(pcb[p].last_prempt)'
    BY <1>1, <1>3, <1>4, <1>6, <2>1, <2>2 DEF Stamped, Past
  <2>4. ASSUME Steady PROVE WaitStamped(p)'
    <3>1. pcb[p].last_prempt <= now /\ pcb[p].start <= now
      BY <1>1, <1>3, <1>4, <1>6, <2>1, <2>4 DEF Stamped, Past
    <3>2. /\ pcb[p].waiting >= pcb[p].start - job[p].arrival
          /\ pcb[p].waiting <= pcb[p].last_prempt - job[p].arrival
          /\ pcb[p].start <= pcb[p].last_prempt
      BY <1>1, <1>3, <1>6, <2>1, <2>4 DEF Stamped, WaitStamped
    <3>3. pcb'[p].waiting \in pcb[p].start - job[p].arrival .. now - job[p].arrival
      BY <1>1, <1>4, <2>1, <2>2, <3>1, <3>2
    <3> QED BY <1>1, <1>2, <1>6, <2>1, <2>2, <3>2, <3>3 DEF WaitStamped
  <2> QED BY <1>3, <1>6, <2>1, <2>2, <2>3, <2>4 DEF Stamped
<1> QED BY <1>5, <1>6

LEMMA StampsQuiet ==
  ASSUME IInv, QuietStep
  PROVE  Stamps'
<1> USE DEF IInv
<1>1. SUFFICES ASSUME NEW p \in Proc PROVE Stamped(p)'
  BY DEF Stamps
<1>2. /\ UNCHANGED <<job, clk, life, current_process, rr_queue, ready_Heap, time_slice_start>>
      /\ ReadySet' = ReadySet
  BY QuietFrame, ReadyKept
<1>3. LoopTime' \in {LoopTime, -1, clk} \/ pcb[p].start = None
  BY QuietTimes DEF Clocks
<1>4. /\ clk \in Nat /\ clockValue \in Int /\ None \notin Int
      /\ pcb[p].start \in Time /\ pcb[p].last_prempt \in Time
  BY Numbers
<1>5. Stamped(p)
  BY DEF Stamps
<1>6. CASE pcb'[p].last_prempt = pcb[p].last_prempt
  BY <1>2, <1>3, <1>4, <1>6, QuietStamps, StampedKept DEF Launched
<1>7. CASE /\ Preempt /\ pcb'[p].last_prempt = clockValue
           /\ clockValue' = clockValue /\ p = current_process
  <2>1. /\ pcb[p].start # None /\ clockValue # None /\ clockValue <= clk /\ p \notin ReadySet
        /\ clockValue # -1 /\ LoopTime = clockValue
        /\ at' \in {"fault", "stop"} /\ LoopTime' = clockValue
    BY <1>4, <1>7 DEF Clocks, Idle, Control, Preempt, Step, SchedulerPlaces, Deciding, Reading,
                      LoopTime
  <2>2. pcb'[p].start = pcb[p].start /\ pcb'[p].waiting = pcb[p].waiting
    BY QuietStamps
  <2>3. Past(pcb[p].last_prempt)' /\ Past(pcb[p].start)'
    BY <1>2, <1>4, <1>5, <1>7, <2>1, <2>2 DEF Stamped, Past
  <2>4. Steady => pcb[p].start <= clockValue
    BY <1>4, <1>5, <2>1 DEF Stamped, Past
  <2>5. Steady => WaitStamped(p)'
    BY <1>2, <1>5, <1>7, <2>1, <2>2, <2>4 DEF Stamped, WaitStamped
  <2> QED BY <1>2, <1>5, <1>7, <2>1, <2>2, <2>3, <2>5 DEF Stamped, Launched
<1> QED BY <1>6, <1>7, QuietStamps

LEMMA StampsScheduler ==
  ASSUME IInv, Receive \/ StopVictim \/ Pick \/ HandleProcessCompletion
  PROVE  Stamps'
<1> USE DEF IInv
<1>1. SUFFICES ASSUME NEW p \in Proc PROVE Stamped(p)'
  BY DEF Stamps
<1>2. UNCHANGED <<job, clk, life>> /\ (Launched(p)' <=> Launched(p))
  BY SchedulerFrame DEF Launched
<1>3. /\ clk \in 0..MaxClk /\ clk \in Nat /\ clockValue \in -1..MaxClk /\ None \notin Int
      /\ LoopTime \in -1..MaxClk /\ LoopTime <= clk
      /\ pcb[p].start \in Time /\ pcb[p].last_prempt \in Time /\ pcb[p].waiting \in Int
      /\ ReadySet \subseteq Proc /\ ReadyTypes
  BY Numbers, ReadyInProc, LoopTimeType DEF SchedulerPlaces, Types
<1>4. Stamped(p)
  BY DEF Stamps
<1>5. CASE Receive
  <2>1. /\ Head(msgq) \in Proc /\ Head(msgq) # current_process /\ Head(msgq) \notin ReadySet
        /\ ReadySet' = ReadySet \cup {Head(msgq)}
        /\ pcb' = [pcb EXCEPT ![Head(msgq)] = NewPCB(Head(msgq))]
        /\ LoopTime' = LoopTime /\ UNCHANGED <<current_process, time_slice_start>>
    BY <1>5, ReceivePlaces DEF Receive, SchedulerPlaces, Step, Reading, LoopTime
  <2>2. CASE p = Head(msgq)
    <3>1. pcb'[p] = NewPCB(p)
      BY <2>1, <2>2 DEF Types
    <3>2. pcb'[p].start = None /\ pcb'[p].waiting = 0 /\ pcb'[p].last_prempt = None
      BY <3>1 DEF NewPCB
    <3> QED BY <2>1, <2>2, <3>2 DEF Stamped, WaitStamped, Past
  <2>3. CASE p # Head(msgq)
    <3>1. pcb'[p] = pcb[p]
      BY <2>1, <2>3 DEF Types
    <3> QED BY <1>2, <1>3, <2>1, <2>3, <3>1, StampedKept
  <2> QED BY <2>2, <2>3
<1>6. CASE StopVictim
  <2>1. /\ ReadySet' = ReadySet \cup {current_process}
        /\ UNCHANGED <<pcb, clockValue, current_process, time_slice_start>> /\ at = "stop"
        /\ LoopTime = clockValue /\ LoopTime' = clockValue
    BY <1>6, StopPlaces DEF StopVictim, Step, Reading, LoopTime
  <2>2. CASE p = current_process
    <3>1. /\ pcb[p].last_prempt = clockValue /\ time_slice_start \in Int
          /\ p \notin ReadySet /\ pcb[p].start # None /\ job[p].arrival \in Nat
          /\ Steady => time_slice_start <= clockValue
      BY <1>3, <2>1, <2>2, JobTypes, Numbers DEF Clocks, SchedulerPlaces, Control
    <3>2. Past(pcb[p].start)' /\ Past(pcb[p].last_prempt)'
      BY <1>2, <1>4, <2>1 DEF Stamped, Past
    <3>3. Steady => pcb[p].waiting <= clockValue - job[p].arrival
      BY <1>3, <1>4, <2>2, <3>1 DEF Stamped, WaitStamped
    <3>4. Steady => WaitStamped(p)'
      BY <1>2, <1>3, <1>4, <2>1, <2>2, <3>1, <3>3 DEF Stamped, WaitStamped
    <3> QED BY <1>2, <1>3, <1>4, <2>1, <2>2, <3>1, <3>2, <3>4 DEF Stamped
  <2>3. CASE p # current_process
    BY <1>2, <1>3, <2>1, <2>3, StampedKept
  <2> QED BY <2>2, <2>3
<1>7. ASSUME NEW now \in 0..MaxClk, now = clk \/ now = LoopTime, Steady => LoopTime' = now,
             LoopTime' \in {LoopTime, clk},
             NEW q \in ReadySet, Dispatch(q, now), ReadySet' = ReadySet \ {q}
      PROVE  Stamped(p)'
  <2>1. CASE p = q
    <3>1. Launched(p)' /\ p \notin ReadySet'
      BY <1>2, <1>7, <2>1 DEF SchedulerPlaces
    <3> QED BY <1>2, <1>7, <2>1, <3>1, StampedDispatch
  <2>2. CASE p # q
    <3>1. current_process' = q /\ pcb'[p] = pcb[p]
      BY <1>3, <1>7, <2>2, DispatchTypes
    <3> QED BY <1>2, <1>3, <1>7, <2>2, <3>1, StampedKept
  <2> QED BY <2>1, <2>2
<1>8. ASSUME current_process' = None, ReadySet' = ReadySet, UNCHANGED pcb,
             LoopTime' \in {LoopTime, clk}
      PROVE  Stamped(p)'
  BY <1>2, <1>3, <1>8, ConstantTypes, StampedKept
<1>9. CASE Pick
  <2>1. /\ clockValue' = clockValue /\ clockValue \in 0..MaxClk
        /\ LoopTime = clockValue /\ LoopTime' = clockValue
    BY <1>3, <1>9, PickFrame DEF Clocks, Deciding, Reading, LoopTime
  <2> QED BY <1>3, <1>7, <1>8, <1>9, <2>1, PickCases
<1>10. CASE HandleProcessCompletion
  <2>1. /\ clockValue' = clk /\ (CompletionLeavesIdle \/ CompletionTakesNext)
        /\ UNCHANGED <<clk, current_time>> /\ (Reading' => Reading)
        /\ LoopTime' = IF Reading' THEN LoopTime ELSE clk
    BY <1>10, CompletionFrame, CompletionPlaces DEF Reading, LoopTime
  <2>2. CASE CompletionLeavesIdle
    <3>1. current_process' = None /\ UNCHANGED pcb /\ ReadySet' = ReadySet
      BY <2>2, ReadyKept DEF CompletionLeavesIdle
    <3> QED BY <1>8, <2>1, <3>1
  <2>3. CASE CompletionTakesNext
    <3>1. Steady => LoopTime' = clk
      BY <2>1, <2>3 DEF CompletionTakesNext, Steady, Clocks, LoopTime
    <3> QED BY <1>3, <1>7, <2>1, <2>3, <3>1 DEF CompletionTakesNext
  <2> QED BY <2>1, <2>2, <2>3
<1> QED BY <1>5, <1>6, <1>9, <1>10

LEMMA StampsStep ==
  ASSUME IInv, Next
  PROVE  Stamps'
<1> USE DEF IInv
<1>1. ASSUME clk' \in {clk, clk + 1}, job' = job, UNCHANGED schedulerVars,
             \A p \in Proc : Launched(p) => Launched(p)'
      PROVE  Stamps'
  <2>1. SUFFICES ASSUME NEW p \in Proc PROVE Stamped(p)'
    BY DEF Stamps
  <2>2. /\ UNCHANGED <<pcb, current_process, time_slice_start, rr_queue, ready_Heap>>
        /\ ReadySet' = ReadySet /\ LoopTime' = LoopTime
    BY <1>1, ReadyKept DEF schedulerVars, Reading, LoopTime
  <2>3. clk \in Nat /\ clk' \in Nat /\ clk <= clk'
    BY <1>1, Numbers
  <2> QED BY <1>1, <2>2, <2>3, StampedKept DEF Stamps
<1>2. ASSUME NEW p \in Proc, ProcessNext(p) PROVE Stamps'
  BY <1>1, <1>2, ProcessFrame, ProcessKeepsLife DEF Launched, Types
<1>3. ASSUME NEW p \in Proc, Reap(p) PROVE Stamps'
  BY <1>1, <1>3 DEF Reap, ReapProcess, Launched, Types
<1>4. CASE PlanStep /\ UNCHANGED schedulerVars
  BY <1>1, <1>4, PlanFrame DEF Launched
<1>5. CASE Launch /\ UNCHANGED schedulerVars
  <2>1. life' = [life EXCEPT ![booked] = "spin"] /\ UNCHANGED <<job, clk>>
    BY <1>5 DEF Launch
  <2> QED BY <1>1, <1>5, <2>1 DEF Launched, Types
<1>6. CASE ReapScheduler \/ Tick
  BY <1>1, <1>6 DEF ReapScheduler, Tick, sharedVars, Launched
<1> QED BY <1>2, <1>3, <1>4, <1>5, <1>6, NextCases, StampsQuiet, StampsScheduler
--------------------------------------------------------------------------------
(***************************************************************************)
(* Completions: what is stamped of a process that has finished stays.      *)
(***************************************************************************)
LEMMA CompletedKept ==
  ASSUME IInv, NEW p \in Proc, Finished(p), finish'[p] = finish[p], job' = job,
         pcb'[p].start = pcb[p].start, pcb'[p].waiting = pcb[p].waiting,
         pcb'[p].last_prempt = pcb[p].last_prempt, clk' \in Nat, clk <= clk'
  PROVE  Completed(p)'
<1>1. Completed(p) /\ finish[p] \in 0..MaxClk /\ clk \in Nat
  BY Numbers DEF IInv, Completions, Finished, Types, Time
<1> QED BY <1>1 DEF Completed

LEMMA CompletionsScheduler ==
  ASSUME IInv, QuietStep \/ Receive \/ StopVictim \/ Pick
  PROVE  Completions'
<1> USE DEF IInv
<1>1. /\ UNCHANGED <<job, clk, finish>> /\ clk \in Nat /\ clk <= clk
      /\ ReadySet \subseteq Proc /\ Types
  BY Numbers, QuietFrame, SchedulerFrame, PickFrame, ReadyInProc
     DEF Receive, StopVictim, SchedulerPlaces
<1>2. SUFFICES ASSUME NEW p \in Proc, Finished(p)
               PROVE  /\ pcb'[p].start = pcb[p].start /\ pcb'[p].waiting = pcb[p].waiting
                      /\ pcb'[p].last_prempt = pcb[p].last_prempt
  BY <1>1, CompletedKept DEF Completions, Finished
<1>3. p # current_process /\ p \notin ReadySet /\ p \notin Range(msgq)
  BY <1>2 DEF SchedulerPlaces
<1>4. CASE QuietStep
  BY <1>3, <1>4, QuietStamps
<1>5. CASE Receive
  <2>1. Head(msgq) # p /\ pcb' = [pcb EXCEPT ![Head(msgq)] = NewPCB(Head(msgq))]
    BY <1>3, <1>5, ReceivePlaces DEF Receive
  <2> QED BY <1>1, <2>1 DEF Types
<1>6. CASE StopVictim
  BY <1>6 DEF StopVictim
<1>7. CASE Pick
  <2>1. clockValue \in 0..MaxClk
    BY <1>7, PickFrame DEF Types, Clocks, Deciding
  <2>2. ASSUME NEW q \in ReadySet, Dispatch(q, clockValue) PROVE pcb'[p] = pcb[p]
    BY <1>1, <1>3, <2>1, <2>2, DispatchTypes
  <2> QED BY <1>7, <2>2, PickCases DEF SchedulerPlaces
<1> QED BY <1>4, <1>5, <1>6, <1>7

\* The completion handler: the current process finishes now, after all its stamps.
LEMMA CompletionsHandler ==
  ASSUME IInv, HandleProcessCompletion
  PROVE  Completions'
<1> USE DEF IInv
<1> DEFINE c == current_process
<1>1. /\ UNCHANGED <<job, clk>> /\ c \in Proc /\ Completes
      /\ CompletionLeavesIdle \/ CompletionTakesNext
      /\ ReadySet \subseteq Proc /\ Types /\ c \notin ReadySet
  BY CompletionFrame, CompletionPlaces, ReadyInProc DEF SchedulerPlaces, Signals
<1>2. /\ clk \in 0..MaxClk /\ clk \in Nat /\ None \notin Int
      /\ pcb[c].start \in Time /\ pcb[c].last_prempt \in Time /\ pcb[c].waiting \in Int
      /\ job[c].arrival \in Nat /\ time_slice_start \in Int
  BY <1>1, Numbers DEF Types
<1>3. finish' = [finish EXCEPT ![c] = clk] /\ finish \in [Proc -> Time]
  BY <1>1 DEF Completes, Types
<1>4. ASSUME NEW p \in Proc, p \notin ReadySet PROVE pcb'[p] = pcb[p]
  <2>1. CASE CompletionLeavesIdle
    BY <2>1 DEF CompletionLeavesIdle
  <2>2. ASSUME NEW q \in ReadySet, Dispatch(q, clk) PROVE pcb'[p] = pcb[p]
    BY <1>1, <1>2, <1>4, <2>2, DispatchTypes
  <2> QED BY <1>1, <2>1, <2>2 DEF CompletionTakesNext
<1>5. SUFFICES ASSUME NEW p \in Proc, Finished(p)' PROVE Completed(p)'
  BY DEF Completions
<1>6. CASE p = c
  <2>1. /\ pcb'[c] = pcb[c] /\ finish'[c] = clk /\ clk' = clk /\ job' = job
        /\ pcb[c].start # None /\ time_slice_start <= clk
        /\ Stamped(c)
    <3>1. pcb'[c] = pcb[c] /\ finish'[c] = clk
      BY <1>1, <1>3, <1>4
    <3>2. ~Idle /\ Stamped(c)
      BY <1>1, ConstantTypes DEF Idle, Stamps
    <3>3. pcb[c].start # None /\ time_slice_start <= clk
      BY <3>2 DEF Clocks
    <3> QED BY <1>1, <3>1, <3>2, <3>3
  <2>2. /\ pcb[c].start <= clk
        /\ pcb[c].last_prempt # None => pcb[c].last_prempt <= clk
    BY <2>1 DEF Stamped, Past
  <2>3. Steady => pcb[c].waiting <= time_slice_start - job[c].arrival
    BY <1>1, <2>1 DEF Stamped, WaitStamped
  <2> QED BY <1>2, <1>6, <2>1, <2>2, <2>3 DEF Completed
<1>7. CASE p # c
  <2>1. finish'[p] = finish[p] /\ Finished(p)
    BY <1>3, <1>5, <1>7 DEF Finished
  <2>2. pcb'[p] = pcb[p]
    BY <1>4, <2>1 DEF SchedulerPlaces
  <2> QED BY <1>1, <1>2, <2>1, <2>2, CompletedKept
<1> QED BY <1>6, <1>7

LEMMA CompletionsStep ==
  ASSUME IInv, Next
  PROVE  Completions'
<1>1. ASSUME clk' \in {clk, clk + 1}, job' = job, UNCHANGED schedulerVars
      PROVE  Completions'
  <2>1. UNCHANGED <<pcb, finish>> /\ clk \in Nat /\ clk' \in Nat /\ clk <= clk'
    BY <1>1, Numbers DEF schedulerVars, IInv
  <2> QED BY <1>1, <2>1, CompletedKept DEF Completions, Finished
<1>2. CASE \E p \in Proc : ProcessNext(p) \/ Reap(p)
  BY <1>1, <1>2, ProcessFrame DEF Reap, ReapProcess
<1>3. CASE (PlanStep \/ Launch) /\ UNCHANGED schedulerVars
  BY <1>1, <1>3, PlanFrame DEF Launch
<1>4. CASE ReapScheduler \/ Tick
  BY <1>1, <1>4 DEF ReapScheduler, Tick, sharedVars
<1> QED BY <1>2, <1>3, <1>4, NextCases, CompletionsScheduler, CompletionsHandler
--------------------------------------------------------------------------------
(***************************************************************************)
(* Starts: with HPF and RR no process starts before it has arrived.        *)
(***************************************************************************)
LEMMA ReadyHasArrived ==
  ASSUME IInv, NEW p \in Proc, Launched(p)
  PROVE  job[p].arrival <= clk /\ job[p].arrival \in Nat
<1>1. p \notin pq
  BY DEF IInv, GeneratorPlaces
<1>2. job[p].arrival <= last_tick /\ last_tick \in -1..clk
  BY <1>1 DEF IInv, Arrivals
<1> QED BY <1>2, Numbers DEF IInv

LEMMA StartsStep ==
  ASSUME IInv, Next
  PROVE  Starts'
<1> USE DEF IInv
<1>1. SUFFICES ASSUME Algorithm # "SRTN"
               PROVE  (Deciding \/ Reading =>
                         \A p \in ReadySet : job[p].arrival <= LoopTime)'
                      /\ StartsAfterArrival'
  BY DEF Starts
<1>2. /\ clk \in 0..MaxClk /\ clk \in Nat /\ clockValue \in -1..MaxClk /\ None \notin Int
      /\ ReadySet \subseteq Proc /\ ReadyTypes
      /\ StartsAfterArrival
      /\ Deciding \/ Reading => \A p \in ReadySet : job[p].arrival <= LoopTime
  BY <1>1, Numbers, ReadyInProc DEF SchedulerPlaces, Types, Starts
<1>3. \A p \in ReadySet : job[p].arrival <= clk
  BY <1>2, ReadyHasArrived DEF SchedulerPlaces
<1>4. ASSUME UNCHANGED <<job, schedulerVars>> PROVE Starts'
  <2>1. UNCHANGED <<pcb, at, clockValue, current_time>> /\ ReadySet' = ReadySet
    BY <1>4, ReadyKept DEF schedulerVars
  <2> QED BY <1>2, <1>4, <2>1 DEF Starts, Deciding, Reading, LoopTime, StartsAfterArrival
<1>5. CASE QuietStep
  <2>1. job' = job /\ ReadySet' = ReadySet
    BY <1>5, QuietFrame, ReadyKept
  <2>2. \A p \in Proc : pcb'[p].start = pcb[p].start
    BY <1>5, QuietStamps
  <2>3. Deciding' \/ Reading' =>
          LoopTime' = clk \/ (LoopTime' = LoopTime /\ (Deciding \/ Reading))
    BY <1>5, QuietTimes
  <2> QED BY <1>2, <1>3, <2>1, <2>2, <2>3 DEF StartsAfterArrival
<1>6. CASE Receive
  <2>1. /\ Head(msgq) \in Proc /\ pcb' = [pcb EXCEPT ![Head(msgq)] = NewPCB(Head(msgq))]
        /\ at' = "check" /\ job' = job
    BY <1>1, <1>6, ReceivePlaces DEF Receive
  <2>2. \A p \in Proc : pcb'[p].start = None \/ pcb'[p] = pcb[p]
    BY <2>1 DEF Types, NewPCB
  <2> QED BY <1>2, <2>1, <2>2 DEF Deciding, Reading, StartsAfterArrival
<1>7. CASE StopVictim
  <2>1. /\ ReadySet' = ReadySet \cup {current_process} /\ current_process \in Proc
        /\ UNCHANGED <<job, pcb, clockValue>> /\ at = "stop" /\ at' = "pick"
        /\ LoopTime = clockValue /\ LoopTime' = clockValue
    BY <1>7, StopPlaces DEF StopVictim, Step, Reading, LoopTime
  <2>2. /\ pcb[current_process].start # None /\ clockValue # -1
        /\ pcb[current_process].start \in Time /\ job[current_process].arrival \in Nat
    BY <2>1, Numbers DEF Clocks, Idle, Control, Deciding
  <2>3. pcb[current_process].start \in 0..clockValue
    BY <1>1, <1>2, <2>1, <2>2 DEF Stamps, Stamped, Past, Time, Steady
  <2>4. job[current_process].arrival <= clockValue
    BY <1>2, <2>1, <2>2, <2>3 DEF StartsAfterArrival
  <2> QED BY <1>2, <2>1, <2>4 DEF Deciding, Reading, StartsAfterArrival
<1>8. CASE Pick
  <2>1. /\ at = "pick" /\ at' \in {"check", "post"} /\ UNCHANGED <<job, clockValue>>
        /\ clockValue \in 0..MaxClk /\ LoopTime = clockValue
    BY <1>2, <1>8, PickFrame DEF Clocks, Deciding, Reading, LoopTime
  <2>2. ASSUME NEW q \in ReadySet, Dispatch(q, clockValue) PROVE StartsAfterArrival'
    <3>1. /\ \A p \in Proc : p # q => pcb'[p] = pcb[p]
          /\ pcb'[q].start = clockValue \/ pcb'[q].start = pcb[q].start
      BY <1>2, <2>1, <2>2, DispatchTypes
    <3> QED BY <1>2, <2>1, <3>1 DEF StartsAfterArrival, Deciding
  <2>3. UNCHANGED pcb => StartsAfterArrival'
    BY <1>2, <2>1 DEF StartsAfterArrival
  <2> QED BY <1>2, <1>8, <2>1, <2>2, <2>3, PickCases DEF Deciding, Reading
<1>9. CASE HandleProcessCompletion
  <2>1. /\ job' = job /\ CompletionLeavesIdle /\ (Reading' => Reading)
        /\ LoopTime' = IF Reading' THEN LoopTime ELSE clk
    BY <1>1, <1>9, CompletionFrame, CompletionPlaces DEF CompletionTakesNext, Reading, LoopTime
  <2>2. UNCHANGED pcb /\ ReadySet' = ReadySet
    BY <2>1, ReadyKept DEF CompletionLeavesIdle
  <2> QED BY <1>2, <1>3, <2>1, <2>2 DEF StartsAfterArrival
<1>10. CASE \E p \in Proc : ProcessNext(p) \/ Reap(p)
  BY <1>4, <1>10, ProcessFrame, <1>1 DEF Reap, ReapProcess, Starts
<1>11. CASE (PlanStep \/ Launch) /\ UNCHANGED schedulerVars
  BY <1>4, <1>11, PlanFrame, <1>1 DEF Launch, Starts
<1>12. CASE ReapScheduler \/ Tick
  BY <1>4, <1>12, <1>1 DEF ReapScheduler, Tick, sharedVars, Starts
<1> QED BY <1>5, <1>6, <1>7, <1>8, <1>9, <1>10, <1>11, <1>12, NextCases
--------------------------------------------------------------------------------
(***************************************************************************)
(* The inductive invariant.                                                *)
(***************************************************************************)
LEMMA InitHolds == Init => IInv
<1> SUFFICES ASSUME Init PROVE IInv
  OBVIOUS
<1>1. /\ job \in Workloads /\ job \in [Proc -> Job]
      /\ clk = 0 /\ msgq = << >> /\ sync_sem = [p \in Proc |-> 0] /\ usr2 = FALSE
      /\ shm = [p \in Proc |-> job[p].exec] /\ life = [p \in Proc |-> "unborn"]
  BY WorkloadsAssumption DEF Init, SharedInit
<1>2. /\ at = "boot" /\ current_process = None /\ rr_queue = << >> /\ ready_Heap = {}
      /\ pcb = [p \in Proc |-> NewPCB(p)]
      /\ clockValue = -1 /\ current_time = -1 /\ time_slice_start = -1 /\ logged = -1
      /\ finish = [p \in Proc |-> None]
  BY DEF Init, SchedulerInit
<1>3. last_tick = -1 /\ pq = Proc
  BY DEF Init, GeneratorInit
<1>4. \A p \in Proc : pcb[p].start = None /\ pcb[p].waiting = 0 /\ pcb[p].last_prempt = None
  BY <1>2 DEF NewPCB
<1>5. Distinct(<< >>, Proc) /\ Range(<< >>) = {}
  BY EmptyQueue
<1>6. ReadySet = {}
  BY <1>2, <1>5 DEF ReadySet
<1>7. \A p \in Proc : ~Launched(p) /\ ~Ended(p) /\ ~Finished(p) /\ p # None
  BY <1>1, <1>2, ConstantTypes DEF Launched, Ended, Finished
<1>8. SchedulerPlaces
  BY <1>1, <1>2, <1>5, <1>6, <1>7 DEF SchedulerPlaces, ReadyTypes
<1>9. Control /\ Signals
  BY <1>1, <1>2, <1>7 DEF Control, Signals, Idle
<1>10. Working
  <2>1. \A p \in Proc : job[p].exec \in Nat
    BY <1>1 DEF Job
  <2> QED BY <1>1, <1>7, <2>1, ConstantTypes DEF Working
<1>11. Arrivals
  BY <1>1, <1>3 DEF Arrivals
<1>12. Clocks
  BY <1>1, <1>2, <1>4 DEF Clocks, Idle, Deciding, Reading, LoopTime
<1>13. Stamps
  BY <1>2, <1>4, <1>6, <1>7 DEF Stamps, Stamped, WaitStamped, Past
<1>14. Starts /\ Completions
  BY <1>2, <1>4, <1>7 DEF Starts, Completions, Deciding, Reading, StartsAfterArrival
<1> QED BY <1>8, <1>9, <1>10, <1>11, <1>12, <1>13, <1>14, TypesInit, GeneratorPlacesInit
        DEF IInv

LEMMA StutterHolds == IInv /\ UNCHANGED vars => IInv'
<1> SUFFICES ASSUME IInv, UNCHANGED vars PROVE IInv'
  OBVIOUS
<1> USE DEF IInv
<1>1. UNCHANGED <<sharedVars, processVars, schedulerVars, generatorVars>>
  BY DEF vars
<1>2. /\ UNCHANGED <<job, clk, semid, msgq, sync_sem, shm, life, stopped, usr1, usr2, seen>>
      /\ UNCHANGED <<at, caller, current_process, rr_queue, ready_Heap, pcb, clockValue,
                     current_time, time_slice_start, start_time, generator_finished, finish,
                     logged>>
      /\ UNCHANGED <<gen, last_tick, pq, waiting_queue, temp_queue, once, roused, mem, booked>>
  BY <1>1 DEF sharedVars, processVars, schedulerVars, generatorVars
<1>3. Types'
  BY <1>2 DEF Types
<1>4. GeneratorPlaces'
  BY <1>2, GeneratorPlacesKept DEF Launched, GeneratorPlaces
<1>5. ReadySet' = ReadySet /\ SchedulerPlaces'
  BY <1>2, ReadyKept, SchedulerPlacesKept, ConstantTypes DEF Launched
<1>6. Control' /\ Signals'
  BY <1>2 DEF Control, Signals, Idle, Ended, Finished, Alive
<1>7. Working' /\ Arrivals'
  BY <1>2 DEF Working, Ended, Finished, Arrivals
<1>8. Clocks'
  BY <1>2 DEF Clocks, Idle, Deciding, Reading, LoopTime
<1>9. Stamps'
  BY <1>2, <1>5 DEF Stamps, Stamped, WaitStamped, Past, Launched, Reading, LoopTime
<1>10. Starts' /\ Completions'
  BY <1>2, <1>5 DEF Starts, Deciding, Reading, LoopTime, StartsAfterArrival, Completions,
                    Completed, Finished
<1> QED BY <1>3, <1>4, <1>5, <1>6, <1>7, <1>8, <1>9, <1>10

LEMMA StepHolds == IInv /\ [Next]_vars => IInv'
<1>1. ASSUME IInv, Next PROVE IInv'
  BY <1>1, TypesStep, GeneratorPlacesStep, SchedulerPlacesStep, ControlStep, SignalsStep,
     WorkingStep, ArrivalsStep, ClocksStep, StampsStep, CompletionsStep, StartsStep DEF IInv
<1> QED BY <1>1, StutterHolds

(***************************************************************************)
(* The inductive invariant of the simulation, for every number of          *)
(* processes, every input file, every algorithm, any quantum, and ticks    *)
(* that come at any moment: every process that has been launched is in     *)
(* exactly one of the message queue, the ready queue and the CPU, or is    *)
(* finished; SIGUSR2 is pending only for the current process.              *)
(***************************************************************************)
THEOREM InvariantHolds == Spec => []IInv
  BY InitHolds, StepHolds, PTL DEF Spec
--------------------------------------------------------------------------------
(***************************************************************************)
(* No completion is lost: a process that has announced its end is retired, *)
(* or its signal is still pending for the handler of the scheduler.        *)
(***************************************************************************)
THEOREM NoCompletionLost == Spec => []NotifiedIsRetired
<1>1. IInv => NotifiedIsRetired
  BY DEF IInv, Signals, Ended, Finished, NotifiedIsRetired
<1> QED BY <1>1, InvariantHolds, PTL

(***************************************************************************)
(* With HPF and RR no process starts before it has arrived (with SRTN one  *)
(* can: it is started with the clockValue of the tick before).             *)
(***************************************************************************)
THEOREM NoEarlyStart ==
  ASSUME Algorithm # "SRTN"
  PROVE  Spec => []StartsAfterArrival
<1>1. IInv => StartsAfterArrival
  BY DEF IInv, Starts
<1> QED BY <1>1, InvariantHolds, PTL

LEMMA LogStep ==
  ASSUME Timely
  PROVE  IInv /\ [Next]_vars => [logged' >= logged]_logged
<1> SUFFICES ASSUME IInv, Next, logged' # logged PROVE logged' >= logged
  BY DEF vars, schedulerVars
<1> USE DEF IInv
<1>0. /\ logged \in -1..MaxClk /\ logged <= clk /\ (LoopTime # -1 => logged <= LoopTime)
      /\ clk \in Int
  BY Numbers DEF Types, Clocks
<1>1. CASE QuietStep
  BY <1>1, QuietFrame
<1>2. CASE Receive
  BY <1>2 DEF Receive
<1>3. CASE StopVictim
  BY <1>0, <1>3 DEF StopVictim, Step, Clocks, Deciding, Reading, LoopTime
<1>4. CASE Pick
  <2>1. clockValue # -1 /\ LoopTime = clockValue
    BY <1>4, PickFrame DEF Clocks, Deciding, Reading, LoopTime
  <2> QED BY <1>0, <1>4, <2>1, PickCases DEF SchedulerPlaces, Dispatch
<1>5. CASE HandleProcessCompletion
  BY <1>0, <1>5, CompletionPlaces DEF CompletionLeavesIdle, CompletionTakesNext, Dispatch
<1>6. CASE UNCHANGED schedulerVars
  BY <1>6 DEF schedulerVars
<1> QED BY <1>1, <1>2, <1>3, <1>4, <1>5, <1>6, NextCases, ProcessFrame
        DEF Reap, ReapScheduler, Tick

(***************************************************************************)
(* scheduler.log never goes back in time, although its lines come from the *)
(* main loop and from the signal handler, if no tick comes before the      *)
(* scheduler has done the work of the last one.  Without Timely the main   *)
(* loop can read the clock, a completion be logged in the next tick, and   *)
(* the loop store and log the time that it has read.                       *)
(***************************************************************************)
THEOREM LogNeverGoesBack ==
  ASSUME Timely
  PROVE  Spec => LogIsChronological
  BY InvariantHolds, LogStep, PTL DEF Spec, LogIsChronological

LEMMA StampsAreOrdered == IInv => TimesInOrder
<1> SUFFICES ASSUME IInv, NEW p \in Proc PROVE StampsInOrder(p)
  BY DEF TimesInOrder
<1>1. /\ Stamped(p) /\ (Finished(p) => Completed(p))
      /\ Algorithm # "SRTN" => StartsAfterArrival
  BY DEF IInv, Stamps, Completions, Starts
<1>2. /\ pcb[p].start \in Time /\ pcb[p].last_prempt \in Time /\ pcb[p].waiting \in Int
      /\ job[p].arrival \in Nat /\ clk \in Nat /\ None \notin Int
  BY Numbers DEF IInv
<1>3. pcb[p].start # None =>
        /\ pcb[p].start <= clk
        /\ Algorithm # "SRTN" => job[p].arrival <= pcb[p].start
        /\ Steady => pcb[p].start - job[p].arrival <= pcb[p].waiting
  BY <1>1, <1>2 DEF Stamped, WaitStamped, Past, StartsAfterArrival
<1>4. pcb[p].last_prempt # None =>
        /\ pcb[p].start # None /\ pcb[p].last_prempt <= clk
        /\ Steady => pcb[p].start <= pcb[p].last_prempt
  BY <1>1, <1>2 DEF Stamped, WaitStamped, Past
<1> QED BY <1>1, <1>3, <1>4 DEF StampsInOrder, Completed, Finished

(***************************************************************************)
(* The times of a process are in order, however ticks, signals and         *)
(* programs interleave: no preemption before the start, no finish before   *)
(* either, none of them ahead of the clock.  The waiting time lies between *)
(* the response time and the turnaround time; with SRTN only if no tick    *)
(* comes while the scheduler is at work.                                   *)
(***************************************************************************)
THEOREM TimesAreInOrder == Spec => []TimesInOrder
  BY StampsAreOrdered, InvariantHolds, PTL
================================================================================
