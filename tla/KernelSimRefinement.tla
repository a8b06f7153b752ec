-------------------------- MODULE KernelSimRefinement --------------------------
(***************************************************************************)
(* The simulation implements the two abstract specifications of its parts: *)
(* CpuScheduling, by the scheduler with the simulated processes, and       *)
(* BuddyMemory, by the generator with its SIGCHLD handler.  What is proved *)
(* of them then holds of the simulation.                                   *)
(***************************************************************************)
EXTENDS KernelSimProofs

(***************************************************************************)
(* Memory: each step of KernelSim is a step of BuddyMemory or leaves the   *)
(* memory, the booking and the set of resident processes alone.            *)
(***************************************************************************)
LEMMA ResidentKept ==
  ASSUME \A p \in Proc : life'[p] \in {"unborn", "reaped"} <=> life[p] \in {"unborn", "reaped"}
  PROVE  Resident' = Resident
  BY DEF Resident

LEMMA BookIsAllocate ==
  ASSUME IInv, NEW p \in Proc, ~Launched(p), booked = None, Book(p), UNCHANGED life
  PROVE  Memory!AllocateMemory(p, job[p].mem)
<1>1. p \notin Resident /\ Resident' = Resident
  BY DEF Resident, Launched
<1> QED BY <1>1 DEF Book, Level, Searched, Memory!AllocateMemory

LEMMA RefuseIsAllocateFails ==
  ASSUME IInv, NEW p \in Proc, ~Launched(p), booked = None, Refuse(p), UNCHANGED life
  PROVE  Memory!AllocateFails(p, job[p].mem)
<1>1. p \notin Resident /\ Resident' = Resident
  BY DEF Resident, Launched
<1> QED BY <1>1 DEF Refuse, Fits, Level, Searched, Memory!AllocateFails

LEMMA LaunchIsUpdateId ==
  ASSUME IInv, Launch
  PROVE  booked \in Proc /\ Memory!UpdateId(booked)
<1>1. booked \in Proc /\ life' = [life EXCEPT ![booked] = "spin"]
  BY LaunchPlaces DEF IInv, Launch
<1>2. Resident' = Resident \cup {booked}
  BY <1>1 DEF IInv, Types, Resident
<1>3. \A n \in DOMAIN mem : n \in Memory!BlocksOfId(mem, booked) <=> mem[n].id_from_file = booked
  BY DEF Memory!BlocksOfId
<1>4. /\ booked' = None
      /\ mem' = [n \in DOMAIN mem |->
                   IF n \in Memory!BlocksOfId(mem, booked)
                   THEN [mem[n] EXCEPT !.process_pid = booked] ELSE mem[n]]
  BY <1>3 DEF Launch
<1> QED BY <1>1, <1>2, <1>4 DEF Memory!UpdateId

LEMMA ReapIsDeallocate ==
  ASSUME IInv, NEW p \in Proc, Reap(p)
  PROVE  Memory!DeallocateMemory(p)
<1>1. life[p] = "zombie" /\ life' = [life EXCEPT ![p] = "reaped"] /\ booked' = booked
  BY DEF Reap, ReapProcess
<1>2. p \in Resident /\ Resident' = Resident \ {p}
  BY <1>1 DEF IInv, Types, Resident
<1>3. CASE \E b \in DOMAIN mem : mem[b].process_pid = p
  <2>1. /\ BlockOf(p) \in Memory!BlocksOfPid(mem, p)
        /\ mem' = Memory!merge_buddy_blocks(Unmerged(p), BlockOf(p))
    BY <1>3 DEF Reap, ReapProcess, Freed, BlockOf, Memory!BlocksOfPid
  <2> QED BY <1>1, <1>2, <2>1 DEF Unmerged, Memory!DeallocateMemory
<1>4. CASE ~\E b \in DOMAIN mem : mem[b].process_pid = p
  <2>1. mem' = mem /\ Memory!BlocksOfPid(mem, p) = {}
    BY <1>4 DEF Reap, ReapProcess, Memory!BlocksOfPid
  <2> QED BY <1>1, <1>2, <2>1 DEF Memory!DeallocateMemory
<1> QED BY <1>3, <1>4

LEMMA MemoryStep == IInv /\ [Next]_vars => [Memory!Next]_(Memory!vars)
<1> SUFFICES ASSUME IInv, [Next]_vars PROVE [Memory!Next]_(Memory!vars)
  OBVIOUS
<1> USE DEF IInv, Memory!vars
<1>1. ASSUME NEW p \in Proc, ProcessNext(p) PROVE UNCHANGED Memory!vars
  <2>1. life[p] \notin {"unborn", "reaped"} /\ life'[p] \notin {"unborn", "reaped"}
    BY <1>1 DEF Types, ProcessNext, ProcessStep, Acquire, ReadClk, Work, Notify, Exit, Running, Goto
  <2>2. Resident' = Resident
    BY <1>1, <2>1, ProcessKeepsLife, ResidentKept DEF Types
  <2> QED BY <1>1, <2>2, ProcessFrame DEF restVars
<1>2. ASSUME NEW p \in Proc, Reap(p) PROVE Memory!Next
  BY <1>2, ReapIsDeallocate DEF Memory!Next
<1>3. ASSUME QuietStep \/ Receive \/ StopVictim \/ Pick \/ HandleProcessCompletion,
             UNCHANGED restVars
      PROVE  UNCHANGED Memory!vars
  BY <1>3, SchedulerFrame, ResidentKept DEF restVars
<1>4. CASE Launch
  BY <1>4, LaunchIsUpdateId DEF Memory!Next
<1>5. ASSUME NEW p \in Proc, ~Launched(p), booked = None, Book(p) \/ Refuse(p), UNCHANGED life
      PROVE  Memory!Next
  <2>1. job[p].mem \in Sizes
    BY JobTypes
  <2> QED BY <1>5, <2>1, BookIsAllocate, RefuseIsAllocateFails DEF Memory!Next
<1>6. CASE Serve
  <2>1. Head(waiting_queue) \in Proc /\ ~Launched(Head(waiting_queue)) /\ booked = None
    BY <1>6, TailDistinct DEF Serve, GeneratorPlaces, Waiting
  <2> QED BY <1>5, <1>6, <2>1 DEF Serve, sharedVars
<1>7. CASE Arrive
  <2>1. booked = None /\ UNCHANGED life /\ \E p \in pq : Book(p) \/ Refuse(p)
    BY <1>7 DEF Arrive, Arrived, GeneratorPlaces, sharedVars
  <2> QED BY <1>5, <2>1 DEF GeneratorPlaces
<1>8. CASE Poll \/ ServeDone \/ Post \/ Wake \/ ReapScheduler
  <2>1. UNCHANGED <<life, mem, booked>>
    BY <1>8 DEF Poll, ServeDone, Post, Wake, ReapScheduler, sharedVars
  <2> QED BY <2>1, ResidentKept
<1>9. CASE Tick \/ UNCHANGED vars
  <2>1. UNCHANGED <<life, mem, booked>>
    BY <1>9 DEF Tick, vars, sharedVars, generatorVars
  <2> QED BY <2>1, ResidentKept
<1> QED BY <1>1, <1>2, <1>3, <1>4, <1>6, <1>7, <1>8, <1>9, NextCases DEF PlanStep

(***************************************************************************)
(* The generator and its handler use the allocator only as BuddyMemory     *)
(* allows: every execution of the simulation is one of BuddyMemory.        *)
(***************************************************************************)
THEOREM GeneratorImplementsMemory == Spec => ImplementsBuddyMemory
<1>1. Init => Memory!Init
  BY DEF Init, SharedInit, GeneratorInit, Memory!Init, Resident
<1> QED BY <1>1, InvariantHolds, MemoryStep, PTL
        DEF Spec, ImplementsBuddyMemory, Memory!Spec
--------------------------------------------------------------------------------
(***************************************************************************)
(* The CPU: Receive is Arrive, Pick is Dispatch, StopVictim is Preempt and *)
(* the completion handler is Retire, or Replace when it dispatches itself. *)
(***************************************************************************)
LEMMA StateCases ==
  ASSUME IInv, NEW p \in Proc
  PROVE  /\ p \in Range(msgq) => StateOf(p) = "new"
         /\ p \in ReadySet => StateOf(p) = "ready"
         /\ p = current_process /\ at # "pick" => StateOf(p) = "running"
         /\ StateOf(p) = "running" => p = current_process /\ p \notin ReadySet
  BY DEF IInv, SchedulerPlaces, Finished, StateOf

LEMMA OneMoves ==
  ASSUME NEW t \in Proc, NEW from, NEW to, StateOf(t) = from, StateOf(t)' = to,
         \A p \in Proc : p # t => StateOf(p)' = StateOf(p),
         \A p \in Proc : WorkLeft(p)' = WorkLeft(p)
  PROVE  Cpu!Move(t, from, to)
  BY DEF Cpu!Move

LEMMA NobodyMoves ==
  ASSUME \A p \in Proc : StateOf(p)' = StateOf(p) /\ WorkLeft(p)' = WorkLeft(p)
  PROVE  UNCHANGED Cpu!vars
  BY DEF Cpu!vars

LEMMA CpuProcess ==
  ASSUME IInv, NEW p \in Proc, ProcessNext(p)
  PROVE  [Cpu!Next]_(Cpu!vars)
<1> USE DEF IInv
<1>1. /\ UNCHANGED <<job, rr_queue, ready_Heap, current_process, finish>>
      /\ ReadySet' = ReadySet
  BY ProcessFrame, ReadyKept DEF schedulerVars
<1>2. \A q \in Proc : StateOf(q)' = StateOf(q)
  BY <1>1 DEF StateOf
<1>3. shm \in [Proc -> Int]
  BY DEF Types
<1>4. CASE Work(p) /\ job[p].exec > 0
  <2>1. shm[p] > 0 /\ ~Ended(p) /\ shm' = [shm EXCEPT ![p] = shm[p] - 1]
    BY <1>4 DEF Work, Running, Working, Ended
  <2>2. p = current_process /\ at # "pick"
    BY <2>1, ProcessIsCurrent
  <2>3. StateOf(p) = "running"
    BY <2>2, StateCases
  <2>4. WorkLeft(p) > 0 /\ WorkLeft(p)' = WorkLeft(p) - 1
    BY <1>3, <2>1 DEF WorkLeft
  <2>5. \A q \in Proc : q # p => WorkLeft(q)' = WorkLeft(q)
    BY <1>3, <2>1 DEF WorkLeft
  <2>6. Cpu!Work(p)
    BY <1>2, <2>3, <2>4, <2>5 DEF Cpu!Work
  <2> QED BY <2>6 DEF Cpu!Next
<1>5. CASE Work(p) /\ ~(job[p].exec > 0)
  <2>1. shm[p] = 0 /\ shm' = [shm EXCEPT ![p] = shm[p] - 1]
    BY <1>5, JobTypes DEF Work, Running, Working
  <2>2. \A q \in Proc : WorkLeft(q)' = WorkLeft(q)
    BY <1>3, <2>1 DEF WorkLeft
  <2> QED BY <1>2, <2>2, NobodyMoves
<1>6. CASE Notify(p)
  <2>1. shm[p] = 0 /\ shm' = [shm EXCEPT ![p] = 0]
    BY <1>6 DEF Notify, Running, Working
  <2>2. \A q \in Proc : WorkLeft(q)' = WorkLeft(q)
    BY <1>3, <2>1 DEF WorkLeft
  <2> QED BY <1>2, <2>2, NobodyMoves
<1>7. CASE Acquire(p) \/ ReadClk(p) \/ Exit(p)
  BY <1>2, <1>7, NobodyMoves DEF Acquire, ReadClk, Exit, WorkLeft
<1> QED BY <1>4, <1>5, <1>6, <1>7 DEF ProcessNext, ProcessStep

LEMMA CpuScheduler ==
  ASSUME IInv, Receive \/ StopVictim \/ Pick \/ HandleProcessCompletion
  PROVE  [Cpu!Next]_(Cpu!vars)
<1> USE DEF IInv
<1>1. \A p \in Proc : WorkLeft(p)' = WorkLeft(p)
  BY SchedulerFrame DEF WorkLeft
<1>2. ReadySet \subseteq Proc /\ ReadyTypes /\ None \notin Proc
  BY ReadyInProc, ConstantTypes DEF SchedulerPlaces
<1>3. CASE Receive
  <2>1. PICK h \in Proc : /\ h \in Range(msgq) /\ ReadySet' = ReadySet \cup {h}
                         /\ UNCHANGED <<finish, current_process>>
    BY <1>3, ReceivePlaces DEF Receive
  <2>2. StateOf(h) = "new" /\ finish[h] = None
    BY <2>1, StateCases DEF SchedulerPlaces, Finished
  <2>3. StateOf(h)' = "ready"
    BY <2>1, <2>2 DEF StateOf
  <2>4. \A p \in Proc : p # h => StateOf(p)' = StateOf(p)
    BY <2>1 DEF StateOf
  <2>5. Cpu!Arrive(h)
    BY <1>1, <2>1, <2>2, <2>3, <2>4, OneMoves DEF Cpu!Arrive
  <2> QED BY <2>1, <2>5 DEF Cpu!Next
<1>4. CASE StopVictim
  <2>1. PICK c \in Proc : c = current_process
    BY <1>4, StopPlaces
  <2>2. /\ ReadySet' = ReadySet \cup {c} /\ UNCHANGED <<finish, current_process>> /\ at = "stop"
    BY <1>4, <2>1, StopPlaces DEF StopVictim, Step
  <2>3. StateOf(c) = "running" /\ finish[c] = None
    BY <2>1, <2>2, StateCases DEF SchedulerPlaces, Finished
  <2>4. StateOf(c)' = "ready" /\ \A p \in Proc : p # c => StateOf(p)' = StateOf(p)
    BY <2>2, <2>3 DEF StateOf
  <2>5. Algorithm # "HPF"
    BY <2>2 DEF Control
  <2> QED BY <1>1, <2>1, <2>3, <2>4, <2>5, OneMoves DEF Cpu!Next, Cpu!Preempt
<1>5. CASE Pick
  <2>1. at = "pick" /\ UNCHANGED finish
    BY <1>5, PickFrame
  <2>2. current_process \in Proc => current_process \in ReadySet
    BY <2>1 DEF SchedulerPlaces
  <2>3. CASE ReadySet = {} /\ ReadySet' = {} /\ current_process' = None
    <3>1. current_process = None
      BY <2>2, <2>3 DEF Types
    <3>2. \A p \in Proc : StateOf(p)' = StateOf(p)
      BY <2>1, <2>3, <3>1 DEF StateOf
    <3> QED BY <1>1, <3>2, NobodyMoves
  <2>4. ASSUME NEW q \in ReadySet, ReadySet' = ReadySet \ {q}, current_process' = q
        PROVE  Cpu!Next
    <3>1. q \in Proc /\ StateOf(q) = "ready" /\ finish[q] = None
      BY <1>2, StateCases DEF SchedulerPlaces, Finished
    <3>2. \A p \in Proc : StateOf(p) # "running"
      BY <2>2, StateCases
    <3>3. StateOf(q)' = "running" /\ \A p \in Proc : p # q => StateOf(p)' = StateOf(p)
      BY <2>1, <2>2, <2>4, <3>1 DEF StateOf
    <3>4. Cpu!Free
      BY <3>2 DEF Cpu!Free
    <3> QED BY <1>1, <3>1, <3>3, <3>4, OneMoves DEF Cpu!Next, Cpu!Dispatch
  <2> QED BY <1>2, <1>5, <2>3, <2>4, PickCases DEF Dispatch
<1>6. CASE HandleProcessCompletion
  <2>1. PICK c \in Proc : c = current_process
    BY <1>6, CompletionPlaces
  <2>2. /\ Ended(c) /\ c \notin ReadySet /\ at # "pick"
        /\ finish' = [finish EXCEPT ![c] = clk] /\ clk # None /\ finish \in [Proc -> Time]
        /\ CompletionLeavesIdle \/ CompletionTakesNext
    BY <1>6, <2>1, CompletionPlaces, ConstantTypes DEF Completes, Types
  <2>3. StateOf(c) = "running" /\ StateOf(c)' = "done"
    BY <2>1, <2>2, StateCases DEF StateOf
  <2>4. WorkLeft(c) = 0
    BY <2>2 DEF Working, WorkLeft
  <2>5. CASE CompletionLeavesIdle
    <3>1. current_process' = None /\ ReadySet' = ReadySet
      BY <2>5, ReadyKept DEF CompletionLeavesIdle
    <3>2. \A p \in Proc : p # c => StateOf(p)' = StateOf(p)
      BY <1>2, <2>1, <2>2, <3>1 DEF StateOf
    <3>3. Cpu!Retire(c)
      BY <1>1, <2>3, <2>4, <3>2, OneMoves DEF Cpu!Retire
    <3> QED BY <3>3 DEF Cpu!Next
  <2>6. ASSUME NEW q \in ReadySet, ReadySet' = ReadySet \ {q}, current_process' = q
        PROVE  Cpu!Next
    <3>1. q \in Proc /\ q # c /\ StateOf(q) = "ready" /\ finish[q] = None
      BY <1>2, <2>2, StateCases DEF SchedulerPlaces, Finished
    <3>2. StateOf(q)' = "running"
      BY <2>2, <2>6, <3>1 DEF StateOf
    <3>3. \A p \in Proc : p # c /\ p # q => StateOf(p)' = StateOf(p)
      BY <2>1, <2>2, <2>6 DEF StateOf
    <3>4. Cpu!Replace(c, q)
      BY <1>1, <2>3, <2>4, <3>1, <3>2, <3>3 DEF Cpu!Replace
    <3> QED BY <3>1, <3>4 DEF Cpu!Next
  <2> QED BY <2>2, <2>5, <2>6 DEF CompletionTakesNext, Dispatch
<1> QED BY <1>3, <1>4, <1>5, <1>6

LEMMA CpuStep == IInv /\ [Next]_vars => [Cpu!Next]_(Cpu!vars)
<1> SUFFICES ASSUME IInv, [Next]_vars PROVE [Cpu!Next]_(Cpu!vars)
  OBVIOUS
<1> USE DEF IInv
<1>1. ASSUME UNCHANGED <<shm, finish, rr_queue, ready_Heap, current_process>>
      PROVE  UNCHANGED Cpu!vars
  BY <1>1, ReadyKept, NobodyMoves DEF StateOf, WorkLeft
<1>2. CASE QuietStep
  BY <1>1, <1>2, QuietFrame
<1>3. ASSUME NEW p \in Proc, Reap(p) PROVE UNCHANGED Cpu!vars
  BY <1>1, <1>3 DEF Reap, ReapProcess, schedulerVars
<1>4. CASE PlanStep /\ UNCHANGED schedulerVars
  BY <1>1, <1>4, PlanFrame DEF schedulerVars
<1>5. CASE Launch /\ UNCHANGED schedulerVars
  <2>1. booked \in Proc /\ shm[booked] = job[booked].exec
    BY <1>5, LaunchPlaces DEF Launched, Working
  <2>2. shm' = shm
    BY <1>5, <2>1 DEF Launch, Types
  <2> QED BY <1>1, <1>5, <2>2 DEF schedulerVars
<1>6. CASE ReapScheduler \/ Tick \/ UNCHANGED vars
  BY <1>1, <1>6 DEF ReapScheduler, Tick, vars, sharedVars, schedulerVars
<1> QED BY <1>2, <1>3, <1>4, <1>5, <1>6, NextCases, CpuProcess, CpuScheduler

(***************************************************************************)
(* With every algorithm, the scheduler, its signal handlers and the        *)
(* simulated processes together keep the promise of CpuScheduling.         *)
(***************************************************************************)
THEOREM SimulationImplementsScheduling == Spec => ImplementsCpuScheduling
<1>1. Init => Cpu!Init
  <2> SUFFICES ASSUME Init PROVE Cpu!Init
    OBVIOUS
  <2>1. /\ rr_queue = << >> /\ ready_Heap = {} /\ current_process = None
        /\ finish = [p \in Proc |-> None]
    BY DEF Init, SchedulerInit
  <2>2. ReadySet = {}
    BY <2>1, EmptyQueue DEF ReadySet
  <2>3. \A p \in Proc : StateOf(p) = "new"
    BY <2>1, <2>2, ConstantTypes DEF StateOf
  <2>4. \A p \in Proc : WorkLeft(p) \in Nat
    BY InitHolds DEF IInv, Types, WorkLeft
  <2> QED BY <2>3, <2>4 DEF Cpu!Init
<1> QED BY <1>1, InvariantHolds, CpuStep, PTL
        DEF Spec, ImplementsCpuScheduling, Cpu!Spec
--------------------------------------------------------------------------------
(***************************************************************************)
(* What is proved of the two abstract specifications holds, then, of the   *)
(* simulation.  The theorems about BuddyMemory are taken by an instance of *)
(* its proof module; the definitions that come with this instance are      *)
(* those of the instance Memory, which the lemmas Same... say one layer of *)
(* definitions at a time.                                                  *)
(***************************************************************************)
MemoryP == INSTANCE BuddyMemoryProofs WITH resident <- Resident

LEMMA SamePaths ==
  /\ MemoryP!Node = Memory!Node /\ MemoryP!Root = Memory!Root
  /\ MemoryP!FreeBlock = Memory!FreeBlock /\ MemoryP!Block = Memory!Block
  BY DEF MemoryP!Node, Memory!Node, MemoryP!SeqOf, Memory!SeqOf, MemoryP!Root, Memory!Root,
         MemoryP!FreeBlock, Memory!FreeBlock, MemoryP!Block, Memory!Block

LEMMA SamePrefix ==
  ASSUME NEW s, NEW t
  PROVE  /\ MemoryP!IsPrefix(s, t) <=> Memory!IsPrefix(s, t)
         /\ MemoryP!IsStrictPrefix(s, t) <=> Memory!IsStrictPrefix(s, t)
         /\ MemoryP!Before(s, t) <=> Memory!Before(s, t)
         /\ MemoryP!Front(s) = Memory!Front(s)
  BY DEF MemoryP!IsPrefix, Memory!IsPrefix, MemoryP!IsStrictPrefix, Memory!IsStrictPrefix,
         MemoryP!Before, Memory!Before, MemoryP!Front, Memory!Front

LEMMA SameLevel ==
  ASSUME NEW x
  PROVE  MemoryP!BlockLevel(x) = Memory!BlockLevel(x)
  BY DEF MemoryP!BlockLevel, Memory!BlockLevel, MemoryP!Order, Memory!Order

LEMMA SameFits ==
  ASSUME NEW m, NEW n, NEW level
  PROVE  /\ MemoryP!Fits(m, n, level) <=> Memory!Fits(m, n, level)
         /\ MemoryP!Reached(m, n) <=> Memory!Reached(m, n)
  BY SamePrefix
     DEF MemoryP!Fits, Memory!Fits, MemoryP!Reached, Memory!Reached, MemoryP!HasPid, Memory!HasPid,
         MemoryP!get_used_space, Memory!get_used_space, MemoryP!Spine, Memory!Spine

LEMMA SameFound ==
  ASSUME NEW m, NEW level
  PROVE  MemoryP!Found(m, level) = Memory!Found(m, level)
<1>1. MemoryP!Candidates(m, level) = Memory!Candidates(m, level)
  BY SamePaths, SameFits DEF MemoryP!Candidates, Memory!Candidates
<1> QED BY <1>1, SamePrefix DEF MemoryP!Found, Memory!Found

LEMMA SameSearch ==
  ASSUME NEW m, NEW level
  PROVE  MemoryP!traverse_MemorySegment(m, level) = Memory!traverse_MemorySegment(m, level)
<1>1. MemoryP!Visited(m, level) = Memory!Visited(m, level)
  BY SamePaths, SamePrefix, SameFits, SameFound DEF MemoryP!Visited, Memory!Visited
<1> QED BY <1>1, SamePaths DEF MemoryP!traverse_MemorySegment, Memory!traverse_MemorySegment

LEMMA SameMerge ==
  ASSUME NEW m, NEW b
  PROVE  MemoryP!merge_buddy_blocks(m, b) = Memory!merge_buddy_blocks(m, b)
<1>1. ASSUME NEW n PROVE MemoryP!Mergeable(m, n) <=> Memory!Mergeable(m, n)
  BY SamePrefix DEF MemoryP!Mergeable, Memory!Mergeable, MemoryP!Buddy, Memory!Buddy
<1>2. MemoryP!MergedInto(m, b) = Memory!MergedInto(m, b)
  BY <1>1, SamePrefix DEF MemoryP!MergedInto, Memory!MergedInto
<1> QED BY <1>2, SamePrefix
        DEF MemoryP!merge_buddy_blocks, Memory!merge_buddy_blocks, MemoryP!Restrict, Memory!Restrict

LEMMA SameInit == MemoryP!Init <=> Memory!Init
  BY SamePaths DEF MemoryP!Init, Memory!Init

LEMMA SameNext == MemoryP!Next <=> Memory!Next
<1>1. ASSUME NEW p, NEW size
      PROVE  /\ MemoryP!AllocateMemory(p, size) <=> Memory!AllocateMemory(p, size)
             /\ MemoryP!AllocateFails(p, size) <=> Memory!AllocateFails(p, size)
             /\ MemoryP!UpdateId(p) <=> Memory!UpdateId(p)
             /\ MemoryP!DeallocateMemory(p) <=> Memory!DeallocateMemory(p)
  <2>1. MemoryP!AllocateMemory(p, size) <=> Memory!AllocateMemory(p, size)
    BY SameLevel, SameFound, SameSearch DEF MemoryP!AllocateMemory, Memory!AllocateMemory
  <2>2. MemoryP!AllocateFails(p, size) <=> Memory!AllocateFails(p, size)
    BY SameLevel, SameFound, SameSearch DEF MemoryP!AllocateFails, Memory!AllocateFails
  <2>3. MemoryP!UpdateId(p) <=> Memory!UpdateId(p)
    BY DEF MemoryP!UpdateId, Memory!UpdateId, MemoryP!BlocksOfId, Memory!BlocksOfId
  <2>4. MemoryP!DeallocateMemory(p) <=> Memory!DeallocateMemory(p)
    BY SamePaths, SameMerge
       DEF MemoryP!DeallocateMemory, Memory!DeallocateMemory, MemoryP!BlocksOfPid,
           Memory!BlocksOfPid, MemoryP!Released, Memory!Released
  <2> QED BY <2>1, <2>2, <2>3, <2>4
<1> QED BY <1>1 DEF MemoryP!Next, Memory!Next

LEMMA SameInvariants ==
  /\ MemoryP!TypeOK <=> Memory!TypeOK
  /\ MemoryP!BlocksHaveOwners <=> Memory!BlocksHaveOwners
  /\ MemoryP!NoOverlap <=> Memory!NoOverlap
  /\ MemoryP!HolderHasItsBlock <=> Memory!HolderHasItsBlock
  /\ MemoryP!NarrowSizes <=> Memory!NarrowSizes
  /\ MemoryP!FreeBlockIsFound <=> Memory!FreeBlockIsFound
<1>1. MemoryP!Live(mem) = Memory!Live(mem)
  BY DEF MemoryP!Live, Memory!Live
<1>2. MemoryP!TypeOK <=> Memory!TypeOK
  BY SamePaths, SamePrefix DEF MemoryP!TypeOK, Memory!TypeOK, MemoryP!IsTree, Memory!IsTree
<1>3. MemoryP!BlocksHaveOwners <=> Memory!BlocksHaveOwners
  BY <1>1 DEF MemoryP!BlocksHaveOwners, Memory!BlocksHaveOwners
<1>4. MemoryP!NoOverlap <=> Memory!NoOverlap
  BY <1>1, SamePrefix DEF MemoryP!NoOverlap, Memory!NoOverlap
<1>5. MemoryP!HolderHasItsBlock <=> Memory!HolderHasItsBlock
  BY DEF MemoryP!HolderHasItsBlock, Memory!HolderHasItsBlock, MemoryP!BlocksOfId,
         Memory!BlocksOfId, MemoryP!BlockSize, Memory!BlockSize
<1>6. MemoryP!NarrowSizes <=> Memory!NarrowSizes
  BY SameLevel DEF MemoryP!NarrowSizes, Memory!NarrowSizes
<1>7. MemoryP!FreeBlockIsFound <=> Memory!FreeBlockIsFound
  BY <1>1, SamePaths, SamePrefix, SameLevel, SameFound
     DEF MemoryP!FreeBlockIsFound, Memory!FreeBlockIsFound
<1> QED BY <1>2, <1>3, <1>4, <1>5, <1>6, <1>7

LEMMA MemorySpec == Spec => MemoryP!Spec
<1>1. MemoryP!Init <=> Memory!Init
  BY SameInit
<1>2. [Memory!Next]_(Memory!vars) => [MemoryP!Next]_(MemoryP!vars)
  BY SameNext DEF Memory!vars, MemoryP!vars
<1> QED BY <1>1, <1>2, GeneratorImplementsMemory, PTL
        DEF ImplementsBuddyMemory, Memory!Spec, MemoryP!Spec

(***************************************************************************)
(* In the whole simulation the memory stays a tree, and no block is lost:  *)
(* an allocated block belongs to a process that the SIGCHLD handler still  *)
(* has to reap, wherever the handler interrupts the generator; and a       *)
(* process waits only for memory that is in use.                           *)
(***************************************************************************)
THEOREM MemoryIsOwned ==
  Spec => [](Memory!TypeOK /\ Memory!BlocksHaveOwners /\ Memory!FreeBlockIsFound)
<1>1. MemoryP!Spec => []MemoryP!TypeOK
  BY MemoryP!TypeCorrect, MemoryAssumption, NoneAssumption
<1>2. MemoryP!Spec => []MemoryP!BlocksHaveOwners
  BY MemoryP!OwnersCorrect, MemoryAssumption, NoneAssumption
<1>3. MemoryP!Spec => []MemoryP!FreeBlockIsFound
  BY MemoryP!FreeBlockCorrect, MemoryAssumption, NoneAssumption
<1>4. MemoryP!TypeOK /\ MemoryP!BlocksHaveOwners /\ MemoryP!FreeBlockIsFound
        => Memory!TypeOK /\ Memory!BlocksHaveOwners /\ Memory!FreeBlockIsFound
  BY SameInvariants
<1> QED BY <1>1, <1>2, <1>3, <1>4, MemorySpec, PTL

(***************************************************************************)
(* In the whole simulation, as long as the sizes of the input file are not *)
(* too different, no byte belongs to two processes, and every process that *)
(* has not been reaped has one block, which is large enough.               *)
(***************************************************************************)
THEOREM MemoryIsSafe ==
  ASSUME Memory!NarrowSizes
  PROVE  Spec => [](Memory!NoOverlap /\ Memory!HolderHasItsBlock)
<1>1. MemoryP!NarrowSizes
  BY SameInvariants
<1>2. MemoryP!Spec => []MemoryP!NoOverlap
  BY <1>1, MemoryP!NoOverlapCorrect, MemoryAssumption, NoneAssumption
<1>3. MemoryP!Spec => []MemoryP!HolderHasItsBlock
  BY <1>1, MemoryP!HolderCorrect, MemoryAssumption, NoneAssumption
<1>4. MemoryP!NoOverlap /\ MemoryP!HolderHasItsBlock
        => Memory!NoOverlap /\ Memory!HolderHasItsBlock
  BY SameInvariants
<1> QED BY <1>2, <1>3, <1>4, MemorySpec, PTL
--------------------------------------------------------------------------------
(***************************************************************************)
(* What follows from CpuScheduling.  Its three invariants are preserved    *)
(* together: a process may only leave the CPU for "done" with nothing      *)
(* left, and nothing is left to do for one that is done.                   *)
(***************************************************************************)
CpuInv == Cpu!TypeOK /\ Cpu!OneRuns /\ Cpu!DoneIsDone

LEMMA CpuInitInv == Cpu!Init => CpuInv
  BY DEF Cpu!Init, CpuInv, Cpu!TypeOK, Cpu!OneRuns, Cpu!DoneIsDone

LEMMA CpuStepInv == CpuInv /\ [Cpu!Next]_(Cpu!vars) => CpuInv'
<1> SUFFICES ASSUME CpuInv, [Cpu!Next]_(Cpu!vars) PROVE CpuInv'
  OBVIOUS
<1> USE DEF CpuInv, Cpu!TypeOK, Cpu!OneRuns, Cpu!DoneIsDone
<1>1. ASSUME NEW t \in Proc, Cpu!Arrive(t) PROVE CpuInv'
  BY <1>1 DEF Cpu!Arrive, Cpu!Move
<1>2. ASSUME NEW t \in Proc, Cpu!Dispatch(t) PROVE CpuInv'
  BY <1>2 DEF Cpu!Dispatch, Cpu!Move, Cpu!Free
<1>3. ASSUME NEW t \in Proc, Cpu!Preempt(t) PROVE CpuInv'
  BY <1>3 DEF Cpu!Preempt, Cpu!Move
<1>4. ASSUME NEW t \in Proc, Cpu!Retire(t) PROVE CpuInv'
  BY <1>4 DEF Cpu!Retire, Cpu!Move
<1>5. ASSUME NEW t \in Proc, Cpu!Work(t) PROVE CpuInv'
  <2>1. /\ StateOf(t) = "running" /\ WorkLeft(t) \in Nat /\ WorkLeft(t)' = WorkLeft(t) - 1
        /\ WorkLeft(t) > 0
    BY <1>5 DEF Cpu!Work
  <2>2. WorkLeft(t)' \in Nat
    BY <2>1
  <2>3. \A p \in Proc : StateOf(p)' = StateOf(p) /\ (p # t => WorkLeft(p)' = WorkLeft(p))
    BY <1>5 DEF Cpu!Work
  <2> QED BY <2>1, <2>2, <2>3
<1>6. ASSUME NEW t \in Proc, NEW u \in Proc, Cpu!Replace(t, u) PROVE CpuInv'
  BY <1>6 DEF Cpu!Replace
<1>7. CASE UNCHANGED Cpu!vars
  BY <1>7 DEF Cpu!vars
<1>8. QED
  BY <1>1, <1>2, <1>3, <1>4, <1>5, <1>6, <1>7 DEF Cpu!Next

(***************************************************************************)
(* With every algorithm, at most one process has the CPU in the whole      *)
(* simulation, and a process that the scheduler has retired has finished   *)
(* its work.                                                               *)
(***************************************************************************)
THEOREM OneProcessRuns == Spec => [](Cpu!OneRuns /\ Cpu!DoneIsDone)
<1>1. CpuInv => Cpu!OneRuns /\ Cpu!DoneIsDone
  BY DEF CpuInv
<1> QED BY <1>1, CpuInitInv, CpuStepInv, SimulationImplementsScheduling, PTL
        DEF ImplementsCpuScheduling, Cpu!Spec

(***************************************************************************)
(* A process that the scheduler has retired is never scheduled again.      *)
(***************************************************************************)
THEOREM RetiredForEver ==
  ASSUME NEW p \in Proc
  PROVE  Spec => [][StateOf(p) = "done" => StateOf(p)' = "done"]_(Cpu!vars)
<1>1. CpuInv /\ [Cpu!Next]_(Cpu!vars)
        => [StateOf(p) = "done" => StateOf(p)' = "done"]_(Cpu!vars)
  <2> SUFFICES ASSUME Cpu!TypeOK, Cpu!Next, StateOf(p) = "done"
               PROVE  StateOf(p)' = "done"
    BY DEF CpuInv
  <2> QED
    BY DEF Cpu!TypeOK, Cpu!Next, Cpu!Arrive, Cpu!Dispatch, Cpu!Preempt, Cpu!Retire, Cpu!Work,
           Cpu!Replace, Cpu!Move
<1> QED BY <1>1, CpuInitInv, CpuStepInv, SimulationImplementsScheduling, PTL
        DEF ImplementsCpuScheduling, Cpu!Spec
--------------------------------------------------------------------------------
(***************************************************************************)
(* The type invariant, with its bounds: no queue holds more processes than *)
(* there are, no process works past the end of its work but the one that   *)
(* has none to do, and no waiting time exceeds the clock in size (with     *)
(* SRTN and late ticks it can).                                            *)
(***************************************************************************)
LEMMA WorkIsBounded ==
  ASSUME IInv, NEW p \in Proc
  PROVE  shm[p] \in -1..job[p].exec
<1>1. job[p].exec \in Nat
  BY JobTypes DEF IInv
<1>2. life[p] \in {"unborn", "spin", "read", "tick", "notify", "crashed"} \/ Ended(p)
  BY DEF IInv, Types, Life, Ended
<1> QED BY <1>1, <1>2 DEF IInv, Working

LEMMA WaitingIsBounded ==
  ASSUME IInv, Steady, NEW p \in Proc
  PROVE  pcb[p].waiting \in -MaxClk..MaxClk
<1> USE DEF IInv
<1>1. MaxClk \in Nat /\ clk \in 0..MaxClk /\ job[p].arrival \in Nat
  BY ConstantTypes, JobTypes DEF Types
<1>2. Stamped(p)
  BY DEF Stamps
<1>3. CASE pcb[p].start = None
  BY <1>1, <1>2, <1>3 DEF Stamped
<1>4. CASE pcb[p].start # None
  <2>1. /\ Launched(p) /\ pcb[p].start \in 0..MaxClk
        /\ pcb[p].waiting \in pcb[p].start - job[p].arrival .. MaxClk - job[p].arrival
    BY <1>2, <1>4 DEF Stamped, WaitStamped, Types, PCBType, Time
  <2>2. job[p].arrival <= MaxClk
    BY <1>1, <2>1 DEF GeneratorPlaces, Arrivals
  <2> QED BY <1>1, <2>1, <2>2
<1> QED BY <1>3, <1>4

LEMMA PCBIsBounded ==
  ASSUME IInv
  PROVE  pcb \in [Proc -> PCB]
<1>1. ASSUME NEW p \in Proc PROVE pcb[p] \in PCB
  <2>1. pcb[p] \in PCBType
    BY DEF IInv, Types
  <2> QED BY <2>1 DEF PCBType, PCB, Time
<1> QED BY <1>1 DEF IInv, Types

LEMMA QueuesFit ==
  ASSUME IInv
  PROVE  {msgq, rr_queue, waiting_queue, temp_queue} \subseteq SeqOf(Proc, Cardinality(Proc))
<1>1. /\ Distinct(msgq, Proc) /\ Distinct(rr_queue, Proc)
      /\ Distinct(waiting_queue, Proc) /\ Distinct(temp_queue, Proc)
  BY DEF IInv, SchedulerPlaces, ReadyTypes, GeneratorPlaces
<1>2. \A s : Distinct(s, Proc) => s \in SeqOf(Proc, Cardinality(Proc))
  BY ProcAssumption, DistinctFits
<1> QED BY <1>1, <1>2

THEOREM TypesHold == Spec => []TypeOK
<1>1. ASSUME IInv, Memory!TypeOK PROVE TypeOK
  <2> USE <1>1 DEF IInv, Types
  <2>1. SharedTypeOK
    BY QueuesFit, WorkIsBounded DEF SharedTypeOK
  <2>2. ProcessTypeOK
    BY DEF ProcessTypeOK, Time
  <2>3. SchedulerTypeOK
    BY QueuesFit, PCBIsBounded, WaitingIsBounded DEF SchedulerTypeOK, SchedulerPlaces, ReadyTypes,
                                                     Time
  <2>4. GeneratorTypeOK
    <3>1. last_tick \in -1..MaxClk
      BY ConstantTypes DEF Arrivals
    <3> QED BY <3>1, QueuesFit DEF GeneratorTypeOK, GeneratorPlaces
  <2> QED BY <2>1, <2>2, <2>3, <2>4 DEF TypeOK
<1>2. Spec => [](IInv /\ Memory!TypeOK)
  BY InvariantHolds, MemoryIsOwned, PTL
<1> QED BY <1>1, <1>2, PTL
================================================================================
