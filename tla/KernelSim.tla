------------------------------- MODULE KernelSim -------------------------------
(***************************************************************************)
(* The whole simulation: the generator, the scheduler, the simulated       *)
(* processes and the clock, interleaved.                                   *)
(***************************************************************************)
EXTENDS UserProcess, Scheduler, Generator, FiniteSetsExt

\* A completion that is handled late may be charged to a process that runs
\* by then; with HPF no other process can run before.
ASSUME SignalAssumption == PromptSignals \/ Algorithm = "HPF"

vars == <<sharedVars, processVars, schedulerVars, generatorVars>>

TypeOK == SharedTypeOK /\ ProcessTypeOK /\ SchedulerTypeOK /\ GeneratorTypeOK

Init == SharedInit /\ ProcessInit /\ SchedulerInit /\ GeneratorInit

ProcessNext(p) ==
  /\ gen # "exited"
  /\ ProcessStep(p)
  /\ Rouse(life'[p] # life[p] /\ life'[p] \in {"zombie", "crashed"})
  /\ UNCHANGED <<schedulerVars, restVars>>

TheScheduler ==
  /\ SchedulerNext
  /\ Rouse(stopped' # stopped \/ (at' # at /\ at' = "exited"))
  /\ UNCHANGED <<processVars, restVars>>

TheGenerator ==
  \/ GeneratorStep
  \/ Wake /\ (Timely /\ ~roused => SchedulerSettled /\ \A p \in Proc : ProcessSettled(p))

Reap(p) == ReapProcess(p) /\ UNCHANGED <<processVars, schedulerVars>>

\* The handler has reaped the scheduler: clear_resources ends everything.
ReapScheduler ==
  /\ at = "exited"
  /\ gen # "exited"
  /\ gen' = "exited"
  /\ UNCHANGED <<sharedVars, processVars, schedulerVars, last_tick, pq, waiting_queue,
                 temp_queue, once, roused, mem, booked>>

\* run_clk.  The model follows nobody any further once the scheduler has crashed.
Tick ==
  /\ gen # "exited" /\ at # "fault"
  /\ clk < MaxClk
  /\ Timely => /\ SchedulerSettled
               /\ GeneratorSettled \/ (last_tick = -1 /\ clk = 0)
               /\ \A p \in Proc : ProcessSettled(p)
  /\ clk' = clk + 1
  /\ UNCHANGED <<job, semid, msgq, sync_sem, shm, life, stopped, usr1, usr2,
                 processVars, schedulerVars, generatorVars>>

Next ==
  \/ \E p \in Proc : ProcessNext(p) \/ Reap(p)
  \/ TheScheduler
  \/ TheGenerator /\ UNCHANGED <<processVars, schedulerVars>>
  \/ ReapScheduler
  \/ Tick

Spec == Init /\ [][Next]_vars

(***************************************************************************)
(* The system does not stop while a program, a signal or the clock (up to  *)
(* MaxClk) can go on.  Nothing is assumed of the single programs: no step  *)
(* can be repeated for ever, so that each gets its turn in the end.        *)
(***************************************************************************)
FairSpec == Spec /\ WF_vars(Next)
--------------------------------------------------------------------------------
(***************************************************************************)
(* The simulation implements CpuScheduling.  A process is new until its    *)
(* message is received, ready while it is in the ready queue, and done     *)
(* when the scheduler has retired it.                                      *)
(***************************************************************************)
StateOf(p) ==
  IF finish[p] # None THEN "done"
  ELSE IF p \in ReadySet THEN "ready"
  ELSE IF current_process = p THEN "running"
  ELSE "new"

WorkLeft(p) == IF shm[p] > 0 THEN shm[p] ELSE 0

Cpu == INSTANCE CpuScheduling WITH
         Task <- Proc, Preemptive <- Algorithm # "HPF",
         state <- [p \in Proc |-> StateOf(p)], left <- [p \in Proc |-> WorkLeft(p)]

(***************************************************************************)
(* Processes work only while they have the CPU, one at a time, and are     *)
(* retired only when their work is done, exactly once; with HPF no process *)
(* is preempted.                                                           *)
(***************************************************************************)
ImplementsCpuScheduling == Cpu!Spec

(***************************************************************************)
(* The generator and its SIGCHLD handler use the allocator the way         *)
(* BuddyMemory allows, so that what is proved of BuddyMemory holds here.   *)
(***************************************************************************)
ImplementsBuddyMemory == Memory!Spec

(***************************************************************************)
(* No completion is lost: a process that has announced its end is retired, *)
(* or the signal is still pending, unless the scheduler is gone.           *)
(***************************************************************************)
NotifiedIsRetired ==
  \A p \in Proc :
    life[p] \in {"exit", "zombie", "reaped"} => finish[p] # None \/ usr2 \/ ~Alive

(***************************************************************************)
(* The processes share one CPU: together they have not done more work than *)
(* ticks have passed since the first one started.                          *)
(***************************************************************************)
WorkDone(p) == job[p].exec - WorkLeft(p)
WorkFitsInTime ==
  start_time # None => MapThenSumSet(WorkDone, Proc) <= clk - start_time

(***************************************************************************)
(* The books balance: the waiting time that start_process and              *)
(* resume_process accumulate and the execution time make up the turnaround *)
(* time that handle_process_completion computes from the clock.            *)
(***************************************************************************)
WaitingIsExact ==
  \A p \in Proc :
    finish[p] # None => finish[p] - job[p].arrival = pcb[p].waiting + job[p].exec

(***************************************************************************)
(* The times of a process are in order, although the main loop and the     *)
(* completion handler stamp them with different readings of the clock: it  *)
(* starts after it has arrived (but see StartsAfterArrival for SRTN), is   *)
(* preempted after it has started and finishes last; the waiting time lies *)
(* between the response time and the turnaround time.  With SRTN the       *)
(* handler gives out the CPU as well, and what a late tick can then do to  *)
(* the stamps of the main loop is excepted (see Steady).                   *)
(***************************************************************************)
StampsInOrder(p) ==
  LET b == pcb[p]
      arrival == job[p].arrival
  IN /\ b.start # None =>
          /\ b.start <= clk
          /\ Algorithm # "SRTN" => arrival <= b.start
          /\ Steady => b.start - arrival <= b.waiting
     /\ b.last_prempt # None =>
          /\ b.start # None /\ b.last_prempt <= clk
          /\ Steady => b.start <= b.last_prempt
     /\ finish[p] # None =>
          /\ b.start # None /\ b.start <= finish[p] /\ finish[p] <= clk
          /\ b.last_prempt # None => b.last_prempt <= finish[p]
          /\ Steady => b.waiting <= finish[p] - arrival

TimesInOrder == \A p \in Proc : StampsInOrder(p)

(***************************************************************************)
(* With RR, a ready process waits for one quantum of each other process at *)
(* most, and for the idle tick that follows a completion.                  *)
(***************************************************************************)
WaitsSince(p) == IF pcb[p].last_prempt = None THEN job[p].arrival ELSE pcb[p].last_prempt
BoundedWait ==
  Alive => \A p \in Range(rr_queue) :
    clk - WaitsSince(p) <= (Cardinality(Proc) - 1) * (Quantum + 1) + 1

(***************************************************************************)
(* With SRTN, when the work of a tick is done, no ready process has less   *)
(* to do, as far as the scheduler has read it, than the one that runs.     *)
(***************************************************************************)
ShortestRuns ==
  at = "wait" /\ ~Idle => \A q \in ready_Heap : shm[current_process] <= pcb[q].remaining

(***************************************************************************)
(* scheduler.log is in the order of time, although its lines are written   *)
(* by the main loop and by the completion handler, each with a clockValue  *)
(* that may be of the tick before, or be on its way through -1.            *)
(***************************************************************************)
LogIsChronological == [][logged' >= logged]_logged

(***************************************************************************)
(* The CPU utilisation of the final report is at most 100%: the execution  *)
(* times that start_process sums up fit between the first start and the    *)
(* clockValue that the last completion has left.                           *)
(***************************************************************************)
ExecOf(p) == job[p].exec
active_cpu_time == MapThenSumSet(ExecOf, {p \in Proc : pcb[p].start # None})
total_time == clockValue - start_time
UtilisationAtMostFull ==
  at = "exited" /\ start_time # None => active_cpu_time <= total_time

(***************************************************************************)
(* README: "Ensures the program does not crash".                           *)
(***************************************************************************)
NeverFaults == at # "fault"

(***************************************************************************)
(* scheduler.c:228: "All processes received from generator".  The          *)
(* scheduler leaves only when every process of the file is finished.       *)
(***************************************************************************)
LeavesWhenAllDone == at = "exited" => \A p \in Proc : finish[p] # None

\* No process starts before it has arrived.
StartsAfterArrival ==
  \A p \in Proc : pcb[p].start # None => pcb[p].start >= job[p].arrival

(***************************************************************************)
(* The simulation ends: the generator has seen the scheduler leave, unless *)
(* the scheduler has crashed.                                              *)
(***************************************************************************)
Terminates == <>(gen = "exited" \/ at = "fault")
================================================================================
