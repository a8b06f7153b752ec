------------------------------ MODULE SharedState ------------------------------
(***************************************************************************)
(* What the programs of the simulation share: the clock, the IPC objects   *)
(* and the state the operating system keeps for each simulated process.    *)
(* Each program has a module of its own (UserProcess, Scheduler and        *)
(* Generator) that extends this one; KernelSim puts them together.         *)
(***************************************************************************)
EXTENDS Integers, SequencesExt

CONSTANTS
  Proc,          \* the simulated processes of the input file
  Workloads,     \* the contents the input file may have: process -> its line
  Algorithm,     \* "HPF", "SRTN" or "RR"
  Quantum,       \* the quantum of RR
  MaxClk,        \* bound: the clock stops there
  PromptSignals, \* a signal handler runs before its process does anything else
  Timely,        \* what has to be done in a tick is done before the next tick
  None           \* no process, and the time -1 of what has not happened

ASSUME ProcAssumption == IsFiniteSet(Proc)
ASSUME AlgorithmAssumption == Algorithm \in {"HPF", "SRTN", "RR"}
ASSUME QuantumAssumption == Quantum \in Nat \ {0}    \* parse_args
ASSUME MaxClkAssumption == MaxClk \in Nat
ASSUME ModesAssumption == PromptSignals \in BOOLEAN /\ Timely \in BOOLEAN
ASSUME NoneAssumption == None \notin Proc /\ None \notin Int

\* A line of the input file; mem is the memory_size.
Job == [arrival : Nat, exec : Nat, priority : Nat, mem : Nat]
ASSUME WorkloadsAssumption == Workloads \subseteq [Proc -> Job]

VARIABLES
  job,        \* the input file of this run
  clk,        \* the clock, in shared memory
  semid,      \* the generator's semaphore: one token per generator tick
  msgq,       \* the message queue from the generator to the scheduler
  sync_sem,   \* the semaphore of each process, None once it is removed
  shm,        \* the remaining time of each process, in shared memory
  life,       \* where each process is in its program, see UserProcess
  stopped,    \* the processes that SIGSTOP has stopped
  usr1, usr2  \* SIGUSR1 and SIGUSR2 pending for the scheduler

sharedVars == <<job, clk, semid, msgq, sync_sem, shm, life, stopped, usr1, usr2>>

Life == {"unborn", "spin", "read", "tick", "notify", "exit", "zombie", "reaped", "crashed"}

SharedTypeOK ==
  /\ job \in Workloads
  /\ clk \in 0..MaxClk
  /\ semid \in {0, 1}
  /\ msgq \in SeqOf(Proc, Cardinality(Proc))
  /\ sync_sem \in [Proc -> 0..2 \cup {None}]
  /\ \A p \in Proc : shm[p] \in -1..job[p].exec
  /\ life \in [Proc -> Life]
  /\ stopped \subseteq Proc
  /\ usr1 \in BOOLEAN /\ usr2 \in BOOLEAN

(***************************************************************************)
(* The operations of semaphores.c, for the value of a semaphore.  Each     *)
(* fails on a semaphore that has been removed: down_nb then returns an     *)
(* error as it does for 0, up ends its caller with exit(1).                *)
(***************************************************************************)
down_nb_succeeds(s) == s # None /\ s > 0
up_succeeds(s) == s # None
down(s) == s - 1
up(s) == s + 1

SharedInit ==
  /\ job \in Workloads
  /\ clk = 0
  /\ semid = 0
  /\ msgq = << >>
  /\ sync_sem = [p \in Proc |-> 0]
  /\ shm = [p \in Proc |-> job[p].exec]
  /\ life = [p \in Proc |-> "unborn"]
  /\ stopped = {}
  /\ usr1 = FALSE /\ usr2 = FALSE
================================================================================
