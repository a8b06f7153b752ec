------------------------------- MODULE Lifecycle -------------------------------
(***************************************************************************)
(* How the simulation starts and how it ends: what main of the generator   *)
(* creates, and how clear_resources, the SIGCHLD handler and the clock     *)
(* give it back, at the natural end and after Ctrl-C.  What happens in     *)
(* between is in KernelSim; here the generator only launches its processes *)
(* and they end, some of them perhaps not before the scheduler leaves.     *)
(*                                                                         *)
(* A signal is handled before its receiver takes another step; what is     *)
(* free is when the other programs take theirs.  signal() blocks a signal  *)
(* while its own handler runs, and no other.                               *)
(***************************************************************************)
EXTENDS Integers, SequencesExt

CONSTANTS
  Proc,            \* the simulated processes
  MaxInterrupts    \* bound: how often the user presses Ctrl-C

ASSUME InterruptsAssumption == MaxInterrupts \in Nat

VARIABLES
  main,        \* what main of the generator does next
  stack,       \* its signal handlers, the one that runs first
  generator,   \* "alive", "exited" or "crashed"
  child,       \* the scheduler, the clock and the processes, see Life
  told,        \* SIGUSR1 has been sent to the scheduler
  interrupt,   \* the programs that SIGINT is pending for
  chld,        \* SIGCHLD is pending for the generator
  queue, sem, clock_shm,   \* the IPC objects, see Object
  pq,          \* the array of the priority queue: "held", "freed" or "NULL"
  tree,        \* the blocks of memory_manager: "NULL", "whole", "partial" or "freed"
  shmaddr,     \* the clock in the generator's memory: "NULL", "mapped" or "unmapped"
  foreign,     \* an object with ID 0, which belongs to somebody else, was removed
  interrupts   \* how often Ctrl-C has been pressed

vars == <<main, stack, generator, child, told, interrupt, chld, queue, sem, clock_shm,
          pq, tree, shmaddr, foreign, interrupts>>

Scheduler == "scheduler"
Clock == "clock"
Child == {Scheduler, Clock} \cup Proc
Generator == "generator"

ASSUME NamesAssumption == {Scheduler, Clock, Generator} \cap Proc = {}

(***************************************************************************)
(* A child that is forked still has the handlers of the generator; it is   *)
(* ready once it has replaced them (the clock: before it has created its   *)
(* shared memory), and running once it has set itself up.  One that has    *)
(* exited or was killed by SIGINT is a zombie until the generator reaps    *)
(* it.  So is one that has crashed: another signal has killed it.          *)
(***************************************************************************)
Life == {"none", "forked", "ready", "running",
         "exited", "killed", "crashed", "reaped", "buried"}
Object == {"none", "made", "removed"}

Stages == <<"segment", "queue", "semaphore", "scheduler", "clock", "attach", "loop">>

\* clear_resources; waitpid, get_clk and deallocate are the SIGCHLD handler's own.
Places == {"pq_free", "pq_null", "msgctl", "semctl", "shmdt", "killpg", "print",
           "destroy", "destroying", "exit", "waitpid", "get_clk", "deallocate"}

Alive(c) == child[c] \in {"forked", "ready", "running"}
Zombie(c) == child[c] \in {"exited", "killed", "crashed"}
Crashed(c) == child[c] \in {"crashed", "buried"}

Init ==
  /\ main = "segment"
  /\ stack = << >>
  /\ generator = "alive"
  /\ child = [c \in Child |-> "none"]
  /\ told = FALSE
  /\ interrupt = {} /\ chld = FALSE
  /\ queue = "none" /\ sem = "none" /\ clock_shm = "none"
  /\ pq = "held" /\ tree = "NULL" /\ shmaddr = "NULL"
  /\ foreign = FALSE
  /\ interrupts = 0
--------------------------------------------------------------------------------
(***************************************************************************)
(* Signals.                                                                *)
(***************************************************************************)
NeverBlocked(s) == FALSE

Blocked(s) == \E i \in DOMAIN stack : stack[i].handles = s

IntDeliverable == Generator \in interrupt /\ ~Blocked("SIGINT")
ChldDeliverable == chld /\ ~Blocked("SIGCHLD")

Frame(s, place) == [handles |-> s, at |-> place]

HandleInt ==
  /\ generator = "alive"
  /\ IntDeliverable
  /\ interrupt' = interrupt \ {Generator}
  /\ stack' = <<Frame("SIGINT", "pq_free")>> \o stack
  /\ UNCHANGED <<main, generator, child, told, chld, queue, sem, clock_shm, pq, tree, shmaddr,
                 foreign, interrupts>>

HandleChld ==
  /\ generator = "alive"
  /\ ChldDeliverable
  /\ chld' = FALSE
  /\ stack' = <<Frame("SIGCHLD", "waitpid")>> \o stack
  /\ UNCHANGED <<main, generator, child, told, interrupt, queue, sem, clock_shm, pq, tree,
                 shmaddr, foreign, interrupts>>

\* killpg(getpgrp(), SIGINT), and Ctrl-C.
Group == {c \in Child : Alive(c)} \cup (IF generator = "alive" THEN {Generator} ELSE {})

CtrlC ==
  /\ generator = "alive"
  /\ interrupts < MaxInterrupts
  /\ interrupts' = interrupts + 1
  /\ interrupt' = interrupt \cup Group
  /\ UNCHANGED <<main, stack, generator, child, told, chld, queue, sem, clock_shm, pq, tree,
                 shmaddr, foreign>>

\* The generator runs, and no signal comes first.
Running == generator = "alive" /\ ~IntDeliverable /\ ~ChldDeliverable
--------------------------------------------------------------------------------
(***************************************************************************)
(* main                                                                    *)
(***************************************************************************)
Main(stage) == Running /\ stack = << >> /\ main = stage

NextStage == Stages[SelectInSeq(Stages, LAMBDA s : s = main) + 1]

\* Up to initialize_memory_Segment, initializeIPC, and semget.
SetUp ==
  /\ \/ Main("segment") /\ tree' = "whole" /\ UNCHANGED <<queue, sem>>
     \/ Main("queue") /\ queue' = "made" /\ UNCHANGED <<tree, sem>>
     \/ Main("semaphore") /\ sem' = "made" /\ UNCHANGED <<tree, queue>>
  /\ main' = NextStage
  /\ UNCHANGED <<stack, generator, child, told, interrupt, chld, clock_shm, pq, shmaddr,
                 foreign, interrupts>>

ForkChild ==
  /\ \/ Main("scheduler") /\ child' = [child EXCEPT ![Scheduler] = "forked"]
     \/ Main("clock") /\ child' = [child EXCEPT ![Clock] = "forked"]
  /\ main' = NextStage
  /\ UNCHANGED <<stack, generator, told, interrupt, chld, queue, sem, clock_shm, pq, tree,
                 shmaddr, foreign, interrupts>>

\* sync_clk waits until the shared memory of the clock exists.
Attach ==
  /\ Main("attach")
  /\ clock_shm = "made"
  /\ shmaddr' = "mapped"
  /\ main' = NextStage
  /\ UNCHANGED <<stack, generator, child, told, interrupt, chld, queue, sem, clock_shm, pq,
                 tree, foreign, interrupts>>

\* createProcess.
Launch(p) ==
  /\ Main("loop")
  /\ child[p] = "none"
  /\ child' = [child EXCEPT ![p] = "forked"]
  /\ UNCHANGED <<main, stack, generator, told, interrupt, chld, queue, sem, clock_shm, pq,
                 tree, shmaddr, foreign, interrupts>>

(***************************************************************************)
(* kill(scheduler_pid, SIGUSR1), when no process is left to be launched.   *)
(* Nothing waits for the scheduler: before it has installed its handlers,  *)
(* the signal kills it.                                                    *)
(***************************************************************************)
Tell ==
  /\ Main("loop")
  /\ ~told
  /\ \A p \in Proc : child[p] # "none"
  /\ told' = TRUE
  /\ \/ child[Scheduler] # "forked" /\ UNCHANGED <<child, chld>>
     \/ /\ child[Scheduler] \in {"forked", "ready"}
        /\ child' = [child EXCEPT ![Scheduler] = "crashed"]
        /\ chld' = TRUE
  /\ UNCHANGED <<main, stack, generator, interrupt, queue, sem, clock_shm, pq,
                 tree, shmaddr, foreign, interrupts>>
--------------------------------------------------------------------------------
(***************************************************************************)
(* The SIGCHLD handler and clear_resources, in the generator.              *)
(***************************************************************************)
Handler(place) == Running /\ stack # << >> /\ Head(stack).at = place

Go(place) == stack' = [stack EXCEPT ![1].at = place]

\* Undefined behaviour: the model follows the generator no further than this.
Crash == generator' = "crashed" /\ UNCHANGED stack

\* clear_resources with two of its calls in another order.
KillFirst(place) ==
  CASE place = "pq_null" -> "shmdt"    [] place = "shmdt" -> "killpg"
    [] place = "killpg" -> "msgctl"    [] place = "msgctl" -> "semctl"
    [] place = "semctl" -> "print"     [] place = "print" -> "destroy"
    [] place = "destroy" -> "destroying" [] place = "destroying" -> "exit"

DestroyFirst(place) ==
  CASE place = "pq_null" -> "print"    [] place = "print" -> "destroy"
    [] place = "destroy" -> "destroying" [] place = "destroying" -> "msgctl"
    [] place = "msgctl" -> "semctl"    [] place = "semctl" -> "shmdt"
    [] place = "shmdt" -> "killpg"     [] place = "killpg" -> "exit"

\* The order of the calls in clear_resources.
Following(place) ==
  CASE place = "pq_null" -> "msgctl"   [] place = "msgctl" -> "semctl"
    [] place = "semctl" -> "shmdt"     [] place = "shmdt" -> "killpg"
    [] place = "killpg" -> "print"     [] place = "print" -> "destroy"
    [] place = "destroy" -> "destroying" [] place = "destroying" -> "exit"

(***************************************************************************)
(* waitpid: any child that has ended.  The exit of the scheduler leads to  *)
(* clear_resources in the same frame, a killed child to nothing, also if   *)
(* it is the scheduler.                                                    *)
(***************************************************************************)
Reap(c) ==
  /\ Handler("waitpid")
  /\ Zombie(c)
  /\ child' = [child EXCEPT ![c] = IF Crashed(c) THEN "buried" ELSE "reaped"]
  /\ IF child[c] = "exited" THEN Go(IF c = Scheduler THEN "pq_free" ELSE "get_clk")
                            ELSE UNCHANGED stack
  /\ UNCHANGED <<main, generator, told, interrupt, chld, queue, sem, clock_shm, pq, tree,
                 shmaddr, foreign, interrupts>>

ReapedAll ==
  /\ Handler("waitpid")
  /\ \A c \in Child : ~Zombie(c)
  /\ stack' = Tail(stack)
  /\ UNCHANGED <<main, generator, child, told, interrupt, chld, queue, sem, clock_shm, pq,
                 tree, shmaddr, foreign, interrupts>>

\* deallocate_memory(Memory_Segment, pid, get_clk()), also for the clock, which
\* has no memory.  Memory_Segment still points to the tree when that is freed.
Deallocate ==
  /\ \/ Handler("get_clk") /\ IF shmaddr = "mapped" THEN Go("deallocate") /\ UNCHANGED generator
                                                   ELSE Crash
     \/ Handler("deallocate") /\ IF tree \in {"NULL", "whole"}
                                 THEN Go("waitpid") /\ UNCHANGED generator
                                 ELSE Crash
  /\ UNCHANGED <<main, child, told, interrupt, chld, queue, sem, clock_shm, pq, tree, shmaddr,
                 foreign, interrupts>>

\* pq_free: free, and then the NULL that makes a second call harmless.
FreeQueue ==
  /\ \/ Handler("pq_free") /\ IF pq = "freed" THEN Crash /\ UNCHANGED pq
                              ELSE /\ Go("pq_null")
                                   /\ pq' = IF pq = "held" THEN "freed" ELSE "NULL"
                                   /\ UNCHANGED generator
     \/ Handler("pq_null") /\ pq' = "NULL" /\ Go(Following("pq_null")) /\ UNCHANGED generator
  /\ UNCHANGED <<main, child, told, interrupt, chld, queue, sem, clock_shm, tree, shmaddr,
                 foreign, interrupts>>

Removed(object) == IF object = "made" THEN "removed" ELSE object

\* msgctl and semctl.  The ID of what has not been created is 0.
RemoveIPC ==
  /\ \/ Handler("msgctl") /\ queue' = Removed(queue) /\ foreign' = (foreign \/ queue = "none")
        /\ Go(Following("msgctl")) /\ UNCHANGED sem
     \/ Handler("semctl") /\ sem' = Removed(sem) /\ foreign' = (foreign \/ sem = "none")
        /\ Go(Following("semctl")) /\ UNCHANGED queue
  /\ UNCHANGED <<main, generator, child, told, interrupt, chld, clock_shm, pq, tree, shmaddr,
                 interrupts>>

KillNobody == {}
KillGroup == Group

\* destroy_clk(1): shmdt and killpg.
DestroyClk ==
  /\ \/ /\ Handler("shmdt")
        /\ shmaddr' = IF shmaddr = "mapped" THEN "unmapped" ELSE shmaddr
        /\ Go(Following("shmdt")) /\ UNCHANGED interrupt
     \/ /\ Handler("killpg")
        /\ interrupt' = interrupt \cup KillGroup
        /\ Go(Following("killpg")) /\ UNCHANGED shmaddr
  /\ UNCHANGED <<main, generator, child, told, chld, queue, sem, clock_shm, pq, tree, foreign,
                 interrupts>>

\* print_memory and destroy_memory_segment, which frees one block after another.
DestroyTree ==
  /\ \E place \in {"print", "destroy", "destroying"} :
       /\ Handler(place)
       /\ IF place # "destroying" /\ tree \in {"partial", "freed"}
          THEN Crash /\ UNCHANGED tree
          ELSE /\ Go(Following(place))
               /\ tree' = CASE place = "destroy" /\ tree = "whole" -> "partial"
                            [] place = "destroying" /\ tree = "partial" -> "freed"
                            [] OTHER -> tree
               /\ UNCHANGED generator
  /\ UNCHANGED <<main, child, told, interrupt, chld, queue, sem, clock_shm, pq, shmaddr,
                 foreign, interrupts>>

ExitGenerator ==
  /\ Handler("exit")
  /\ generator' = "exited"
  /\ UNCHANGED <<main, stack, child, told, interrupt, chld, queue, sem, clock_shm, pq, tree,
                 shmaddr, foreign, interrupts>>

GeneratorStep ==
  \/ HandleInt \/ HandleChld
  \/ SetUp \/ ForkChild \/ Attach \/ Tell \/ \E p \in Proc : Launch(p)
  \/ ReapedAll \/ Deallocate \/ FreeQueue \/ RemoveIPC \/ DestroyClk \/ DestroyTree
  \/ ExitGenerator \/ \E c \in Child : Reap(c)
--------------------------------------------------------------------------------
(***************************************************************************)
(* The children.                                                           *)
(***************************************************************************)
ChildIs(c, where) == child[c] = where /\ c \notin interrupt

Become(c, where) == child' = [child EXCEPT ![c] = where]

SigChld == chld' = (chld \/ generator = "alive")

\* The clock installs _cleanup; the other programs are executed.  A process
\* has been stopped by then: that is a SIGCHLD as well.
Ready(c) ==
  /\ ChildIs(c, "forked")
  /\ Become(c, "ready")
  /\ IF c \in Proc THEN SigChld ELSE UNCHANGED chld
  /\ UNCHANGED <<main, stack, generator, told, interrupt, queue, sem, clock_shm, pq, tree,
                 shmaddr, foreign, interrupts>>

\* init_clk creates the shared memory of the clock.  The others wait for it, and
\* the scheduler opens the message queue, or creates one.
Run(c) ==
  /\ ChildIs(c, "ready")
  /\ Become(c, "running")
  /\ \/ c = Clock /\ clock_shm' = "made" /\ UNCHANGED queue
     \/ c = Scheduler /\ clock_shm = "made" /\ queue' = "made" /\ UNCHANGED clock_shm
     \/ c \in Proc /\ clock_shm = "made" /\ UNCHANGED <<queue, clock_shm>>
  /\ UNCHANGED <<main, stack, generator, told, interrupt, chld, sem, pq, tree, shmaddr,
                 foreign, interrupts>>

\* A process has done its work.
Exit(p) ==
  /\ ChildIs(p, "running")
  /\ Become(p, "exited")
  /\ SigChld
  /\ UNCHANGED <<main, stack, generator, told, interrupt, queue, sem, clock_shm, pq, tree,
                 shmaddr, foreign, interrupts>>

(***************************************************************************)
(* The scheduler leaves once it has been told and has no process any more, *)
(* also when it has not read the message of one that is still there.  One  *)
(* that has crashed was the current process, and remains it.               *)
(***************************************************************************)
Leave ==
  /\ ChildIs(Scheduler, "running")
  /\ told
  /\ \A p \in Proc : ~Crashed(p)
  /\ Become(Scheduler, "exited")
  /\ SigChld
  /\ UNCHANGED <<main, stack, generator, told, interrupt, queue, sem, clock_shm, pq, tree,
                 shmaddr, foreign, interrupts>>

\* The scheduler uses a current_process that is NULL, or a process divides by its
\* runtime of zero.
CrashOf(c) ==
  /\ c # Clock
  /\ ChildIs(c, "running")
  /\ Become(c, "crashed")
  /\ SigChld
  /\ UNCHANGED <<main, stack, generator, told, interrupt, queue, sem, clock_shm, pq, tree,
                 shmaddr, foreign, interrupts>>

(***************************************************************************)
(* SIGINT in a child.  One that is only forked runs the clear_resources of *)
(* the generator, on the IPC objects and on a copy of the rest.  The clock *)
(* runs _cleanup: before it has created its shared memory, shmid is 0.     *)
(* The other programs have no handler.                                     *)
(***************************************************************************)
Interrupted(c) ==
  /\ c \in interrupt /\ Alive(c)
  /\ \/ /\ child[c] = "forked"
        /\ queue' = Removed(queue) /\ sem' = Removed(sem)
        /\ interrupt' = (interrupt \cup Group) \ {c}
        /\ Become(c, "exited")
        /\ UNCHANGED <<clock_shm, foreign>>
     \/ /\ child[c] # "forked" /\ c = Clock
        /\ clock_shm' = Removed(clock_shm) /\ foreign' = (foreign \/ clock_shm = "none")
        /\ interrupt' = interrupt \ {c}
        /\ Become(c, "exited")
        /\ UNCHANGED <<queue, sem>>
     \/ /\ child[c] # "forked" /\ c # Clock
        /\ interrupt' = interrupt \ {c}
        /\ Become(c, "killed")
        /\ UNCHANGED <<queue, sem, clock_shm, foreign>>
  /\ SigChld
  /\ UNCHANGED <<main, stack, generator, told, pq, tree, shmaddr, interrupts>>

ChildStep(c) ==
  Ready(c) \/ Run(c) \/ Interrupted(c) \/ (c \in Proc /\ Exit(c)) \/ (c = Scheduler /\ Leave)

Next == GeneratorStep \/ CtrlC \/ \E c \in Child : ChildStep(c) \/ CrashOf(c)

Spec == Init /\ [][Next]_vars

\* Every program keeps taking steps; nobody has to crash.  That the scheduler leaves
\* in the end is Terminates of KernelSim.
FairSpec == Spec /\ WF_vars(GeneratorStep) /\ \A c \in Child : WF_vars(ChildStep(c))
--------------------------------------------------------------------------------
\* The last conjunct: clear_resources is at most nested once, in the SIGCHLD
\* handler, and a handler never interrupts itself.
TypeOK ==
  /\ main \in Range(Stages)
  /\ stack \in SeqOf([handles : {"SIGINT", "SIGCHLD"}, at : Places], 2)
  /\ generator \in {"alive", "exited", "crashed"}
  /\ child \in [Child -> Life]
  /\ told \in BOOLEAN /\ chld \in BOOLEAN /\ foreign \in BOOLEAN
  /\ interrupt \subseteq {Generator} \cup Child
  /\ {queue, sem, clock_shm} \subseteq Object
  /\ pq \in {"held", "freed", "NULL"}
  /\ tree \in {"NULL", "whole", "partial", "freed"}
  /\ shmaddr \in {"NULL", "mapped", "unmapped"}
  /\ interrupts \in 0..MaxInterrupts
  /\ IsInjective([i \in DOMAIN stack |-> stack[i].handles])

(***************************************************************************)
(* README: "releases all IPC resources upon exit".  Once generator,        *)
(* scheduler and clock are gone, the message queue, the semaphore and the  *)
(* shared memory of the clock are removed, after Ctrl-C at any moment and  *)
(* even if the generator crashes in clear_resources when it has detached   *)
(* the clock.  If it crashes earlier (it is not attached yet when the      *)
(* clock exits, or pq_free is interrupted by itself) they are left.        *)
(***************************************************************************)
SharedReleased ==
  /\ generator # "alive" /\ ~Alive(Scheduler) /\ ~Alive(Clock)
  /\ generator = "crashed" => shmaddr = "unmapped"
  => "made" \notin {queue, sem, clock_shm}

(***************************************************************************)
(* Without Ctrl-C the generator ends cleanly although clear_resources      *)
(* interrupts itself by its own SIGINT and runs twice: no block is freed   *)
(* twice, nothing is used after it was freed, no foreign object is removed *)
(* and the tree is gone in the end.                                        *)
(***************************************************************************)
NaturalEndIsClean ==
  interrupts = 0 =>
    /\ generator # "crashed"
    /\ ~foreign
    /\ generator = "exited" => tree = "freed" /\ pq = "NULL"

(***************************************************************************)
(* Generator, scheduler and clock end.  If the scheduler or a process has  *)
(* crashed they go on for ever, but not for longer than until Ctrl-C,      *)
(* which ends them whatever has happened and wherever they are.            *)
(***************************************************************************)
AllEnded == generator # "alive" /\ ~Alive(Scheduler) /\ ~Alive(Clock)

EverythingEnds == <>AllEnded \/ <>[](interrupts = 0 /\ \E c \in Child : Crashed(c))
================================================================================
