---------------------------- MODULE LifecycleProofs ----------------------------
(***************************************************************************)
(* Proofs about Lifecycle, for any number of processes and however often   *)
(* the user presses Ctrl-C.                                                *)
(***************************************************************************)
EXTENDS Lifecycle, SequenceTheorems, TLAPS

Frames == [handles : {"SIGINT", "SIGCHLD"}, at : Places]

\* A handler that is in clear_resources.
Clears(f) == f.at \notin {"waitpid", "get_clk", "deallocate"}
Clearing == \E i \in DOMAIN stack : Clears(stack[i])

AfterSemctl == {"shmdt", "killpg", "print", "destroy", "destroying", "exit"}
AfterMsgctl == AfterSemctl \cup {"semctl"}

Ended(c) == Zombie(c) \/ child[c] \in {"reaped", "buried"}

ProgramStep(c) == ChildStep(c) \/ CrashOf(c)

(***************************************************************************)
(* clear_resources is entered by SIGINT, which all programs get, or when   *)
(* the scheduler has been reaped, so that the scheduler will not create    *)
(* the message queue again; it is never left but by exit.                  *)
(***************************************************************************)
Handlers ==
  \A i \in DOMAIN stack :
    /\ stack[i].handles = "SIGINT" => Clears(stack[i])
    /\ stack[i].handles = "SIGCHLD" /\ Clears(stack[i]) => child[Scheduler] = "reaped"
    /\ stack[i].at \in AfterMsgctl => queue # "made"
    /\ stack[i].at \in AfterSemctl => sem # "made"

\* SIGINT goes to all programs, and nothing is forked after it.
Doomed ==
  Generator \in interrupt \/ Blocked("SIGINT") => \A c \in Child : Alive(c) => c \in interrupt

Objects ==
  /\ main \in {"segment", "queue", "semaphore", "scheduler", "clock"} => child[Clock] = "none"
  /\ clock_shm = "made" => child[Clock] = "running"
  /\ shmaddr = "unmapped" => Clearing /\ queue # "made" /\ sem # "made"
  /\ generator = "exited" => \E i \in DOMAIN stack : stack[i].at = "exit"

SharedInv == TypeOK /\ Handlers /\ Doomed /\ Objects

(***************************************************************************)
(* Without Ctrl-C: what main has done, and what each program has.          *)
(***************************************************************************)
Progress ==
  /\ main # "loop" => ~told /\ \A p \in Proc : child[p] = "none"
  /\ main \notin {"segment", "queue"} => queue # "none"
  /\ main \notin {"segment", "queue", "semaphore"} => sem # "none"
  /\ main = "loop" => clock_shm # "none"
  /\ told => \A p \in Proc : child[p] # "none"
  /\ child[Scheduler] = "exited" => told
  /\ ~foreign

\* The handler has not come to clear_resources.
Before ==
  /\ interrupt = {} /\ generator = "alive"
  /\ pq = "held"
  /\ tree = IF main = "segment" THEN "NULL" ELSE "whole"
  /\ main = "loop" => shmaddr = "mapped"
  /\ ~Ended(Clock) /\ child[Scheduler] \notin {"killed", "reaped"}
  /\ stack # << >> => Len(stack) = 1 /\ (stack[1].at # "waitpid" => main = "loop")

\* The SIGCHLD handler is in clear_resources, up to its own SIGINT.
First ==
  /\ Len(stack) = 1 /\ stack[1].handles = "SIGCHLD"
  /\ generator = "alive" /\ tree = "whole"
  /\ stack[1].at \in {"pq_free", "pq_null", "msgctl", "semctl", "shmdt", "killpg", "print"}
  /\ pq = CASE stack[1].at = "pq_free" -> "held" [] stack[1].at = "pq_null" -> "freed"
            [] OTHER -> "NULL"
  /\ IF stack[1].at = "print" THEN Generator \in interrupt ELSE interrupt = {}

\* The SIGINT handler has interrupted it, and goes through clear_resources again.
Second ==
  /\ Len(stack) = 2 /\ stack[1].handles = "SIGINT" /\ stack[2] = Frame("SIGCHLD", "print")
  /\ generator # "crashed" /\ pq = "NULL"
  /\ tree = CASE stack[1].at = "destroying" -> "partial" [] stack[1].at = "exit" -> "freed"
              [] OTHER -> "whole"

Startup == ~Clearing /\ Before
Shutdown == Clearing /\ main = "loop" /\ child[Scheduler] = "reaped" /\ (First \/ Second)

Natural == interrupts = 0 => Progress /\ (Startup \/ Shutdown)

LInv == SharedInv /\ Natural
--------------------------------------------------------------------------------
(***************************************************************************)
(* The stack of handlers: two frames at most, for two different signals.   *)
(***************************************************************************)
StackOK ==
  /\ stack \in Seq(Frames)
  /\ Len(stack) <= 2
  /\ Len(stack) = 2 => stack[1].handles # stack[2].handles

LEMMA StackType ==
  StackOK <=> /\ stack \in SeqOf(Frames, 2)
              /\ IsInjective([i \in DOMAIN stack |-> stack[i].handles])
<1>1. stack \in SeqOf(Frames, 2) <=> stack \in Seq(Frames) /\ Len(stack) <= 2
  <2>1. ASSUME stack \in Seq(Frames), Len(stack) <= 2
        PROVE  stack \in SeqOf(Frames, 2)
    <3>1. stack \in [1..Len(stack) -> Frames] /\ Len(stack) \in Nat
      BY <2>1
    <3> QED BY <2>1, <3>1 DEF SeqOf
  <2>2. ASSUME stack \in SeqOf(Frames, 2)
        PROVE  stack \in Seq(Frames) /\ Len(stack) <= 2
    <3>1. PICK m \in 0..2 : stack \in [1..m -> Frames]
      BY <2>2 DEF SeqOf
    <3>2. m \in Nat
      OBVIOUS
    <3> QED BY <3>1, <3>2
  <2> QED BY <2>1, <2>2
<1>2. ASSUME stack \in Seq(Frames), Len(stack) <= 2
      PROVE  IsInjective([i \in DOMAIN stack |-> stack[i].handles])
               <=> (Len(stack) = 2 => stack[1].handles # stack[2].handles)
  <2>1. DOMAIN stack = 1..Len(stack) /\ Len(stack) \in Nat
    BY <1>2
  <2>2. Len(stack) = 0 \/ Len(stack) = 1 \/ Len(stack) = 2
    BY <1>2, <2>1
  <2> QED BY <2>1, <2>2 DEF IsInjective
<1> QED BY <1>1, <1>2 DEF StackOK

LEMMA PushFrame ==
  ASSUME StackOK, NEW s \in {"SIGINT", "SIGCHLD"}, ~Blocked(s), NEW place \in Places,
         stack' = <<Frame(s, place)>> \o stack
  PROVE  /\ StackOK' /\ Len(stack') = Len(stack) + 1
         /\ stack'[1] = Frame(s, place)
         /\ \A i \in DOMAIN stack : stack'[i + 1] = stack[i]
<1>1. /\ Frame(s, place) \in Frames
      /\ Frame(s, place).handles = s /\ \A i \in DOMAIN stack : stack[i].handles # s
  BY DEF Frame, Frames, Blocked
<1>2. stack \in Seq(Frames) /\ DOMAIN stack = 1..Len(stack) /\ Len(stack) \in Nat
  BY DEF StackOK
<1>3. Len(stack) # 2
  <2> SUFFICES ASSUME Len(stack) = 2 PROVE FALSE
    OBVIOUS
  <2>1. stack[1] \in Frames /\ stack[2] \in Frames
    BY <1>2
  <2> QED BY <1>1, <1>2, <2>1 DEF StackOK, Frames
<1>4. <<Frame(s, place)>> \in Seq(Frames) /\ Len(<<Frame(s, place)>>) = 1
  BY <1>1
<1>5. /\ stack' \in Seq(Frames) /\ Len(stack') = 1 + Len(stack)
      /\ \A i \in 1..1 + Len(stack) :
           stack'[i] = IF i <= 1 THEN <<Frame(s, place)>>[i] ELSE stack[i - 1]
  BY <1>2, <1>4, ConcatProperties
<1>6. stack'[1] = Frame(s, place) /\ \A i \in DOMAIN stack : stack'[i + 1] = stack[i]
  BY <1>2, <1>5
<1>7. StackOK'
  BY <1>1, <1>2, <1>3, <1>5, <1>6 DEF StackOK
<1> QED BY <1>2, <1>5, <1>6, <1>7

LEMMA GoFrame ==
  ASSUME StackOK, stack # << >>, NEW place \in Places, Go(place)
  PROVE  /\ StackOK' /\ Len(stack') = Len(stack)
         /\ stack'[1].at = place /\ stack'[1].handles = stack[1].handles
         /\ \A i \in DOMAIN stack : i # 1 => stack'[i] = stack[i]
<1>1. stack \in Seq(Frames) /\ DOMAIN stack = 1..Len(stack) /\ Len(stack) \in Nat \ {0}
  BY DEF StackOK
<1>2. stack[1] \in Frames
  BY <1>1
<1>3. [stack[1] EXCEPT !.at = place] \in Frames
  BY <1>2 DEF Frames
<1>4. stack' = [stack EXCEPT ![1] = [stack[1] EXCEPT !.at = place]]
  BY DEF Go
<1>5. stack' \in Seq(Frames) /\ Len(stack') = Len(stack)
  BY <1>1, <1>3, <1>4
<1>6. stack'[1] = [stack[1] EXCEPT !.at = place]
  BY <1>1, <1>4
<1>7. stack'[1].at = place /\ stack'[1].handles = stack[1].handles
  BY <1>2, <1>6 DEF Frames
<1>8. \A i \in DOMAIN stack : i # 1 => stack'[i] = stack[i]
  BY <1>4
<1>9. Len(stack) = 2 => stack'[2] = stack[2]
  BY <1>1, <1>8
<1> QED BY <1>5, <1>7, <1>8, <1>9 DEF StackOK

LEMMA PopFrame ==
  ASSUME StackOK, stack # << >>, stack' = Tail(stack)
  PROVE  /\ StackOK' /\ Len(stack') = Len(stack) - 1
         /\ \A i \in DOMAIN stack' : stack'[i] = stack[i + 1] /\ i + 1 \in DOMAIN stack
<1>1. /\ stack' \in Seq(Frames) /\ Len(stack') = Len(stack) - 1
      /\ \A i \in DOMAIN stack' : stack'[i] = stack[i + 1] /\ i + 1 \in DOMAIN stack
  BY DEF StackOK
<1>2. Len(stack') < 2
  BY <1>1 DEF StackOK
<1> QED BY <1>1, <1>2 DEF StackOK
--------------------------------------------------------------------------------
LEMMA NextStages ==
  /\ main = "segment" => NextStage = "queue"
  /\ main = "queue" => NextStage = "semaphore"
  /\ main = "semaphore" => NextStage = "scheduler"
  /\ main = "scheduler" => NextStage = "clock"
  /\ main = "clock" => NextStage = "attach"
  /\ main = "attach" => NextStage = "loop"
<1>1. /\ Len(Stages) = 7 /\ Stages[1] = "segment" /\ Stages[2] = "queue"
      /\ Stages[3] = "semaphore" /\ Stages[4] = "scheduler" /\ Stages[5] = "clock"
      /\ Stages[6] = "attach" /\ Stages[7] = "loop"
  BY DEF Stages
<1>2. ASSUME NEW k \in 1..6, Stages[k] = main
      PROVE  NextStage = Stages[k + 1]
  <2> DEFINE I == {i \in 1..Len(Stages) : Stages[i] = main}
  <2>1. I = {k}
    BY <1>1, <1>2
  <2>2. SelectInSeq(Stages, LAMBDA s : s = main) = k
    BY <2>1 DEF SelectInSeq, Min
  <2> QED BY <2>2 DEF NextStage
<1> QED BY <1>1, <1>2

LEMMA Names ==
  /\ Scheduler \in Child /\ Clock \in Child /\ Proc \subseteq Child /\ Generator \notin Child
  /\ Scheduler # Clock /\ Scheduler \notin Proc /\ Clock \notin Proc
  BY NamesAssumption DEF Child, Scheduler, Clock, Generator
--------------------------------------------------------------------------------
(***************************************************************************)
(* TypeOK.                                                                 *)
(***************************************************************************)
StageNames == {"segment", "queue", "semaphore", "scheduler", "clock", "attach", "loop"}

RestOK ==
  /\ main \in StageNames
  /\ generator \in {"alive", "exited", "crashed"}
  /\ child \in [Child -> Life]
  /\ told \in BOOLEAN /\ chld \in BOOLEAN /\ foreign \in BOOLEAN
  /\ interrupt \subseteq {Generator} \cup Child
  /\ queue \in Object /\ sem \in Object /\ clock_shm \in Object
  /\ pq \in {"held", "freed", "NULL"}
  /\ tree \in {"NULL", "whole", "partial", "freed"}
  /\ shmaddr \in {"NULL", "mapped", "unmapped"}
  /\ interrupts \in 0..MaxInterrupts

LEMMA TypeParts == TypeOK <=> StackOK /\ RestOK
<1>1. Range(Stages) = StageNames
  BY DEF Range, Stages, StageNames
<1> QED BY <1>1, StackType DEF TypeOK, RestOK, Frames

LEMMA TypesInit == Init => TypeOK
<1> SUFFICES ASSUME Init PROVE StackOK /\ RestOK
  BY TypeParts
<1>1. StackOK
  BY DEF Init, StackOK
<1>2. interrupts \in 0..MaxInterrupts /\ main \in StageNames
  BY InterruptsAssumption DEF Init, StageNames
<1>3. told \in BOOLEAN /\ chld \in BOOLEAN /\ foreign \in BOOLEAN
  BY Zenon DEF Init
<1>4. RestOK
  BY <1>2, <1>3 DEF Init, RestOK, Life, Object
<1> QED BY <1>1, <1>4

LEMMA GroupTypes == Group \subseteq {Generator} \cup Child
  BY DEF Group

\* A step of a child, and of the user, leaves the handlers of the generator alone.
LEMMA ChildTypes ==
  ASSUME RestOK, NEW c \in Child, ProgramStep(c)
  PROVE  RestOK' /\ UNCHANGED stack
<1>1. chld' \in BOOLEAN /\ foreign' \in BOOLEAN
  <2>1. (chld \/ generator = "alive") \in BOOLEAN /\ (foreign \/ clock_shm = "none") \in BOOLEAN
    OBVIOUS
  <2> QED BY <2>1
          DEF RestOK, ProgramStep, ChildStep, Ready, Run, Exit, Leave, Interrupted, CrashOf, SigChld
<1>2. /\ UNCHANGED <<stack, main, generator, told, pq, tree, shmaddr, interrupts>>
      /\ child' \in [Child -> Life]
  BY DEF RestOK, ProgramStep, ChildStep, Ready, Run, Exit, Leave, Interrupted, CrashOf, Become, Life
<1>3. queue' \in Object /\ sem' \in Object /\ clock_shm' \in Object
  BY DEF RestOK, ProgramStep, ChildStep, Ready, Run, Exit, Leave, Interrupted, CrashOf, Object,
         Removed
<1>4. interrupt' \subseteq {Generator} \cup Child
  BY GroupTypes DEF RestOK, ProgramStep, ChildStep, Ready, Run, Exit, Leave, Interrupted, CrashOf
<1> QED BY <1>1, <1>2, <1>3, <1>4 DEF RestOK

MainStep == SetUp \/ ForkChild \/ Attach \/ Tell \/ \E p \in Proc : Launch(p)

LEMMA MainTypes ==
  ASSUME RestOK, MainStep
  PROVE  RestOK' /\ UNCHANGED stack
<1>1. ASSUME SetUp PROVE RestOK'
  BY <1>1, NextStages DEF SetUp, Main, RestOK, StageNames, Object
<1>2. ASSUME ForkChild PROVE RestOK'
  BY <1>2, NextStages DEF ForkChild, Main, RestOK, StageNames, Life
<1>3. ASSUME Attach PROVE RestOK'
  BY <1>3, NextStages DEF Attach, Main, RestOK, StageNames
<1>4. ASSUME Tell PROVE RestOK'
  <2>1. told' = TRUE /\ chld' \in BOOLEAN
    BY <1>4 DEF Tell, RestOK
  <2>2. child' = child \/ child' = [child EXCEPT ![Scheduler] = "crashed"]
    BY <1>4 DEF Tell
  <2>3. child' \in [Child -> Life]
    BY <2>2 DEF RestOK, Life
  <2> QED BY <1>4, <2>1, <2>3 DEF Tell, RestOK
<1>5. ASSUME NEW p \in Proc, Launch(p) PROVE RestOK'
  BY <1>5 DEF Launch, RestOK, Life
<1>6. UNCHANGED stack
  BY DEF MainStep, SetUp, ForkChild, Attach, Tell, Launch
<1> QED BY <1>1, <1>2, <1>3, <1>4, <1>5, <1>6 DEF MainStep

(***************************************************************************)
(* The steps of a handler go to another place, or crash.                   *)
(***************************************************************************)
HandlerStep == Deallocate \/ FreeQueue \/ RemoveIPC \/ DestroyClk \/ DestroyTree

LEMMA HandlerTypes ==
  ASSUME StackOK, RestOK, HandlerStep
  PROVE  StackOK' /\ RestOK'
<1>1. /\ stack # << >> /\ UNCHANGED <<main, child, told, chld, clock_shm, interrupts>>
      /\ UNCHANGED stack \/ \E place \in Places : Go(place)
  BY DEF HandlerStep, Deallocate, FreeQueue, RemoveIPC, DestroyClk, DestroyTree, Handler, Crash,
         Following, Places
<1>2. StackOK'
  BY <1>1, GoFrame DEF StackOK
<1>3. RestOK'
  <2>1. ASSUME Deallocate PROVE RestOK'
    BY <2>1 DEF Deallocate, Crash, RestOK
  <2>2. ASSUME FreeQueue PROVE RestOK'
    BY <2>2 DEF FreeQueue, Crash, RestOK
  <2>3. ASSUME RemoveIPC PROVE RestOK'
    <3>1. foreign' \in BOOLEAN
      <4>1. (foreign \/ queue = "none") \in BOOLEAN /\ (foreign \/ sem = "none") \in BOOLEAN
        OBVIOUS
      <4> QED BY <2>3, <4>1 DEF RemoveIPC
    <3> QED BY <2>3, <3>1 DEF RemoveIPC, Removed, RestOK, Object
  <2>4. ASSUME DestroyClk PROVE RestOK'
    BY <2>4, GroupTypes DEF DestroyClk, KillGroup, RestOK
  <2>5. ASSUME DestroyTree PROVE RestOK'
    BY <2>5 DEF DestroyTree, Crash, RestOK
  <2> QED BY <2>1, <2>2, <2>3, <2>4, <2>5 DEF HandlerStep
<1> QED BY <1>2, <1>3

LEMMA NextCases ==
  ASSUME Next
  PROVE  \/ HandleInt \/ HandleChld \/ CtrlC \/ MainStep \/ HandlerStep
         \/ ReapedAll \/ ExitGenerator
         \/ \E c \in Child : Reap(c) \/ ProgramStep(c)
  BY DEF Next, GeneratorStep, MainStep, HandlerStep, ProgramStep

LEMMA TypesStep == TypeOK /\ [Next]_vars => TypeOK'
<1>0. TypeOK' <=> StackOK' /\ RestOK'
  BY TypeParts, PTL
<1> SUFFICES ASSUME StackOK, RestOK, [Next]_vars PROVE StackOK' /\ RestOK'
  BY <1>0, TypeParts
<1>1. CASE HandleInt \/ HandleChld
  <2>1. PICK s \in {"SIGINT", "SIGCHLD"} : ~Blocked(s) /\ \E place \in Places :
          stack' = <<Frame(s, place)>> \o stack
    BY <1>1 DEF HandleInt, HandleChld, IntDeliverable, ChldDeliverable, Places
  <2>2. StackOK'
    BY <2>1, PushFrame
  <2>3. RestOK'
    BY <1>1 DEF HandleInt, HandleChld, RestOK
  <2> QED BY <2>2, <2>3
<1>2. CASE CtrlC
  <2>1. interrupts' \in 0..MaxInterrupts
    BY <1>2, InterruptsAssumption DEF CtrlC, RestOK
  <2> QED BY <1>2, <2>1, GroupTypes DEF CtrlC, RestOK, StackOK
<1>3. CASE MainStep
  BY <1>3, MainTypes DEF StackOK
<1>4. CASE HandlerStep
  BY <1>4, HandlerTypes
<1>5. CASE ReapedAll
  BY <1>5, PopFrame DEF ReapedAll, Handler, RestOK
<1>6. CASE ExitGenerator
  BY <1>6 DEF ExitGenerator, RestOK, StackOK
<1>7. ASSUME NEW c \in Child, Reap(c) PROVE StackOK' /\ RestOK'
  <2>1. stack # << >> /\ (UNCHANGED stack \/ \E place \in Places : Go(place))
    BY <1>7 DEF Reap, Handler, Places
  <2>2. RestOK'
    BY <1>7 DEF Reap, RestOK, Life
  <2> QED BY <2>1, <2>2, GoFrame DEF StackOK
<1>8. ASSUME NEW c \in Child, ProgramStep(c) PROVE StackOK' /\ RestOK'
  BY <1>8, ChildTypes DEF StackOK
<1>9. CASE UNCHANGED vars
  BY <1>9 DEF vars, StackOK, RestOK
<1> QED BY <1>1, <1>2, <1>3, <1>4, <1>5, <1>6, <1>7, <1>8, <1>9, NextCases
--------------------------------------------------------------------------------
(***************************************************************************)
(* The steps of clear_resources and of the SIGCHLD handler as a table.     *)
(***************************************************************************)
Moves(from, to) ==
  /\ stack[1].at = from /\ stack'[1].at = to
  /\ stack'[1].handles = stack[1].handles
  /\ Len(stack') = Len(stack)
  /\ DOMAIN stack' = DOMAIN stack
  /\ \A i \in DOMAIN stack : i # 1 => stack'[i] = stack[i]

LEMMA GoMoves ==
  ASSUME StackOK, NEW from, NEW to \in Places, Handler(from), Go(to)
  PROVE  Moves(from, to)
<1>1. stack # << >> /\ stack[1].at = from
  BY DEF Handler, StackOK
<1>2. /\ StackOK' /\ Len(stack') = Len(stack)
      /\ stack'[1].at = to /\ stack'[1].handles = stack[1].handles
      /\ \A i \in DOMAIN stack : i # 1 => stack'[i] = stack[i]
  BY <1>1, GoFrame
<1>3. DOMAIN stack' = DOMAIN stack
  BY DEF Go
<1> QED BY <1>1, <1>2, <1>3 DEF Moves

Crashes ==
  /\ generator' = "crashed"
  /\ \/ stack[1].at = "get_clk" /\ shmaddr # "mapped"
     \/ stack[1].at = "deallocate" /\ tree \notin {"NULL", "whole"}
     \/ stack[1].at = "pq_free" /\ pq = "freed"
     \/ stack[1].at \in {"print", "destroy"} /\ tree \in {"partial", "freed"}
  /\ UNCHANGED <<stack, interrupt, queue, sem, pq, tree, shmaddr, foreign>>

MovesInReap ==
  /\ \/ Moves("get_clk", "deallocate") /\ shmaddr = "mapped"
     \/ Moves("deallocate", "waitpid")
  /\ UNCHANGED <<interrupt, queue, sem, pq, tree, shmaddr, foreign>>

MovesInFreeQueue ==
  /\ \/ Moves("pq_free", "pq_null") /\ pq' = IF pq = "held" THEN "freed" ELSE "NULL"
     \/ Moves("pq_null", "msgctl") /\ pq' = "NULL"
  /\ UNCHANGED <<interrupt, queue, sem, tree, shmaddr, foreign>>

MovesInRemoveIPC ==
  /\ \/ /\ Moves("msgctl", "semctl") /\ queue' # "made" /\ sem' = sem
        /\ queue' = "none" <=> queue = "none"
        /\ foreign' <=> foreign \/ queue = "none"
     \/ /\ Moves("semctl", "shmdt") /\ sem' # "made" /\ queue' = queue
        /\ sem' = "none" <=> sem = "none"
        /\ foreign' <=> foreign \/ sem = "none"
  /\ UNCHANGED <<interrupt, pq, tree, shmaddr>>

MovesInDestroyClk ==
  /\ \/ Moves("shmdt", "killpg") /\ shmaddr' \in {shmaddr, "unmapped"} /\ UNCHANGED interrupt
     \/ Moves("killpg", "print") /\ interrupt' = interrupt \cup Group /\ UNCHANGED shmaddr
  /\ UNCHANGED <<queue, sem, pq, tree, foreign>>

MovesInDestroyTree ==
  /\ \/ Moves("print", "destroy") /\ tree' = tree
     \/ Moves("destroy", "destroying") /\ tree' = IF tree = "whole" THEN "partial" ELSE tree
     \/ Moves("destroying", "exit") /\ tree' = IF tree = "partial" THEN "freed" ELSE tree
  /\ UNCHANGED <<interrupt, queue, sem, pq, shmaddr, foreign>>

HandlerMoves ==
  \/ Crashes
  \/ /\ generator' = generator
     /\ \/ MovesInReap \/ MovesInFreeQueue \/ MovesInRemoveIPC
        \/ MovesInDestroyClk \/ MovesInDestroyTree

LEMMA Order ==
  /\ Following("pq_null") = "msgctl" /\ Following("msgctl") = "semctl"
  /\ Following("semctl") = "shmdt" /\ Following("shmdt") = "killpg"
  /\ Following("killpg") = "print" /\ Following("print") = "destroy"
  /\ Following("destroy") = "destroying" /\ Following("destroying") = "exit"
  /\ {"pq_null", "msgctl", "semctl", "shmdt", "killpg", "print", "destroy", "destroying", "exit",
      "deallocate", "waitpid"} \subseteq Places
  BY DEF Following, Places

LEMMA HandlerTable ==
  ASSUME StackOK, HandlerStep
  PROVE  /\ Running /\ stack # << >> /\ 1 \in DOMAIN stack
         /\ UNCHANGED <<main, child, told, chld, clock_shm, interrupts>>
         /\ HandlerMoves
<1>1. /\ Running /\ stack # << >>
      /\ UNCHANGED <<main, child, told, chld, clock_shm, interrupts>>
  BY DEF HandlerStep, Deallocate, FreeQueue, RemoveIPC, DestroyClk, DestroyTree, Handler
<1>2. 1 \in DOMAIN stack
  BY <1>1 DEF StackOK
<1>3. \A from : Handler(from) => stack[1].at = from
  BY DEF Handler
<1>4. \A from : \A to \in Places : Handler(from) /\ Go(to) => Moves(from, to)
  BY GoMoves
<1>5. ASSUME Deallocate PROVE HandlerMoves
  <2>1. Crashes \/ (generator' = generator /\ MovesInReap)
    BY <1>3, <1>4, <1>5, Order DEF Deallocate, Crash, Crashes, MovesInReap
  <2> QED BY <2>1 DEF HandlerMoves
<1>6. ASSUME FreeQueue PROVE HandlerMoves
  <2>1. Crashes \/ (generator' = generator /\ MovesInFreeQueue)
    BY <1>3, <1>4, <1>6, Order DEF FreeQueue, Crash, Crashes, MovesInFreeQueue
  <2> QED BY <2>1 DEF HandlerMoves
<1>7. ASSUME RemoveIPC PROVE HandlerMoves
  <2>1. generator' = generator /\ MovesInRemoveIPC
    BY <1>3, <1>4, <1>7, Order DEF RemoveIPC, MovesInRemoveIPC, Removed
  <2> QED BY <2>1 DEF HandlerMoves
<1>8. ASSUME DestroyClk PROVE HandlerMoves
  <2>1. generator' = generator /\ MovesInDestroyClk
    BY <1>3, <1>4, <1>8, Order DEF DestroyClk, MovesInDestroyClk, KillGroup
  <2> QED BY <2>1 DEF HandlerMoves
<1>9. ASSUME DestroyTree PROVE HandlerMoves
  <2>1. Crashes \/ (generator' = generator /\ MovesInDestroyTree)
    BY <1>3, <1>4, <1>9, Order DEF DestroyTree, Crash, Crashes, MovesInDestroyTree
  <2> QED BY <2>1 DEF HandlerMoves
<1> QED BY <1>1, <1>2, <1>5, <1>6, <1>7, <1>8, <1>9 DEF HandlerStep
--------------------------------------------------------------------------------
(***************************************************************************)
(* SharedInv.                                                              *)
(***************************************************************************)

\* Once clear_resources has begun, the scheduler does not get as far as the queue.
LEMMA SchedulerGone ==
  ASSUME StackOK, Handlers, Doomed, Clearing
  PROVE  ~Alive(Scheduler) \/ Scheduler \in interrupt
<1>1. PICK i \in DOMAIN stack : Clears(stack[i])
  BY DEF Clearing
<1>2. stack[i] \in Frames
  BY DEF StackOK
<1>3. CASE stack[i].handles = "SIGINT"
  BY <1>3, Names DEF Doomed, Blocked
<1>4. CASE stack[i].handles = "SIGCHLD"
  BY <1>1, <1>4 DEF Handlers, Alive
<1> QED BY <1>2, <1>3, <1>4 DEF Frames

LEMMA ClearsAfter ==
  ASSUME NEW i \in DOMAIN stack, stack[i].at \in AfterMsgctl \cup {"pq_free", "pq_null", "msgctl"}
  PROVE  Clearing
  BY DEF AfterMsgctl, AfterSemctl, Clearing, Clears

\* Nothing revives a child, and only main forks one.
LEMMA ChildMoves ==
  ASSUME RestOK, NEW c \in Child, ProgramStep(c)
  PROVE  /\ UNCHANGED <<stack, main, generator, told, pq, tree, shmaddr, interrupts>>
         /\ Alive(c) /\ \A d \in Child : d # c => child'[d] = child[d]
         /\ \A d \in Child : Alive(d)' => Alive(d)
         /\ \A d \in Child : child[d] = "reaped" => child'[d] = "reaped"
         /\ interrupt' = interrupt \/ interrupt' = interrupt \ {c}
              \/ interrupt' = (interrupt \cup Group) \ {c}
         /\ interrupt' # interrupt => ~Alive(c)'
         /\ sem' \in {sem, "removed"}
         /\ \/ queue' \in {queue, "removed"}
            \/ c = Scheduler /\ child[c] = "ready" /\ c \notin interrupt
<1> USE DEF RestOK
<1>1. UNCHANGED <<stack, main, generator, told, pq, tree, shmaddr, interrupts>>
  BY ChildTypes DEF ProgramStep, ChildStep, Ready, Run, Exit, Leave, Interrupted, CrashOf
<1>2. \A d \in Child : d # c => child'[d] = child[d]
  BY DEF ProgramStep, ChildStep, Ready, Run, Exit, Leave, Interrupted, CrashOf, Become
<1>3. Alive(c)
  BY DEF ProgramStep, ChildStep, Ready, Run, Exit, Leave, Interrupted, CrashOf, ChildIs, Alive
<1>4. /\ interrupt' = interrupt \/ interrupt' = interrupt \ {c}
           \/ interrupt' = (interrupt \cup Group) \ {c}
      /\ interrupt' # interrupt => child'[c] \in {"exited", "killed"}
  BY DEF ProgramStep, ChildStep, Ready, Run, Exit, Leave, Interrupted, CrashOf, Become
<1>5. sem' \in {sem, "removed"}
  BY DEF ProgramStep, ChildStep, Ready, Run, Exit, Leave, Interrupted, CrashOf, Removed
<1>6. queue' \in {queue, "removed"} \/ (c = Scheduler /\ child[c] = "ready" /\ c \notin interrupt)
  BY DEF ProgramStep, ChildStep, Ready, Run, Exit, Leave, Interrupted, CrashOf, Removed, ChildIs
<1> QED BY <1>1, <1>2, <1>3, <1>4, <1>5, <1>6 DEF Alive

LEMMA MainFrame ==
  ASSUME MainStep
  PROVE  /\ Running /\ stack = << >>
         /\ UNCHANGED <<stack, generator, interrupt, clock_shm, pq, foreign, interrupts>>
  BY DEF MainStep, SetUp, ForkChild, Attach, Tell, Launch, Main

LEMMA HandlersStep ==
  ASSUME StackOK, RestOK, Handlers, Doomed, [Next]_vars
  PROVE  Handlers'
<1>1. CASE HandleInt \/ HandleChld
  <2>1. /\ child' = child /\ queue' = queue /\ sem' = sem
        /\ \/ ~Blocked("SIGINT") /\ stack' = <<Frame("SIGINT", "pq_free")>> \o stack
           \/ ~Blocked("SIGCHLD") /\ stack' = <<Frame("SIGCHLD", "waitpid")>> \o stack
    BY <1>1 DEF HandleInt, HandleChld, IntDeliverable, ChldDeliverable
  <2>2. /\ DOMAIN stack = 1..Len(stack) /\ DOMAIN stack' = 1..Len(stack) + 1 /\ Len(stack) \in Nat
        /\ stack'[1] \in {Frame("SIGINT", "pq_free"), Frame("SIGCHLD", "waitpid")}
        /\ \A i \in DOMAIN stack : stack'[i + 1] = stack[i]
    BY <2>1, PushFrame DEF StackOK, Places
  <2>3. \A j \in DOMAIN stack' : j = 1 \/ (j - 1 \in DOMAIN stack /\ stack'[j] = stack[j - 1])
    BY <2>2
  <2> QED BY <2>1, <2>2, <2>3 DEF Handlers, Clears, Frame, AfterMsgctl, AfterSemctl
<1>2. CASE MainStep
  BY <1>2, MainFrame DEF Handlers
<1>3. CASE HandlerStep
  <2>1. child' = child /\ 1 \in DOMAIN stack /\ HandlerMoves
    BY <1>3, HandlerTable
  <2>2. CASE Crashes
    BY <2>1, <2>2 DEF Handlers, Crashes
  <2>3. CASE MovesInReap
    BY <2>1, <2>3 DEF Handlers, MovesInReap, Moves, Clears, AfterMsgctl, AfterSemctl
  <2>4. CASE MovesInFreeQueue
    BY <2>1, <2>4 DEF Handlers, MovesInFreeQueue, Moves, Clears, AfterMsgctl, AfterSemctl
  <2>5. CASE MovesInRemoveIPC
    BY <2>1, <2>5 DEF Handlers, MovesInRemoveIPC, Moves, Clears, AfterMsgctl, AfterSemctl
  <2>6. CASE MovesInDestroyClk
    BY <2>1, <2>6 DEF Handlers, MovesInDestroyClk, Moves, Clears, AfterMsgctl, AfterSemctl
  <2>7. CASE MovesInDestroyTree
    BY <2>1, <2>7 DEF Handlers, MovesInDestroyTree, Moves, Clears, AfterMsgctl, AfterSemctl
  <2> QED BY <2>1, <2>2, <2>3, <2>4, <2>5, <2>6, <2>7 DEF HandlerMoves
<1>4. CASE ReapedAll
  <2>1. UNCHANGED <<child, queue, sem>> /\ stack' = Tail(stack) /\ stack # << >>
    BY <1>4 DEF ReapedAll, Handler
  <2> QED BY <2>1, PopFrame DEF Handlers
<1>5. ASSUME NEW c \in Child, Reap(c) PROVE Handlers'
  <2>1. /\ UNCHANGED <<queue, sem>> /\ stack # << >> /\ stack[1].at = "waitpid"
        /\ child' = [child EXCEPT ![c] = IF Crashed(c) THEN "buried" ELSE "reaped"]
    BY <1>5 DEF Reap, Handler
  <2>2. child[Scheduler] = "reaped" => child'[Scheduler] = "reaped"
    BY <1>5, <2>1, Names DEF Reap, Zombie, RestOK
  <2>3. CASE UNCHANGED stack
    BY <2>1, <2>2, <2>3 DEF Handlers
  <2>4. ASSUME NEW to \in {"pq_free", "get_clk"}, Go(to),
               child[c] = "exited", to = "pq_free" => c = Scheduler
        PROVE  Handlers'
    <3>1. Moves("waitpid", to) /\ 1 \in DOMAIN stack
      BY <1>5, <2>1, <2>4, GoMoves DEF Reap, Places, StackOK
    <3>2. to = "pq_free" => child'[Scheduler] = "reaped"
      BY <2>1, <2>4 DEF Crashed, RestOK
    <3> QED BY <2>1, <2>2, <2>4, <3>1, <3>2
            DEF Handlers, Moves, Clears, AfterMsgctl, AfterSemctl
  <2> QED BY <1>5, <2>3, <2>4 DEF Reap
<1>6. ASSUME NEW c \in Child, ProgramStep(c) PROVE Handlers'
  <2>1. queue' = "made" => queue = "made" \/ ~Clearing
    BY <1>6, ChildMoves, SchedulerGone, Names DEF Alive
  <2>2. /\ UNCHANGED stack /\ (sem' = "made" => sem = "made")
        /\ child[Scheduler] = "reaped" => child'[Scheduler] = "reaped"
    BY <1>6, ChildMoves, Names
  <2> QED BY <2>1, <2>2, ClearsAfter DEF Handlers
<1>7. CASE CtrlC \/ ExitGenerator \/ UNCHANGED vars
  BY <1>7 DEF CtrlC, ExitGenerator, vars, Handlers
<1> QED BY <1>1, <1>2, <1>3, <1>4, <1>5, <1>6, <1>7, NextCases

\* What becomes of the frames: each stays where it is in the stack or its step
\* stays in clear_resources.
LEMMA FramesKept ==
  ASSUME StackOK, [Next]_vars
  PROVE  /\ Clearing => Clearing'
         /\ Blocked("SIGINT")' => Blocked("SIGINT") \/ HandleInt
<1>1. CASE HandleInt \/ HandleChld
  <2>1. \/ HandleInt /\ ~Blocked("SIGINT") /\ stack' = <<Frame("SIGINT", "pq_free")>> \o stack
        \/ ~Blocked("SIGCHLD") /\ stack' = <<Frame("SIGCHLD", "waitpid")>> \o stack
    BY <1>1 DEF HandleInt, HandleChld, IntDeliverable, ChldDeliverable
  <2>2. /\ DOMAIN stack = 1..Len(stack) /\ DOMAIN stack' = 1..Len(stack) + 1 /\ Len(stack) \in Nat
        /\ HandleInt \/ stack'[1].handles = "SIGCHLD"
        /\ \A i \in DOMAIN stack : stack'[i + 1] = stack[i]
    BY <2>1, PushFrame DEF StackOK, Places, Frame
  <2>3. \A i \in DOMAIN stack : i + 1 \in DOMAIN stack' /\ stack'[i + 1] = stack[i]
    BY <2>2
  <2>4. \A j \in DOMAIN stack' : j = 1 \/ (j - 1 \in DOMAIN stack /\ stack'[j] = stack[j - 1])
    BY <2>2
  <2> QED BY <2>2, <2>3, <2>4 DEF Clearing, Clears, Blocked
<1>2. ASSUME NEW from, NEW to, Moves(from, to),
             \/ from \in {"waitpid", "get_clk", "deallocate"}
             \/ to \notin {"waitpid", "get_clk", "deallocate"}
      PROVE  (Clearing => Clearing') /\ (Blocked("SIGINT")' => Blocked("SIGINT"))
  BY <1>2 DEF Moves, Clearing, Clears, Blocked
<1>3. CASE HandlerStep
  <2>1. HandlerMoves
    BY <1>3, HandlerTable
  <2>2. UNCHANGED stack \/
        \E from, to \in Places :
          /\ Moves(from, to)
          /\ from \in {"waitpid", "get_clk", "deallocate"}
               \/ to \notin {"waitpid", "get_clk", "deallocate"}
    BY <2>1 DEF HandlerMoves, Crashes, MovesInReap, MovesInFreeQueue, MovesInRemoveIPC,
                MovesInDestroyClk, MovesInDestroyTree, Places
  <2> QED BY <1>2, <2>2 DEF Clearing, Blocked
<1>4. CASE ReapedAll
  <2>1. stack # << >> /\ stack[1].at = "waitpid" /\ stack' = Tail(stack)
    BY <1>4 DEF ReapedAll, Handler
  <2>2. /\ DOMAIN stack = 1..Len(stack) /\ DOMAIN stack' = 1..Len(stack) - 1 /\ Len(stack) \in Nat
        /\ \A i \in DOMAIN stack' : stack'[i] = stack[i + 1] /\ i + 1 \in DOMAIN stack
    BY <2>1, PopFrame DEF StackOK
  <2>3. \A i \in DOMAIN stack : i = 1 \/ (i - 1 \in DOMAIN stack' /\ stack'[i - 1] = stack[i])
    BY <2>2
  <2> QED BY <2>1, <2>2, <2>3 DEF Clearing, Clears, Blocked
<1>5. ASSUME NEW c \in Child, Reap(c)
      PROVE  (Clearing => Clearing') /\ (Blocked("SIGINT")' => Blocked("SIGINT"))
  <2>1. UNCHANGED stack \/ \E to \in {"pq_free", "get_clk"} : Handler("waitpid") /\ Go(to)
    BY <1>5 DEF Reap
  <2>2. UNCHANGED stack \/ \E to \in {"pq_free", "get_clk"} : Moves("waitpid", to)
    BY <2>1, GoMoves DEF Places
  <2> QED BY <1>2, <2>2 DEF Clearing, Blocked
<1>6. CASE UNCHANGED stack
  BY <1>6 DEF Clearing, Blocked
<1>7. MainStep \/ CtrlC \/ ExitGenerator \/ UNCHANGED vars => UNCHANGED stack
  BY MainFrame DEF CtrlC, ExitGenerator, vars
<1>8. ASSUME NEW c \in Child, ProgramStep(c) PROVE UNCHANGED stack
  BY <1>8 DEF ProgramStep, ChildStep, Ready, Run, Exit, Leave, Interrupted, CrashOf
<1> QED BY <1>1, <1>3, <1>4, <1>5, <1>6, <1>7, <1>8, NextCases

LEMMA DoomedStep ==
  ASSUME StackOK, RestOK, Doomed, [Next]_vars
  PROVE  Doomed'
<1>1. CASE HandleInt
  BY <1>1, Names DEF HandleInt, Doomed, IntDeliverable, Alive
<1>2. Blocked("SIGINT")' => Blocked("SIGINT") \/ HandleInt
  BY FramesKept
<1>3. \A c \in Child : Alive(c) => c \in Group
  BY DEF Group
<1>4. CASE HandleChld \/ ReapedAll \/ ExitGenerator \/ UNCHANGED vars
  BY <1>1, <1>2, <1>4 DEF HandleChld, ReapedAll, ExitGenerator, vars, Doomed, Alive
<1>5. CASE CtrlC
  BY <1>3, <1>5 DEF CtrlC, Doomed, Alive
<1>6. CASE MainStep
  <2>1. Generator \notin interrupt /\ ~Blocked("SIGINT") /\ UNCHANGED <<interrupt, stack>>
    BY <1>6, MainFrame DEF Running, IntDeliverable, Blocked
  <2> QED BY <2>1 DEF Doomed, Blocked
<1>7. CASE HandlerStep
  <2>1. child' = child /\ (interrupt' = interrupt \/ interrupt' = interrupt \cup Group)
    BY <1>7, HandlerTable
       DEF HandlerMoves, Crashes, MovesInReap, MovesInFreeQueue, MovesInRemoveIPC,
           MovesInDestroyClk, MovesInDestroyTree
  <2> QED BY <1>1, <1>2, <1>3, <2>1 DEF Doomed, Alive
<1>8. ASSUME NEW c \in Child, Reap(c) PROVE Doomed'
  <2>1. interrupt' = interrupt /\ \A d \in Child : Alive(d)' => Alive(d)
    BY <1>8 DEF Reap, RestOK, Alive
  <2> QED BY <1>1, <1>2, <2>1 DEF Doomed
<1>9. ASSUME NEW c \in Child, ProgramStep(c) PROVE Doomed'
  <2>1. /\ \A d \in Child : Alive(d)' => Alive(d)
        /\ interrupt' = interrupt \/ interrupt' = interrupt \ {c}
             \/ interrupt' = (interrupt \cup Group) \ {c}
        /\ interrupt' # interrupt => ~Alive(c)'
    BY <1>9, ChildMoves
  <2>2. c # Generator
    BY Names
  <2> QED BY <1>1, <1>2, <1>3, <2>1, <2>2 DEF Doomed
<1> QED BY <1>1, <1>4, <1>5, <1>6, <1>7, <1>8, <1>9, NextCases

LEMMA ObjectsStep ==
  ASSUME StackOK, RestOK, Handlers, Doomed, Objects, [Next]_vars
  PROVE  Objects'
<1>1. Clearing => Clearing'
  BY FramesKept
<1>2. CASE HandleInt \/ HandleChld
  BY <1>1, <1>2 DEF HandleInt, HandleChld, Objects
<1>3. CASE MainStep
  <2>1. /\ stack = << >> /\ ~Clearing
        /\ UNCHANGED <<generator, clock_shm>> /\ generator = "alive"
    BY <1>3, MainFrame DEF Clearing, Running
  <2>2. shmaddr' # "unmapped"
    BY <1>3, <2>1 DEF Objects, MainStep, SetUp, ForkChild, Attach, Tell, Launch
  <2>3. CASE SetUp
    BY <2>1, <2>2, <2>3, NextStages DEF SetUp, Main, Objects
  <2>4. CASE ForkChild
    BY <2>1, <2>2, <2>4, NextStages, Names DEF ForkChild, Main, Objects, RestOK
  <2>5. CASE Attach
    BY <2>1, <2>2, <2>5, NextStages DEF Attach, Main, Objects
  <2>6. CASE Tell
    BY <2>1, <2>2, <2>6, Names DEF Tell, Objects, RestOK
  <2>7. ASSUME NEW p \in Proc, Launch(p) PROVE Objects'
    BY <2>1, <2>2, <2>7, Names DEF Launch, Main, Objects, RestOK
  <2> QED BY <1>3, <2>3, <2>4, <2>5, <2>6, <2>7 DEF MainStep
<1>4. CASE HandlerStep
  <2>1. /\ generator = "alive" /\ UNCHANGED <<main, child, clock_shm>>
        /\ 1 \in DOMAIN stack /\ HandlerMoves
    BY <1>4, HandlerTable DEF Running
  <2>2. generator' # "exited"
    BY <2>1 DEF HandlerMoves, Crashes
  <2>3. /\ queue' = "made" => queue = "made"
        /\ sem' = "made" => sem = "made"
    BY <2>1 DEF HandlerMoves, Crashes, MovesInReap, MovesInFreeQueue, MovesInRemoveIPC,
                MovesInDestroyClk, MovesInDestroyTree
  <2>4. shmaddr' = "unmapped" => shmaddr = "unmapped" \/ stack[1].at = "shmdt"
    BY <2>1 DEF HandlerMoves, Crashes, MovesInReap, MovesInFreeQueue, MovesInRemoveIPC,
                MovesInDestroyClk, MovesInDestroyTree, Moves
  <2>5. stack[1].at = "shmdt" => Clearing /\ queue # "made" /\ sem # "made"
    BY <2>1, ClearsAfter DEF Handlers, AfterMsgctl, AfterSemctl
  <2> QED BY <1>1, <2>1, <2>2, <2>3, <2>4, <2>5 DEF Objects
<1>5. CASE ReapedAll
  BY <1>1, <1>5 DEF ReapedAll, Handler, Running, Objects
<1>6. CASE ExitGenerator
  <2>1. 1 \in DOMAIN stack /\ stack[1].at = "exit"
    BY <1>6 DEF ExitGenerator, Handler, StackOK
  <2> QED BY <1>1, <1>6, <2>1 DEF ExitGenerator, Objects
<1>7. ASSUME NEW c \in Child, Reap(c) PROVE Objects'
  <2>1. child[Clock] \in {"none", "running"} => child'[Clock] = child[Clock]
    BY <1>7, Names DEF Reap, Zombie, RestOK
  <2> QED BY <1>1, <1>7, <2>1 DEF Reap, Handler, Running, Objects
<1>8. ASSUME NEW c \in Child, ProgramStep(c) PROVE Objects'
  <2>1. /\ UNCHANGED <<stack, main, generator, shmaddr>> /\ Alive(c)
        /\ \A d \in Child : d # c => child'[d] = child[d]
        /\ sem' = "made" => sem = "made"
    BY <1>8, ChildMoves
  <2>2. queue' = "made" => queue = "made" \/ ~Clearing
    BY <1>8, ChildMoves, SchedulerGone, Names DEF Alive
  <2>3. child[Clock] = "none" => child'[Clock] = "none"
    BY <2>1, Names DEF Alive
  <2>4. clock_shm' = "made" => child'[Clock] = "running"
    <3>1. CASE c = Clock
      BY <1>8, <3>1, Names
         DEF ProgramStep, ChildStep, Ready, Run, Exit, Leave, Interrupted, CrashOf, ChildIs,
             Become, Removed, RestOK, Objects
    <3>2. CASE c # Clock
      BY <1>8, <2>1, <3>2, Names
         DEF ProgramStep, ChildStep, Ready, Run, Exit, Leave, Interrupted, CrashOf, Objects
    <3> QED BY <3>1, <3>2
  <2> QED BY <1>1, <2>1, <2>2, <2>3, <2>4 DEF Objects
<1>9. CASE CtrlC \/ UNCHANGED vars
  BY <1>1, <1>9 DEF CtrlC, vars, Objects
<1> QED BY <1>2, <1>3, <1>4, <1>5, <1>6, <1>7, <1>8, <1>9, NextCases

LEMMA SharedStep == SharedInv /\ [Next]_vars => SharedInv'
<1> SUFFICES ASSUME SharedInv, [Next]_vars PROVE SharedInv'
  OBVIOUS
<1>1. StackOK /\ RestOK
  BY TypeParts DEF SharedInv
<1>2. TypeOK'
  BY TypesStep DEF SharedInv
<1>3. Handlers' /\ Doomed' /\ Objects'
  BY <1>1, HandlersStep, DoomedStep, ObjectsStep DEF SharedInv
<1> QED BY <1>2, <1>3 DEF SharedInv

LEMMA SharedInit == Init => SharedInv
<1> SUFFICES ASSUME Init PROVE SharedInv
  OBVIOUS
<1>1. TypeOK
  BY TypesInit
<1>2. stack = << >> /\ ~Clearing /\ ~Blocked("SIGINT") /\ Handlers
  BY DEF Init, Clearing, Blocked, Handlers
<1>3. Doomed
  BY <1>2 DEF Init, Doomed
<1>4. Objects
  BY Names DEF Init, Objects
<1> QED BY <1>1, <1>2, <1>3, <1>4 DEF SharedInv

LEMMA SharedIsReleased == SharedInv => SharedReleased
<1> SUFFICES ASSUME SharedInv, generator # "alive", ~Alive(Scheduler), ~Alive(Clock),
                    generator = "crashed" => shmaddr = "unmapped"
             PROVE  "made" \notin {queue, sem, clock_shm}
  BY DEF SharedReleased
<1>1. clock_shm # "made"
  BY DEF SharedInv, Objects, Alive
<1>2. CASE generator = "crashed"
  BY <1>1, <1>2 DEF SharedInv, Objects
<1>3. CASE generator = "exited"
  BY <1>1, <1>3 DEF SharedInv, Objects, Handlers, AfterMsgctl, AfterSemctl
<1> QED BY <1>2, <1>3, TypeParts DEF SharedInv, RestOK

(***************************************************************************)
(* The variables of the startup and the shutdown always have their types:  *)
(* signal() blocks a signal while its handler runs, so that the generator  *)
(* never has more than one SIGINT and one SIGCHLD handler to come back to, *)
(* however often Ctrl-C is pressed.                                        *)
(***************************************************************************)
THEOREM ProgramsHaveTypes == Spec => []TypeOK
<1>1. Init => TypeOK
  BY TypesInit
<1>2. TypeOK /\ [Next]_vars => TypeOK'
  BY TypesStep
<1> QED BY <1>1, <1>2, PTL DEF Spec

(***************************************************************************)
(* Once generator, scheduler and clock are gone the message queue, the     *)
(* semaphore and the shared memory of the clock are removed: at the        *)
(* natural end, after Ctrl-C at any moment and any number of times, and    *)
(* after a crash of the generator that has detached the clock.             *)
(***************************************************************************)
THEOREM ResourcesAreReleased == Spec => []SharedReleased
<1>1. Init => SharedInv
  BY SharedInit
<1>2. SharedInv /\ [Next]_vars => SharedInv'
  BY SharedStep
<1>3. SharedInv => SharedReleased
  BY SharedIsReleased
<1> QED BY <1>1, <1>2, <1>3, PTL DEF Spec
--------------------------------------------------------------------------------
(***************************************************************************)
(* Natural.                                                                *)
(***************************************************************************)
LEMMA NoCtrlC ==
  ASSUME RestOK, [Next]_vars, interrupts' = 0
  PROVE  interrupts = 0 /\ (UNCHANGED vars \/ GeneratorStep \/ \E c \in Child : ProgramStep(c))
<1>1. CtrlC => FALSE
  BY DEF CtrlC, RestOK
<1>2. CASE GeneratorStep
  <2>1. MainStep \/ HandlerStep => interrupts' = interrupts
    BY MainFrame DEF HandlerStep, Deallocate, FreeQueue, RemoveIPC, DestroyClk, DestroyTree
  <2>2. ~MainStep /\ ~HandlerStep => interrupts' = interrupts
    BY <1>2 DEF GeneratorStep, MainStep, HandlerStep, HandleInt, HandleChld, ReapedAll,
                ExitGenerator, Reap
  <2> QED BY <1>2, <2>1, <2>2
<1>3. ASSUME NEW c \in Child, ProgramStep(c) PROVE interrupts' = interrupts
  BY <1>3, ChildMoves
<1> QED BY <1>1, <1>2, <1>3 DEF Next, ProgramStep, vars

LEMMA ProgressStep ==
  ASSUME StackOK, RestOK, Progress, Startup \/ Shutdown, [Next]_vars
  PROVE  Progress'
<1>0. main # "loop" => interrupt = {} /\ ~Clearing
  BY DEF Startup, Shutdown, Before
<1>1. CASE HandleInt \/ HandleChld \/ CtrlC \/ ReapedAll \/ ExitGenerator \/ UNCHANGED vars
  BY <1>1 DEF HandleInt, HandleChld, CtrlC, ReapedAll, ExitGenerator, vars, Progress
<1>2. CASE MainStep
  <2>1. UNCHANGED foreign /\ UNCHANGED clock_shm
    BY <1>2, MainFrame
  <2>2. CASE SetUp
    BY <2>1, <2>2, NextStages DEF SetUp, Main, Progress
  <2>3. CASE ForkChild
    BY <2>1, <2>3, NextStages, Names DEF ForkChild, Main, Progress, RestOK
  <2>4. CASE Attach
    BY <2>1, <2>4, NextStages DEF Attach, Main, Progress
  <2>5. CASE Tell
    <3>1. told' /\ main = "loop" /\ UNCHANGED <<main, queue, sem, clock_shm>>
      BY <2>1, <2>5 DEF Tell, Main
    <3>2. \A p \in Proc : child'[p] = child[p] /\ child[p] # "none"
      BY <2>5, Names DEF Tell, RestOK
    <3> QED BY <2>1, <3>1, <3>2 DEF Progress
  <2>6. ASSUME NEW p \in Proc, Launch(p) PROVE Progress'
    <3>1. /\ main = "loop" /\ UNCHANGED <<main, told, queue, sem>> /\ child[p] = "none"
          /\ child'[Scheduler] = child[Scheduler]
          /\ child'[p] = "forked" /\ \A d \in Child : d # p => child'[d] = child[d]
      BY <2>6, Names DEF Launch, Main, RestOK
    <3>2. ~told
      BY <3>1 DEF Progress
    <3> QED BY <2>1, <3>1, <3>2, Names DEF Progress
  <2> QED BY <1>2, <2>2, <2>3, <2>4, <2>5, <2>6 DEF MainStep
<1>3. CASE HandlerStep
  <2>1. UNCHANGED <<main, child, told, clock_shm>> /\ HandlerMoves
    BY <1>3, HandlerTable
  <2>2. /\ queue # "none" => queue' # "none"
        /\ sem # "none" => sem' # "none"
    BY <2>1 DEF HandlerMoves, Crashes, MovesInReap, MovesInFreeQueue, MovesInRemoveIPC,
                MovesInDestroyClk, MovesInDestroyTree
  <2>3. \/ UNCHANGED foreign
        \/ stack[1].at = "msgctl" /\ (foreign' <=> foreign \/ queue = "none")
        \/ stack[1].at = "semctl" /\ (foreign' <=> foreign \/ sem = "none")
    BY <2>1 DEF HandlerMoves, Crashes, MovesInReap, MovesInFreeQueue, MovesInRemoveIPC,
                MovesInDestroyClk, MovesInDestroyTree, Moves
  <2>4. stack[1].at \in {"msgctl", "semctl"} => main = "loop"
    BY <1>0, <1>3, HandlerTable, ClearsAfter DEF AfterMsgctl
  <2>5. ~foreign'
    BY <2>3, <2>4 DEF Progress
  <2> QED BY <2>1, <2>2, <2>5 DEF Progress
<1>4. ASSUME NEW c \in Child, Reap(c) PROVE Progress'
  <2>1. /\ UNCHANGED <<main, told, queue, sem, clock_shm, foreign>>
        /\ Zombie(c) /\ child'[c] \in {"reaped", "buried"}
        /\ \A d \in Child : d # c => child'[d] = child[d]
    BY <1>4 DEF Reap, RestOK
  <2>2. child[c] # "none"
    BY <2>1 DEF Zombie
  <2>3. \A p \in Proc : child'[p] = "none" <=> child[p] = "none"
    BY <2>1, <2>2, Names
  <2>4. child'[Scheduler] = "exited" => child[Scheduler] = "exited"
    BY <2>1, Names
  <2> QED BY <2>1, <2>3, <2>4 DEF Progress
<1>5. ASSUME NEW c \in Child, ProgramStep(c) PROVE Progress'
  <2>1. /\ UNCHANGED <<main, told>> /\ Alive(c)
        /\ \A d \in Child : d # c => child'[d] = child[d]
        /\ child'[c] # "none"
    BY <1>5, ChildMoves
       DEF ProgramStep, ChildStep, Ready, Run, Exit, Leave, Interrupted, CrashOf, Become, RestOK
  <2>2. /\ queue # "none" => queue' # "none"
        /\ sem # "none" => sem' # "none"
        /\ clock_shm # "none" => clock_shm' # "none"
    BY <1>5 DEF ProgramStep, ChildStep, Ready, Run, Exit, Leave, Interrupted, CrashOf, Removed
  <2>3. ~foreign'
    BY <1>0, <1>5 DEF ProgramStep, ChildStep, Ready, Run, Exit, Leave, Interrupted, CrashOf,
                      Progress
  <2>4. child'[Scheduler] = "exited" => told
    <3>1. CASE c # Scheduler
      BY <2>1, <3>1, Names DEF Progress
    <3>2. CASE c = Scheduler
      <4>1. interrupt = {}
        BY <2>1, <3>2 DEF Alive, Startup, Shutdown, Before
      <4>2. Leave \/ child'[Scheduler] # "exited"
        BY <1>5, <3>2, <4>1, Names
           DEF ProgramStep, ChildStep, Ready, Run, Interrupted, CrashOf, Become, RestOK
      <4> QED BY <4>2 DEF Leave
    <3> QED BY <3>1, <3>2
  <2>5. \A p \in Proc : /\ child[p] = "none" => child'[p] = "none"
                        /\ child[p] # "none" => child'[p] # "none"
    BY <2>1, Names DEF Alive
  <2> QED BY <2>1, <2>2, <2>3, <2>4, <2>5 DEF Progress
<1> QED BY <1>1, <1>2, <1>3, <1>4, <1>5, NextCases

\* Up to the exit of the scheduler the generator runs its SIGCHLD handler only.
LEMMA StartupShape ==
  ASSUME StackOK, Handlers, Startup
  PROVE  \/ stack = << >>
         \/ /\ Len(stack) = 1 /\ DOMAIN stack = {1} /\ stack[1].handles = "SIGCHLD"
            /\ stack[1].at \in {"waitpid", "get_clk", "deallocate"}
<1>1. CASE stack # << >>
  <2>1. Len(stack) = 1 /\ DOMAIN stack = {1} /\ stack[1] \in Frames
    BY <1>1 DEF StackOK, Startup, Before
  <2>2. ~Clears(stack[1])
    BY <2>1 DEF Startup, Clearing
  <2>3. stack[1].at \in {"waitpid", "get_clk", "deallocate"}
    BY <2>2 DEF Clears
  <2>4. stack[1].handles = "SIGCHLD"
    BY <2>1, <2>2 DEF Handlers, Frames
  <2> QED BY <2>1, <2>3, <2>4
<1> QED BY <1>1

LEMMA StartupStep ==
  ASSUME StackOK, RestOK, Handlers, Progress, Startup, [Next]_vars, interrupts' = 0
  PROVE  Startup' \/ Shutdown'
<1> USE DEF Startup, Before
<1>0. \/ stack = << >>
      \/ /\ Len(stack) = 1 /\ DOMAIN stack = {1} /\ stack[1].handles = "SIGCHLD"
         /\ stack[1].at \in {"waitpid", "get_clk", "deallocate"}
  BY StartupShape
<1>1. CASE UNCHANGED vars
  BY <1>1 DEF vars, Clearing, Clears, Ended, Zombie
<1>2. ~HandleInt
  BY DEF HandleInt, IntDeliverable
<1>3. CASE HandleChld
  <2>1. stack = << >>
    BY <1>0, <1>3 DEF HandleChld, ChldDeliverable, Blocked
  <2>2. stack' = <<Frame("SIGCHLD", "waitpid")>>
    BY <1>3, <2>1 DEF HandleChld
  <2>3. Len(stack') = 1 /\ stack'[1].at = "waitpid" /\ DOMAIN stack' = {1} /\ ~Clearing'
    BY <2>2 DEF Frame, Clearing, Clears
  <2> QED BY <1>3, <2>3 DEF HandleChld, Ended, Zombie
<1>4. CASE MainStep
  <2>1. UNCHANGED <<stack, generator, interrupt, pq>> /\ stack = << >> /\ ~Clearing'
    BY <1>4, MainFrame DEF Clearing
  <2>2. CASE SetUp
    BY <2>1, <2>2, NextStages DEF SetUp, Main, Ended, Zombie
  <2>3. CASE ForkChild
    BY <2>1, <2>3, NextStages, Names DEF ForkChild, Main, Ended, Zombie, RestOK
  <2>4. CASE Attach
    BY <2>1, <2>4, NextStages DEF Attach, Main, Ended, Zombie
  <2>5. CASE Tell
    <3>1. /\ UNCHANGED <<main, tree, shmaddr>>
          /\ child'[Clock] = child[Clock] /\ child'[Scheduler] \in {child[Scheduler], "crashed"}
      BY <2>5, Names DEF Tell, RestOK
    <3> QED BY <2>1, <3>1 DEF Ended, Zombie
  <2>6. ASSUME NEW p \in Proc, Launch(p) PROVE Startup'
    BY <2>1, <2>6, Names DEF Launch, Ended, Zombie, RestOK
  <2> QED BY <1>4, <2>2, <2>3, <2>4, <2>5, <2>6 DEF MainStep
<1>5. CASE HandlerStep
  <2>1. stack # << >> /\ UNCHANGED <<main, child>> /\ HandlerMoves
    BY <1>5, HandlerTable
  <2>2. generator' = generator /\ MovesInReap
    BY <1>0, <2>1, NextStages
       DEF HandlerMoves, Crashes, MovesInFreeQueue, MovesInRemoveIPC, MovesInDestroyClk,
           MovesInDestroyTree, Moves
  <2>3. /\ Len(stack') = 1 /\ DOMAIN stack' = {1} /\ main = "loop"
        /\ stack'[1].at \in {"deallocate", "waitpid"}
    BY <1>0, <2>1, <2>2 DEF MovesInReap, Moves
  <2>4. ~Clearing'
    BY <2>3 DEF Clearing, Clears
  <2> QED BY <2>1, <2>2, <2>3, <2>4 DEF MovesInReap, Ended, Zombie
<1>6. CASE ReapedAll
  <2>1. stack # << >> /\ stack' = Tail(stack)
    BY <1>6 DEF ReapedAll, Handler
  <2>2. stack' = << >>
    BY <1>0, <2>1 DEF StackOK
  <2> QED BY <1>6, <2>2 DEF ReapedAll, Clearing, Ended, Zombie
<1>7. ~ExitGenerator
  BY <1>0 DEF ExitGenerator, Handler, StackOK
<1>8. ASSUME NEW c \in Child, Reap(c) PROVE Startup' \/ Shutdown'
  <2>1. /\ UNCHANGED <<main, generator, interrupt, pq, tree, shmaddr>>
        /\ Handler("waitpid") /\ Len(stack) = 1 /\ stack[1].at = "waitpid" /\ c # Clock
        /\ child' = [child EXCEPT ![c] = IF Crashed(c) THEN "buried" ELSE "reaped"]
    BY <1>0, <1>8, Names DEF Reap, Handler, Ended, Zombie
  <2>2. child'[Clock] = child[Clock] /\ (c # Scheduler => child'[Scheduler] = child[Scheduler])
    BY <2>1, Names DEF RestOK
  <2>3. CASE child[c] # "exited"
    <3>1. /\ UNCHANGED stack
          /\ c = Scheduler => child'[c] = "buried"
      BY <1>8, <2>1, <2>3, Names DEF Reap, Zombie, Crashed, RestOK
    <3> QED BY <2>1, <2>2, <3>1 DEF Clearing, Clears, Ended, Zombie
  <2>4. CASE child[c] = "exited"
    <3>1. main = "loop"
      BY <2>1, <2>4, Names DEF Progress, Child
    <3>2. Moves("waitpid", IF c = Scheduler THEN "pq_free" ELSE "get_clk")
      BY <1>8, <2>1, <2>4, GoMoves DEF Reap, Places
    <3>3. Len(stack') = 1 /\ DOMAIN stack' = {1} /\ stack'[1].handles = "SIGCHLD"
          /\ stack'[1].at = IF c = Scheduler THEN "pq_free" ELSE "get_clk"
      BY <1>0, <2>1, <3>2 DEF Moves
    <3>4. CASE c = Scheduler
      <4>1. Clearing' /\ child'[Scheduler] = "reaped" /\ tree = "whole"
        BY <2>1, <2>4, <3>1, <3>3, <3>4, Names DEF Clearing, Clears, Crashed, RestOK
      <4>2. First'
        BY <2>1, <3>3, <3>4, <4>1 DEF First
      <4> QED BY <2>1, <3>1, <4>1, <4>2 DEF Shutdown
    <3>5. CASE c # Scheduler
      <4>1. ~Clearing'
        BY <3>3, <3>5 DEF Clearing, Clears
      <4> QED BY <2>1, <2>2, <3>1, <3>3, <3>5, <4>1 DEF Ended, Zombie
    <3> QED BY <3>4, <3>5
  <2> QED BY <2>3, <2>4
<1>9. ASSUME NEW c \in Child, ProgramStep(c) PROVE Startup'
  <2>1. UNCHANGED <<stack, main, generator, pq, tree, shmaddr>> /\ Alive(c)
        /\ \A d \in Child : d # c => child'[d] = child[d]
    BY <1>9, ChildMoves
  <2>2. UNCHANGED interrupt /\ (c = Clock => ~Ended(Clock)')
        /\ (c = Scheduler => child'[Scheduler] \notin {"killed", "reaped"})
    BY <1>9, Names
       DEF ProgramStep, ChildStep, Ready, Run, Exit, Leave, Interrupted, CrashOf, Become, Ended,
           Zombie, RestOK
  <2> QED BY <2>1, <2>2, Names DEF Clearing, Clears, Ended, Zombie
<1>10. ~CtrlC
  BY NoCtrlC DEF CtrlC, RestOK
<1> QED BY <1>1, <1>2, <1>3, <1>4, <1>5, <1>6, <1>7, <1>8, <1>9, <1>10, NextCases

\* The scheduler has been reaped: it takes no step, and nothing else changes the queue.
LEMMA FirstStep ==
  ASSUME StackOK, RestOK, Doomed, First, Clearing, main = "loop",
         child[Scheduler] = "reaped", [Next]_vars, interrupts' = 0
  PROVE  First' \/ Second'
<1>0. /\ Len(stack) = 1 /\ DOMAIN stack = {1} /\ stack # << >> /\ stack[1] \in Frames
      /\ stack[1].handles = "SIGCHLD" /\ Blocked("SIGCHLD")
  BY DEF First, StackOK, Blocked
<1>1. CASE UNCHANGED vars
  BY <1>1 DEF vars, First
<1>2. CASE HandleInt
  <2>1. stack[1].at = "print"
    BY <1>2 DEF HandleInt, IntDeliverable, First
  <2>2. stack[1] = Frame("SIGCHLD", "print")
    BY <1>0, <2>1 DEF Frames, Frame
  <2>3. stack' = <<Frame("SIGINT", "pq_free")>> \o stack /\ ~Blocked("SIGINT")
    BY <1>2 DEF HandleInt, IntDeliverable
  <2>4. Len(stack') = 2 /\ stack'[1] = Frame("SIGINT", "pq_free") /\ stack'[2] = stack[1]
    BY <1>0, <2>3, PushFrame DEF Places
  <2>5. UNCHANGED <<generator, pq, tree>> /\ generator = "alive"
    BY <1>2 DEF HandleInt
  <2>6. Second'
    BY <2>1, <2>2, <2>4, <2>5 DEF First, Second, Frame
  <2> QED BY <2>6
<1>3. ~HandleChld
  BY <1>0 DEF HandleChld, ChldDeliverable
<1>4. ~MainStep
  BY <1>0, MainFrame
<1>5. CASE HandlerStep
  <2>1. HandlerMoves /\ Running
    BY <1>5, HandlerTable
  <2>2. stack[1].at # "print"
    BY <1>0, <2>1 DEF First, Running, IntDeliverable, Blocked
  <2>3. generator' = "alive" /\ tree' = "whole" /\ Len(stack') = 1
        /\ stack'[1].handles = "SIGCHLD"
    BY <1>0, <2>1, <2>2
       DEF HandlerMoves, Crashes, MovesInReap, MovesInFreeQueue, MovesInRemoveIPC,
           MovesInDestroyClk, MovesInDestroyTree, Moves, First
  <2>4. CASE MovesInFreeQueue
    BY <2>2, <2>3, <2>4 DEF MovesInFreeQueue, Moves, First
  <2>5. CASE MovesInRemoveIPC
    <3>1. UNCHANGED <<interrupt, pq>> /\ pq = "NULL" /\ interrupt = {}
          /\ stack'[1].at \in {"semctl", "shmdt"}
      BY <2>5 DEF MovesInRemoveIPC, Moves, First
    <3> QED BY <2>3, <3>1 DEF First
  <2>6. CASE MovesInDestroyClk
    <3>1. pq' = "NULL"
      BY <2>6 DEF MovesInDestroyClk, Moves, First
    <3>2. CASE stack[1].at = "shmdt"
      <4>1. stack'[1].at = "killpg" /\ interrupt' = {}
        BY <2>6, <3>2 DEF MovesInDestroyClk, Moves, First
      <4> QED BY <2>3, <3>1, <4>1 DEF First
    <3>3. CASE stack[1].at = "killpg"
      <4>1. stack'[1].at = "print" /\ interrupt' = interrupt \cup Group
        BY <2>6, <3>3 DEF MovesInDestroyClk, Moves
      <4>2. Generator \in Group
        BY DEF Group, First
      <4> QED BY <2>3, <3>1, <4>1, <4>2 DEF First
    <3> QED BY <2>6, <3>2, <3>3 DEF MovesInDestroyClk, Moves
  <2> QED BY <2>1, <2>2, <2>3, <2>4, <2>5, <2>6
          DEF HandlerMoves, Crashes, MovesInReap, MovesInDestroyTree, Moves, First
<1>6. ~ReapedAll /\ ~ExitGenerator /\ \A c \in Child : ~Reap(c)
  <2>1. ~Handler("waitpid") /\ ~Handler("exit")
    BY <1>0 DEF Handler, First
  <2> QED BY <2>1 DEF ReapedAll, ExitGenerator, Reap
<1>7. ASSUME NEW c \in Child, ProgramStep(c) PROVE First'
  <2>1. /\ UNCHANGED <<stack, generator, pq, tree>>
        /\ interrupt' = interrupt \/ interrupt' = interrupt \ {c}
             \/ interrupt' = (interrupt \cup Group) \ {c}
    BY <1>7, ChildMoves
  <2>2. Generator \in interrupt => Generator \in interrupt'
    BY <2>1, Names
  <2>3. interrupt = {} => interrupt' = {}
    BY <1>7 DEF ProgramStep, ChildStep, Ready, Run, Exit, Leave, Interrupted, CrashOf
  <2> QED BY <2>1, <2>2, <2>3 DEF First
<1>8. ~CtrlC
  BY NoCtrlC DEF CtrlC, RestOK
<1> QED BY <1>1, <1>2, <1>3, <1>4, <1>5, <1>6, <1>7, <1>8, NextCases

LEMMA SecondStep ==
  ASSUME StackOK, RestOK, Handlers, Second, [Next]_vars, interrupts' = 0
  PROVE  Second'
<1>0. /\ Len(stack) = 2 /\ DOMAIN stack = {1, 2} /\ stack # << >> /\ stack[1] \in Frames
      /\ Blocked("SIGINT") /\ Blocked("SIGCHLD")
      /\ stack[1].at \notin {"waitpid", "get_clk", "deallocate"}
  <2>1. Len(stack) = 2 /\ DOMAIN stack = {1, 2} /\ stack # << >> /\ stack[1] \in Frames
    <3>1. stack \in Seq(Frames) /\ Len(stack) = 2
      BY DEF Second, StackOK
    <3>2. DOMAIN stack = 1..2
      BY <3>1
    <3> QED BY <3>1, <3>2
  <2>2. Blocked("SIGINT") /\ Blocked("SIGCHLD")
    BY <2>1 DEF Second, Blocked, Frame
  <2>3. Clears(stack[1])
    BY <2>1 DEF Second, Handlers
  <2> QED BY <2>1, <2>2, <2>3 DEF Clears
<1>1. CASE UNCHANGED stack /\ UNCHANGED <<pq, tree>> /\ generator' \in {generator, "exited"}
  BY <1>1 DEF Second
<1>2. ~HandleInt /\ ~HandleChld
  BY <1>0 DEF HandleInt, HandleChld, IntDeliverable, ChldDeliverable
<1>3. ~MainStep
  BY <1>0, MainFrame
<1>4. CASE HandlerStep
  <2>1. HandlerMoves
    BY <1>4, HandlerTable
  <2>2. ~Crashes
    BY <1>0 DEF Crashes, Second
  <2>3. \E from, to : Moves(from, to)
    BY <2>1, <2>2 DEF HandlerMoves, MovesInReap, MovesInFreeQueue, MovesInRemoveIPC,
                      MovesInDestroyClk, MovesInDestroyTree
  <2>4. /\ Len(stack') = 2 /\ stack'[1].handles = "SIGINT"
        /\ stack'[2] = Frame("SIGCHLD", "print")
    BY <1>0, <2>3 DEF Moves, Second
  <2>5. generator' = generator /\ pq' = "NULL"
    BY <2>1, <2>2 DEF HandlerMoves, MovesInReap, MovesInFreeQueue, MovesInRemoveIPC,
                      MovesInDestroyClk, MovesInDestroyTree, Second
  <2>6. tree' = CASE stack'[1].at = "destroying" -> "partial" [] stack'[1].at = "exit" -> "freed"
                  [] OTHER -> "whole"
    BY <1>0, <2>1, <2>2
       DEF HandlerMoves, MovesInReap, MovesInFreeQueue, MovesInRemoveIPC,
           MovesInDestroyClk, MovesInDestroyTree, Moves, Second
  <2> QED BY <2>4, <2>5, <2>6 DEF Second
<1>5. ~ReapedAll /\ \A c \in Child : ~Reap(c)
  <2>1. ~Handler("waitpid")
    BY <1>0 DEF Handler
  <2> QED BY <2>1 DEF ReapedAll, Reap
<1>6. CASE ExitGenerator \/ UNCHANGED vars
  BY <1>1, <1>6 DEF ExitGenerator, vars
<1>7. ASSUME NEW c \in Child, ProgramStep(c) PROVE Second'
  BY <1>1, <1>7, ChildMoves
<1>8. ~CtrlC
  BY NoCtrlC DEF CtrlC, RestOK
<1> QED BY <1>2, <1>3, <1>4, <1>5, <1>6, <1>7, <1>8, NextCases

LEMMA NaturalStep == LInv /\ [Next]_vars => LInv'
<1> SUFFICES ASSUME SharedInv, Natural, [Next]_vars, interrupts' = 0
             PROVE  Progress' /\ (Startup' \/ Shutdown')
  BY SharedStep DEF LInv, Natural
<1>1. StackOK /\ RestOK /\ Handlers /\ Doomed
  BY TypeParts DEF SharedInv
<1>2. interrupts = 0
  BY <1>1, NoCtrlC
<1>3. Progress /\ (Startup \/ Shutdown)
  BY <1>2 DEF Natural
<1>4. Progress'
  BY <1>1, <1>3, ProgressStep
<1>5. CASE Startup
  BY <1>1, <1>3, <1>4, <1>5, StartupStep
<1>6. CASE Shutdown
  <2>1. Clearing /\ main = "loop" /\ child[Scheduler] = "reaped" /\ (First \/ Second)
    BY <1>6 DEF Shutdown
  <2>2. First' \/ Second'
    BY <1>1, <2>1, FirstStep, SecondStep
  <2>3. Clearing'
    BY <1>1, <2>1, FramesKept
  <2>4. main' = "loop" /\ child'[Scheduler] = "reaped"
    <3>1. ~MainStep
      BY <2>1, MainFrame DEF First, Second
    <3>2. HandlerStep => UNCHANGED <<main, child>>
      BY <1>1, HandlerTable
    <3>3. HandleInt \/ HandleChld \/ CtrlC \/ ReapedAll \/ ExitGenerator \/ UNCHANGED vars
            => UNCHANGED <<main, child>>
      BY DEF HandleInt, HandleChld, CtrlC, ReapedAll, ExitGenerator, vars
    <3>4. ASSUME NEW c \in Child, Reap(c)
          PROVE  main' = main /\ child'[Scheduler] = "reaped"
      BY <1>1, <2>1, <3>4, Names DEF Reap, Zombie, RestOK
    <3>5. ASSUME NEW c \in Child, ProgramStep(c)
          PROVE  main' = main /\ child'[Scheduler] = "reaped"
      BY <1>1, <2>1, <3>5, ChildMoves, Names
    <3> QED BY <2>1, <3>1, <3>2, <3>3, <3>4, <3>5, NextCases
  <2> QED BY <1>4, <2>2, <2>3, <2>4 DEF Shutdown
<1> QED BY <1>3, <1>5, <1>6

LEMMA NaturalInit == Init => LInv
<1> SUFFICES ASSUME Init PROVE LInv
  OBVIOUS
<1>1. SharedInv
  BY SharedInit
<1>2. Progress
  BY Names DEF Init, Progress
<1>3. Startup
  BY Names DEF Init, Startup, Before, Clearing, Ended, Zombie
<1> QED BY <1>1, <1>2, <1>3 DEF LInv, Natural

LEMMA NaturalIsClean == LInv => NaturalEndIsClean
<1> SUFFICES ASSUME LInv, interrupts = 0
             PROVE  /\ generator # "crashed" /\ ~foreign
                    /\ generator = "exited" => tree = "freed" /\ pq = "NULL"
  BY DEF NaturalEndIsClean
<1>1. Progress /\ (Startup \/ Shutdown)
  BY DEF LInv, Natural
<1>2. generator # "crashed" /\ ~foreign
  BY <1>1 DEF Progress, Startup, Before, Shutdown, First, Second
<1>3. ASSUME generator = "exited" PROVE tree = "freed" /\ pq = "NULL"
  <2>1. Second
    BY <1>1, <1>3 DEF Startup, Before, Shutdown, First
  <2>2. PICK i \in DOMAIN stack : stack[i].at = "exit"
    BY <1>3 DEF LInv, SharedInv, Objects
  <2>3. i \in {1, 2}
    <3>1. stack \in Seq(Frames) /\ Len(stack) = 2
      BY <2>1, TypeParts DEF LInv, SharedInv, StackOK, Second
    <3> QED BY <2>2, <3>1
  <2>4. stack[1].at = "exit"
    BY <2>1, <2>2, <2>3 DEF Second, Frame
  <2> QED BY <2>1, <2>4 DEF Second
<1> QED BY <1>2, <1>3

(***************************************************************************)
(* Without Ctrl-C the generator never crashes, removes no foreign object,  *)
(* and exits with every block freed exactly once, although the SIGINT that *)
(* destroy_clk sends interrupts clear_resources and runs it from the start.*)
(***************************************************************************)
THEOREM NaturalEndIsProper == Spec => []NaturalEndIsClean
<1>1. Init => LInv
  BY NaturalInit
<1>2. LInv /\ [Next]_vars => LInv'
  BY NaturalStep
<1>3. LInv => NaturalEndIsClean
  BY NaturalIsClean
<1> QED BY <1>1, <1>2, <1>3, PTL DEF Spec
================================================================================
