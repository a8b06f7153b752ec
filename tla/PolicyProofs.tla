------------------------------ MODULE PolicyProofs ------------------------------
(***************************************************************************)
(* What the algorithms promise, for every number of processes and every    *)
(* input: SRTN runs a process that has least to do, at any speed of ticks  *)
(* and signals.  If the work of a tick is done before the next tick, the   *)
(* processes share one CPU and the utilisation is at most 100%, with HPF   *)
(* and RR the times that are reported add up, and with RR nobody waits     *)
(* for longer than a quantum of everybody else.                            *)
(***************************************************************************)
EXTENDS KernelSimProofs

\* The scheduler never takes a process for shorter than it is.
Estimates ==
  /\ at = "stop" => job[current_process].exec > 0
  /\ \A p \in Proc :
       /\ shm[p] <= pcb[p].remaining
       /\ p \in ReadySet => pcb[p].remaining >= 0

\* SRTN has compared the current process with all others.
Compared == at \in {"top", "recv", "check", "clock", "compare", "store", "post", "grant", "refresh",
                    "report", "wait"}

Foremost ==
  Compared /\ ~Idle => \A q \in ReadySet : shm[current_process] <= pcb[q].remaining

PolicyInv == IInv /\ Estimates /\ (Algorithm = "SRTN" => Foremost)
--------------------------------------------------------------------------------
(***************************************************************************)
(* Remaining times.                                                        *)
(***************************************************************************)
LEMMA WorkFalls ==
  ASSUME IInv, Next
  PROVE  job' = job /\ \A p \in Proc : shm'[p] <= shm[p] /\ shm[p] \in Int /\ shm'[p] \in Int
<1> USE DEF IInv
<1>1. shm \in [Proc -> Int] /\ \A p \in Proc : job[p].exec \in Nat
  BY JobTypes DEF Types
<1>2. ASSUME UNCHANGED <<job, shm>>
      PROVE  job' = job /\ \A p \in Proc : shm'[p] <= shm[p] /\ shm[p] \in Int /\ shm'[p] \in Int
  BY <1>1, <1>2
<1>3. ASSUME NEW q \in Proc, ProcessNext(q)
      PROVE  job' = job /\ \A p \in Proc : shm'[p] <= shm[p] /\ shm[p] \in Int /\ shm'[p] \in Int
  <2>1. job' = job
    BY <1>3, ProcessFrame
  <2>2. CASE Acquire(q) \/ ReadClk(q) \/ Exit(q)
    BY <1>1, <2>1, <2>2 DEF Acquire, ReadClk, Exit
  <2>3. CASE Work(q)
    <3>1. shm' = [shm EXCEPT ![q] = shm[q] - 1]
      BY <2>3 DEF Work
    <3> QED BY <1>1, <2>1, <3>1
  <2>4. CASE Notify(q)
    <3>1. shm' = [shm EXCEPT ![q] = 0] /\ shm[q] = 0
      BY <2>4 DEF Notify, Running, Working
    <3> QED BY <1>1, <2>1, <3>1
  <2> QED BY <1>3, <2>2, <2>3, <2>4 DEF ProcessNext, ProcessStep
<1>4. CASE Launch
  <2>1. booked \in Proc /\ life[booked] = "unborn"
    BY <1>4, LaunchPlaces DEF Launched
  <2>2. shm' = [shm EXCEPT ![booked] = job[booked].exec] /\ job' = job
    BY <1>4 DEF Launch
  <2> QED BY <1>1, <2>1, <2>2 DEF Working
<1> QED BY <1>2, <1>3, <1>4, NextCases, SchedulerFrame, PlanFrame
        DEF Reap, ReapProcess, ReapScheduler, Tick, sharedVars

\* A quiet step reads the remaining time of the current process, or no other.
LEMMA QuietRemaining ==
  ASSUME IInv, QuietStep, NEW p \in Proc
  PROVE  \/ pcb'[p].remaining = pcb[p].remaining
         \/ p = current_process /\ at # "pick" /\ pcb'[p].remaining = shm[p]
<1> USE DEF IInv
<1>1. pcb \in [Proc -> PCBType] /\ shm \in [Proc -> Int] /\ (~Idle => current_process \in Proc)
  BY DEF Types, Idle
<1>2. ASSUME ~Idle
      PROVE  Refreshed(current_process)[p].remaining =
               IF p = current_process THEN shm[p] ELSE pcb[p].remaining
  BY <1>1, <1>2 DEF Refreshed, PCBType
<1>3. CASE Preempt
  <2>1. ~Idle /\ at # "pick"
    BY <1>3 DEF Control, Preempt, Step
  <2> DEFINE r == Refreshed(current_process)
  <2>2. r \in [Proc -> PCBType]
    BY <1>1, <2>1, RefreshedType
  <2>3. pcb' = [r EXCEPT ![current_process].last_prempt = clockValue]
    BY <1>3 DEF Preempt
  <2>4. r[p].remaining = IF p = current_process THEN shm[p] ELSE pcb[p].remaining
    BY <1>2, <2>1
  <2> HIDE DEF r
  <2>5. pcb'[p].remaining = r[p].remaining
    BY <1>1, <2>1, <2>2, <2>3 DEF PCBType
  <2> QED BY <2>1, <2>4, <2>5
<1>4. CASE ~Preempt
  <2>1. pcb' = pcb \/ (~Idle /\ at # "pick" /\ pcb' = Refreshed(current_process))
    BY <1>4 DEF QuietStep, Boot, SyncClk, Leave, Down, CheckIdle, ReceiveDone, ReadTime,
                CompareTime, StoreTime, RunAlgorithm, EnterSwitch, TestBeforeGrant, Grant,
                TestBeforeReport, Report, WaitForTick, HandleGeneratorCompletion, Step
  <2> QED BY <1>2, <2>1
<1> QED BY <1>3, <1>4

\* Giving the CPU to a process does not touch remaining times.
LEMMA DispatchRemaining ==
  ASSUME Types, NEW q \in Proc, NEW now \in 0..MaxClk, Dispatch(q, now), NEW p \in Proc
  PROVE  pcb'[p].remaining = pcb[p].remaining
<1>1. pcb \in [Proc -> PCBType]
  BY DEF Types
<1>2. CASE pcb[q].start = None
  <2>1. pcb' = [pcb EXCEPT ![q].start = now, ![q].waiting = WaitToStart(q, now)]
    BY <1>2 DEF Dispatch
  <2> QED BY <1>1, <2>1 DEF PCBType
<1>3. CASE pcb[q].start # None
  <2>1. pcb' = [pcb EXCEPT ![q].waiting = WaitToResume(q, now)]
    BY <1>3 DEF Dispatch
  <2> QED BY <1>1, <2>1 DEF PCBType
<1> QED BY <1>2, <1>3

(***************************************************************************)
(* Estimates.                                                              *)
(***************************************************************************)
LEMMA EstimatesStep ==
  ASSUME IInv, Estimates, Next
  PROVE  Estimates'
<1> USE DEF IInv, Estimates
<1>1. /\ job' = job /\ shm \in [Proc -> Int]
      /\ \A p \in Proc : /\ shm'[p] <= shm[p] /\ shm[p] \in Int /\ shm'[p] \in Int
                         /\ pcb[p].remaining \in Int /\ job[p].exec \in Nat
  BY WorkFalls, JobTypes DEF Types, PCBType
<1>2. ReadySet \subseteq Proc
  BY ReadyInProc DEF SchedulerPlaces
<1>3. ASSUME UNCHANGED schedulerVars PROVE Estimates'
  <2>1. UNCHANGED <<at, current_process, pcb, rr_queue, ready_Heap>> /\ ReadySet' = ReadySet
    BY <1>3, ReadyKept DEF schedulerVars
  <2> QED BY <1>1, <1>2, <2>1
<1>4. CASE QuietStep
  <2>1. UNCHANGED <<shm, current_process>> /\ ReadySet' = ReadySet
    BY <1>4, QuietFrame, ReadyKept
  <2>2. ASSUME NEW p \in Proc
        PROVE  shm[p] <= pcb'[p].remaining /\ (p \in ReadySet => pcb'[p].remaining >= 0)
    <3>1. p = current_process /\ at # "pick" => p \notin ReadySet
      BY DEF SchedulerPlaces
    <3> QED BY <1>1, <1>4, <3>1, QuietRemaining
  <2>3. at' = "stop" => at = "stop" \/ (Preempt /\ job[current_process].exec # 0)
    <3>1. at' = "stop" => at = "stop" \/ Preempt
      BY <1>4, QuietTimes
    <3> QED BY <3>1 DEF Preempt
  <2>4. Preempt => current_process \in Proc
    BY DEF Preempt, Step, Control, Idle, Types
  <2>5. at' = "stop" => job'[current_process'].exec > 0
    BY <1>1, <2>1, <2>3, <2>4
  <2> QED BY <1>1, <1>2, <2>1, <2>2, <2>5
<1>5. CASE Receive
  <2>1. /\ Head(msgq) \in Proc /\ ReadySet' = ReadySet \cup {Head(msgq)} /\ shm' = shm
        /\ pcb' = [pcb EXCEPT ![Head(msgq)] = NewPCB(Head(msgq))]
        /\ at' # "stop"
    BY <1>5, ReceivePlaces DEF Receive
  <2>2. Launched(Head(msgq)) /\ ~Finished(Head(msgq))
    BY <1>5, ReceivePlaces DEF SchedulerPlaces
  <2>3. shm[Head(msgq)] <= job[Head(msgq)].exec
    BY <1>1, <2>1, <2>2 DEF Working, Ended, Launched, Types, Life
  <2>4. ASSUME NEW p \in Proc
        PROVE  shm[p] <= pcb'[p].remaining /\ (p \in ReadySet' => pcb'[p].remaining >= 0)
    <3>1. pcb'[p] = IF p = Head(msgq) THEN NewPCB(p) ELSE pcb[p]
      BY <2>1 DEF Types
    <3>2. NewPCB(p).remaining = job[p].exec
      BY DEF NewPCB
    <3> QED BY <1>1, <2>1, <2>3, <3>1, <3>2
  <2> QED BY <2>1, <2>4
<1>6. CASE StopVictim
  <2>1. /\ at = "stop" /\ at' = "pick" /\ current_process \in Proc /\ UNCHANGED <<pcb, shm>>
        /\ ReadySet' = ReadySet \cup {current_process}
    BY <1>6, StopPlaces DEF StopVictim, Step
  <2>2. shm[current_process] >= 0
    BY <1>1, <2>1 DEF Working, Ended, Types, Life
  <2> QED BY <1>1, <2>1, <2>2
<1>7. ASSUME ReadySet' \subseteq ReadySet, shm' = shm, at' # "stop",
             \A p \in Proc : pcb'[p].remaining = pcb[p].remaining
      PROVE  Estimates'
  BY <1>1, <1>2, <1>7
<1>8. CASE Pick
  <2>1. at' # "stop" /\ shm' = shm /\ clockValue \in 0..MaxClk
    BY <1>8, PickFrame DEF Clocks, Deciding, Types
  <2>2. ASSUME NEW q \in ReadySet, ReadySet' = ReadySet \ {q}, Dispatch(q, clockValue)
        PROVE  Estimates'
    BY <1>2, <1>7, <2>1, <2>2, DispatchRemaining
  <2>3. ASSUME ReadySet = {}, ReadySet' = {}, UNCHANGED pcb PROVE Estimates'
    BY <1>7, <2>1, <2>3
  <2> QED BY <1>8, <2>2, <2>3, PickCases DEF SchedulerPlaces
<1>9. CASE HandleProcessCompletion
  <2>1. shm' = shm /\ at' # "stop" /\ clk \in 0..MaxClk
    BY <1>9, CompletionFrame, CompletionPlaces DEF Types
  <2>2. CASE CompletionLeavesIdle
    <3>1. ReadySet' = ReadySet /\ UNCHANGED pcb
      BY <2>2, ReadyKept DEF CompletionLeavesIdle
    <3> QED BY <1>7, <2>1, <3>1
  <2>3. CASE CompletionTakesNext
    <3>1. PICK q \in ReadySet : ReadySet' = ReadySet \ {q} /\ Dispatch(q, clk)
      BY <2>3 DEF CompletionTakesNext
    <3> QED BY <1>2, <1>7, <2>1, <3>1, DispatchRemaining
  <2> QED BY <1>9, <2>2, <2>3, CompletionPlaces
<1> QED BY <1>3, <1>4, <1>5, <1>6, <1>8, <1>9, NextCases, ProcessFrame
        DEF Reap, ReapScheduler, Tick

(***************************************************************************)
(* Foremost: the algorithm runs whenever somebody has arrived, and both    *)
(* the context switch and the completion handler take a least process.     *)
(***************************************************************************)
LEMMA TakeLeast ==
  ASSUME Types, ReadyTypes, Algorithm = "SRTN", NEW now \in 0..MaxClk, TakeNext(now)
  PROVE  \E p \in ReadySet :
           /\ current_process' = p /\ ReadySet' = ReadySet \ {p}
           /\ \A q \in ReadySet : pcb[p].remaining <= pcb[q].remaining
           /\ \A q \in Proc : pcb'[q].remaining = pcb[q].remaining
<1>1. PICK p \in ready_Heap : Least(p) /\ ready_Heap' = ready_Heap \ {p} /\ Dispatch(p, now)
  BY DEF TakeNext
<1>2. ReadySet = ready_Heap /\ ReadySet' = ready_Heap' /\ ready_Heap \subseteq Proc
  BY DEF ReadySet, ReadyTypes
<1>3. current_process' = p
  BY <1>1 DEF Dispatch
<1>4. \A q \in ready_Heap : pcb[p].remaining <= pcb[q].remaining
  BY <1>1 DEF Least, Key
<1> QED BY <1>1, <1>2, <1>3, <1>4, DispatchRemaining

LEMMA ForemostStep ==
  ASSUME Algorithm = "SRTN", IInv, Estimates, Foremost, Next
  PROVE  Foremost'
<1> USE DEF IInv
<1>1. /\ \A p \in Proc : /\ shm'[p] <= shm[p] /\ shm[p] \in Int /\ shm'[p] \in Int
                         /\ pcb[p].remaining \in Int
      /\ ReadySet \subseteq Proc /\ (~Idle => current_process \in Proc)
      /\ ReadySet = ready_Heap
      /\ \A q \in ReadySet : pcb[q].remaining >= 0
  BY WorkFalls, ReadyInProc DEF Types, PCBType, Idle, SchedulerPlaces, ReadySet, Estimates
<1>2. ASSUME UNCHANGED current_process, ReadySet' = ReadySet,
             ~Idle => \A q \in ReadySet : pcb'[q].remaining = pcb[q].remaining,
             Compared' /\ ~Idle => Compared
      PROVE  Foremost'
  BY <1>1, <1>2 DEF Foremost, Idle
<1>3. ASSUME current_process' = None PROVE Foremost'
  BY <1>3 DEF Foremost, Idle
<1>4. ASSUME UNCHANGED schedulerVars PROVE Foremost'
  <2>1. UNCHANGED <<at, current_process, pcb, rr_queue, ready_Heap>> /\ ReadySet' = ReadySet
    BY <1>4, ReadyKept DEF schedulerVars
  <2> QED BY <1>2, <2>1 DEF Compared
<1>5. CASE QuietStep
  <2>1. UNCHANGED <<shm, current_process>> /\ ReadySet' = ReadySet
    BY <1>5, QuietFrame, ReadyKept
  <2>2. SUFFICES ASSUME Compared', ~Idle PROVE Foremost'
    BY <2>1 DEF Foremost, Idle
  <2>3. at # "pick" /\ at \notin {"boot", "sync"}
    BY <1>5, <2>2, QuietKeepsPick DEF Compared, Control, Idle
  <2>4. \A q \in ReadySet : pcb'[q].remaining = pcb[q].remaining
    BY <1>1, <1>5, <2>3, QuietRemaining DEF SchedulerPlaces
  <2>5. CASE Compared
    BY <1>2, <2>1, <2>4, <2>5
  <2>6. CASE RunAlgorithm
    <3>1. ~MustSwitch
      BY <2>2, <2>6 DEF RunAlgorithm, Compared
    <3>2. \A q \in ready_Heap : ~(shm[current_process] > pcb[q].remaining)
      BY <2>2, <3>1 DEF MustSwitch, NoReady, Key
    <3>3. \A q \in ReadySet : shm[current_process] <= pcb[q].remaining
      BY <1>1, <2>2, <3>2
    <3> QED BY <2>1, <2>4, <3>3 DEF Foremost
  <2>7. CASE EnterSwitch
    <3>1. shm[current_process] = 0
      BY <2>2, <2>7 DEF EnterSwitch, Compared
    <3> QED BY <1>1, <2>1, <2>4, <3>1 DEF Foremost
  <2> QED BY <1>5, <2>2, <2>3, <2>5, <2>6, <2>7
          DEF QuietStep, Boot, SyncClk, Leave, Down, CheckIdle, ReceiveDone, ReadTime, CompareTime,
              StoreTime, Preempt, TestBeforeGrant, Grant, TestBeforeReport, Report, WaitForTick,
              Step, Compared, HandleGeneratorCompletion
<1>6. CASE Receive
  BY <1>3, <1>6 DEF Receive, Idle, Foremost, Compared
<1>7. CASE StopVictim
  BY <1>7 DEF StopVictim, Foremost, Compared
<1>8. ASSUME NEW now \in 0..MaxClk, TakeNext(now) PROVE Foremost'
  <2>1. PICK p \in ReadySet :
          /\ current_process' = p /\ ReadySet' = ReadySet \ {p}
          /\ \A q \in ReadySet : pcb[p].remaining <= pcb[q].remaining
          /\ \A q \in Proc : pcb'[q].remaining = pcb[q].remaining
    BY <1>8, TakeLeast DEF SchedulerPlaces
  <2>2. shm[p] <= pcb[p].remaining
    BY <1>1 DEF Estimates
  <2>3. \A q \in ReadySet' : shm'[p] <= pcb'[q].remaining
    BY <1>1, <2>1, <2>2
  <2> QED BY <2>1, <2>3 DEF Foremost
<1>9. CASE Pick
  <2>1. clockValue \in 0..MaxClk
    BY <1>9, PickFrame DEF Clocks, Deciding, Types
  <2> QED BY <1>3, <1>8, <1>9, <2>1 DEF Pick
<1>10. CASE HandleProcessCompletion
  <2>1. clk \in 0..MaxClk /\ ~Idle
    BY <1>10, CompletionPlaces DEF Types
  <2> QED BY <1>3, <1>8, <1>10, <2>1 DEF HandleProcessCompletion
<1> QED BY <1>4, <1>5, <1>6, <1>7, <1>9, <1>10, NextCases, ProcessFrame
        DEF Reap, ReapScheduler, Tick

LEMMA PolicyInit == Init => PolicyInv
<1> SUFFICES ASSUME Init PROVE PolicyInv
  OBVIOUS
<1>1. IInv
  BY InitHolds
<1>2. /\ at = "boot" /\ ReadySet = {}
      /\ pcb = [p \in Proc |-> NewPCB(p)] /\ shm = [p \in Proc |-> job[p].exec]
  BY EmptyQueue DEF Init, SchedulerInit, SharedInit, ReadySet
<1>3. \A p \in Proc : shm[p] = pcb[p].remaining /\ shm[p] \in Int
  BY <1>1, <1>2 DEF NewPCB, IInv, Types
<1> QED BY <1>1, <1>2, <1>3 DEF PolicyInv, Estimates, Foremost, Compared

LEMMA PolicyStep == PolicyInv /\ [Next]_vars => PolicyInv'
<1>1. ASSUME PolicyInv, Next PROVE PolicyInv'
  BY <1>1, StepHolds, EstimatesStep, ForemostStep DEF PolicyInv
<1>2. ASSUME PolicyInv, UNCHANGED vars PROVE PolicyInv'
  <2>1. UNCHANGED <<sharedVars, schedulerVars>>
    BY <1>2 DEF vars
  <2>2. UNCHANGED <<job, shm, at, current_process, pcb, rr_queue, ready_Heap>>
    BY <2>1 DEF sharedVars, schedulerVars
  <2>3. ReadySet' = ReadySet
    BY <2>2, ReadyKept
  <2>4. IInv'
    BY <1>2, StutterHolds DEF PolicyInv
  <2> QED BY <1>2, <2>2, <2>3, <2>4 DEF PolicyInv, Estimates, Foremost, Compared, Idle
<1> QED BY <1>1, <1>2

(***************************************************************************)
(* With SRTN, when the work of a tick is done, nobody who is ready has     *)
(* less to do than the process that runs, although the remaining times     *)
(* change while they are compared, and whoever has taken the process: the  *)
(* main loop or the completion handler.                                    *)
(***************************************************************************)
THEOREM ShortestHasTheCpu ==
  ASSUME Algorithm = "SRTN"
  PROVE  Spec => []ShortestRuns
<1>1. PolicyInv => ShortestRuns
  BY DEF PolicyInv, Foremost, Compared, ShortestRuns, ReadySet
<1> QED BY <1>1, PolicyInit, PolicyStep, PTL DEF Spec
--------------------------------------------------------------------------------
(***************************************************************************)
(* The tick of the scheduler, if what is to be done in a tick is done      *)
(* before the next one.                                                    *)
(***************************************************************************)
InTick == at \in {"run", "switch", "preempt", "stop", "pick", "post", "grant", "refresh", "report"}
BeforeRun == at \in {"top", "recv", "check", "clock", "compare", "store"}

\* The generator has posted the token of this tick.
Posted == gen = "sleep" \/ (gen = "poll" /\ last_tick = clk)

\* The work of a tick is done in that tick.
Marks ==
  /\ Algorithm # "SRTN" \/ at \in {"post", "grant", "refresh", "report"} => caller = "tick"
  /\ InTick /\ caller = "tick" => current_time = clk
  /\ last_tick = -1 => gen \in {"poll", "exited"} /\ pq = Proc

\* With HPF and RR, whoever runs is granted every tick: the scheduler does the
\* work of each tick once, and waits for the next token only when it comes.
TickOrder ==
  /\ Deciding => clockValue = clk
  /\ ~Idle /\ (InTick \/ at = "wait") => clockValue = current_time
  /\ ~Idle /\ BeforeRun => clockValue # clk
  /\ ~Idle /\ Posted /\ (at = "top" \/ (at = "wait" /\ clk # current_time)) => semid = 1

\* The current process has been given the right to run in this tick.
Granted == at \in {"refresh", "report"} \/ (at = "wait" /\ clk = current_time)

\* Where a process is in its program before and after it is granted a tick.
Waits(p) ==
  /\ sync_sem[p] = 0
  /\ life[p] = "spin" \/ (life[p] = "tick" /\ seen[p] < clk)
Works(p) ==
  \/ life[p] = "spin" /\ sync_sem[p] = 1
  \/ life[p] = "read" /\ sync_sem[p] = 0
  \/ life[p] = "tick" /\ sync_sem[p] = IF seen[p] = clk THEN 0 ELSE 1

\* With SRTN, the completion handler may have given it the CPU in mid tick.
OnTurn(p) ==
  /\ Waits(p) \/ (Granted /\ Works(p))
  /\ Algorithm # "SRTN" => ~(Granted /\ Waits(p))

\* It has no work to do any more.
Spent(p) == life[p] \in {"notify", "exit", "zombie", "reaped", "crashed"}

Turns ==
  /\ \A p \in Proc : life[p] = "tick" => seen[p] \in 0..clk
  /\ ~Idle /\ at # "pick" => current_process \notin stopped
  /\ ~Idle /\ at # "pick" /\ ~Spent(current_process) =>
       OnTurn(current_process)
  /\ \A p \in Proc :
       /\ p \in Range(msgq) => pcb[p].start = None
       /\ Launched(p) /\ ~Finished(p) /\ pcb[p].start = None =>
            life[p] = "spin" /\ sync_sem[p] = 0 /\ shm[p] = job[p].exec
       /\ p \in ReadySet => life[p] \in {"notify", "crashed"} \/ Waits(p)

\* The time up to which a process has waited or worked, by its PCB and its
\* remaining time.
Accounted(p) == job[p].arrival + pcb[p].waiting + (job[p].exec - shm[p])

\* It has still to do the work of the tick that it was granted last.
Owing(p) == life[p] = "tick" /\ seen[p] # clk

Until(p, t) == Accounted(p) = IF Owing(p) THEN t - 1 ELSE t

\* The books of a process are complete up to now if it has the CPU, up to its
\* last preemption if it waits in the ready queue.
Balanced(p) ==
  life[p] # "crashed" =>
    /\ p = current_process /\ p \notin ReadySet => Until(p, clk)
    /\ p \in ReadySet /\ pcb[p].start # None => Until(p, pcb[p].last_prempt)

Books == \A p \in Proc : Balanced(p)

TickInv == IInv /\ (Alive => Marks /\ Turns /\ (Algorithm # "SRTN" => TickOrder))
TimedInv == TickInv /\ (Alive => Books) /\ WaitingIsExact

LEMMA AliveBefore ==
  ASSUME Next, Alive'
  PROVE  Alive
  BY NextCases DEF QuietStep, Boot, SyncClk, Leave, Down, CheckIdle, ReceiveDone, ReadTime,
                   CompareTime, StoreTime, RunAlgorithm, EnterSwitch, Preempt, TestBeforeGrant,
                   Grant, TestBeforeReport, Report, WaitForTick, HandleGeneratorCompletion,
                   Receive, StopVictim, Pick, HandleProcessCompletion, Step, Alive, schedulerVars,
                   ProcessNext, Reap, ReapScheduler, Tick

(***************************************************************************)
(* When the clock ticks, whoever has the CPU waits for the end of the tick *)
(* it was granted, or for the next one; with HPF and RR it was granted one.*)
(***************************************************************************)
LEMMA TickWhenSettled ==
  ASSUME Timely, IInv, Alive, Marks, Turns, Tick
  PROVE  /\ at \in {"wait", "top", "sync"} /\ (at = "wait" => clk = current_time)
         /\ (at = "top" => semid = 0)
         /\ gen = "poll" /\ (last_tick = clk \/ (last_tick = -1 /\ pq = Proc))
         /\ ~Idle =>
              /\ current_process \in Proc /\ current_process \notin ReadySet
              /\ Launched(current_process) /\ ~Finished(current_process)
              /\ \/ life[current_process] = "crashed" \/ Waits(current_process)
                 \/ /\ life[current_process] = "tick" /\ seen[current_process] = clk
                    /\ sync_sem[current_process] = 0
<1> USE DEF IInv
<1> DEFINE c == current_process
<1>1. /\ SchedulerSettled /\ ~usr2 /\ gen # "exited"
      /\ GeneratorSettled \/ last_tick = -1
      /\ \A p \in Proc : ProcessSettled(p)
  BY DEF Tick, SchedulerSettled
<1>2. /\ at \in {"wait", "top", "sync"} /\ (at = "wait" => clk = current_time)
      /\ (at = "top" => semid = 0)
  BY <1>1 DEF SchedulerSettled
<1>3. gen = "poll" /\ (last_tick = clk \/ (last_tick = -1 /\ pq = Proc))
  BY <1>1 DEF GeneratorSettled, Marks
<1>4. ASSUME ~Idle
      PROVE  /\ c \in Proc /\ c \notin ReadySet /\ Launched(c) /\ ~Finished(c)
             /\ \/ life[c] = "crashed" \/ Waits(c)
                \/ life[c] = "tick" /\ seen[c] = clk /\ sync_sem[c] = 0
  <2>1. c \in Proc /\ Launched(c) /\ ~Finished(c) /\ c \notin ReadySet
    BY <1>2, <1>4 DEF Idle, Types, SchedulerPlaces
  <2>2. c \notin stopped /\ ~Ended(c) /\ ProcessSettled(c)
    BY <1>1, <1>2, <1>4, <2>1 DEF Turns, Signals
  <2>3. Spent(c) \/ OnTurn(c)
    BY <1>2, <1>4 DEF Turns
  <2>4. \/ life[c] = "crashed"
        \/ life[c] = "spin" /\ ~down_nb_succeeds(sync_sem[c])
        \/ life[c] = "tick" /\ clk = seen[c]
    BY <2>1, <2>2 DEF ProcessSettled, Ended, Launched
  <2> QED BY <2>1, <2>3, <2>4, ConstantTypes DEF OnTurn, Works, Spent, down_nb_succeeds
<1> QED BY <1>2, <1>3, <1>4

LEMMA TickWhenGranted ==
  ASSUME Timely, Algorithm # "SRTN", IInv, Alive, Marks, TickOrder, Turns, Tick, ~Idle
  PROVE  /\ at = "wait" /\ clk = current_time /\ clockValue = clk
         /\ \/ life[current_process] = "crashed"
            \/ life[current_process] = "tick" /\ seen[current_process] = clk
<1> USE DEF IInv
<1> DEFINE c == current_process
<1>1. /\ at \in {"wait", "top", "sync"} /\ (at = "wait" => clk = current_time)
      /\ (at = "top" => semid = 0)
      /\ gen = "poll" /\ (last_tick = clk \/ (last_tick = -1 /\ pq = Proc))
      /\ c \in Proc /\ Launched(c) /\ ~Finished(c)
      /\ \/ life[c] = "crashed" \/ Waits(c)
         \/ life[c] = "tick" /\ seen[c] = clk /\ sync_sem[c] = 0
  BY TickWhenSettled
<1>2. Posted
  BY <1>1 DEF Posted, GeneratorPlaces
<1>3. at = "wait" /\ clk = current_time /\ clockValue = clk
  BY <1>1, <1>2 DEF TickOrder, Control
<1>4. ~Waits(c)
  BY <1>3 DEF Turns, OnTurn, Granted, Waits, Spent
<1> QED BY <1>1, <1>3, <1>4

(***************************************************************************)
(* Marks.                                                                  *)
(***************************************************************************)
LEMMA MarksQuiet ==
  ASSUME Timely, IInv, Alive', Marks, QuietStep, UNCHANGED restVars
  PROVE  Marks'
<1> USE DEF IInv, Marks, InTick, Step, restVars
<1>1. CASE Boot \/ SyncClk \/ Leave \/ Down \/ CheckIdle \/ ReceiveDone \/ WaitForTick
  BY <1>1 DEF Boot, SyncClk, Leave, Down, CheckIdle, ReceiveDone, WaitForTick, Alive
<1>2. CASE ReadTime \/ CompareTime \/ StoreTime
  BY <1>2 DEF ReadTime, CompareTime, StoreTime, Clocks, Reading, sharedVars
<1>3. CASE RunAlgorithm \/ EnterSwitch \/ Preempt
  BY <1>3 DEF RunAlgorithm, EnterSwitch, Preempt, Return, Alive, Types, sharedVars
<1>4. CASE TestBeforeGrant \/ Grant \/ TestBeforeReport \/ Report
  BY <1>4 DEF TestBeforeGrant, Grant, TestBeforeReport, Report, Alive, sharedVars
<1>5. CASE HandleGeneratorCompletion
  BY <1>5 DEF HandleGeneratorCompletion, Alive
<1> QED BY <1>1, <1>2, <1>3, <1>4, <1>5 DEF QuietStep

LEMMA MarksStep ==
  ASSUME Timely, IInv, Marks, Turns, Next, Alive'
  PROVE  Marks'
<1> USE DEF IInv
<1>1. Alive
  BY AliveBefore
<1>2. ASSUME UNCHANGED <<at, caller, current_time, clk>>,
             last_tick' = -1 => gen' \in {"poll", "exited"} /\ pq' = Proc
      PROVE  Marks'
  BY <1>2 DEF Marks, InTick
<1>3. CASE \E p \in Proc : ProcessNext(p)
  BY <1>2, <1>3, ProcessFrame DEF schedulerVars, restVars, Marks
<1>4. CASE \E p \in Proc : Reap(p)
  BY <1>2, <1>4 DEF Reap, ReapProcess, schedulerVars, Marks
<1>5. CASE QuietStep /\ UNCHANGED restVars
  BY <1>5, MarksQuiet
<1>6. CASE Receive /\ UNCHANGED restVars
  BY <1>6 DEF Receive, restVars, Marks, Step, InTick
<1>7. CASE StopVictim /\ UNCHANGED restVars
  BY <1>7 DEF StopVictim, restVars, Marks, Step, InTick
<1>8. CASE Pick /\ UNCHANGED restVars
  BY <1>8, PickFrame DEF Pick, Step, Return, restVars, Marks, InTick, Types
<1>9. CASE HandleProcessCompletion /\ UNCHANGED restVars
  <2>1. at' = at
    BY <1>9, CompletionFrame DEF Alive
  <2> QED BY <1>2, <1>9, <2>1, CompletionFrame DEF restVars, Marks
<1>10. CASE PlanStep /\ UNCHANGED schedulerVars
  <2>1. UNCHANGED <<at, caller, current_time, clk>>
    BY <1>10, PlanFrame DEF schedulerVars
  <2>2. last_tick' = -1 => gen' \in {"poll", "exited"} /\ pq' = Proc
    <3>1. CASE Poll
      <4>1. last_tick' # -1
        BY <3>1 DEF Poll, Types
      <4> QED BY <4>1
    <3>2. CASE Serve \/ ServeDone \/ Arrive \/ Post \/ Wake
      BY <3>2 DEF Serve, ServeDone, Arrive, Post, Wake, Marks
    <3> QED BY <1>10, <3>1, <3>2 DEF PlanStep
  <2> QED BY <1>2, <2>1, <2>2
<1>11. CASE Launch /\ UNCHANGED schedulerVars
  BY <1>2, <1>11 DEF Launch, Marks, schedulerVars
<1>12. CASE ReapScheduler
  BY <1>1, <1>12 DEF ReapScheduler, Alive
<1>13. CASE Tick
  <2>1. ~InTick
    BY <1>1, <1>13, TickWhenSettled DEF InTick
  <2> QED BY <1>13, <2>1 DEF Tick, Marks, InTick, schedulerVars, generatorVars
<1> QED BY <1>3, <1>4, <1>5, <1>6, <1>7, <1>8, <1>9, <1>10, <1>11, <1>12, <1>13, NextCases

(***************************************************************************)
(* TickOrder.                                                              *)
(***************************************************************************)
\* What a quiet step does to the place of the scheduler and to its times.
LEMMA QuietTick ==
  ASSUME Timely, Algorithm # "SRTN", IInv, Alive', Marks, TickOrder, QuietStep
  PROVE  /\ Deciding' => clockValue' = clk
         /\ ~Idle /\ (InTick \/ at = "wait")' => clockValue' = current_time'
         /\ ~Idle /\ BeforeRun' => clockValue' # clk
         /\ ~Idle /\ (at = "top" \/ (at = "wait" /\ clk # current_time))' =>
              semid' = semid /\ (at = "top" \/ (at = "wait" /\ clk # current_time))
<1> USE DEF IInv, Marks, TickOrder, InTick, BeforeRun, Deciding, Step, Idle
<1>1. clk # -1 /\ clk - 1 # clk
  BY DEF Types
<1>2. CASE Boot \/ SyncClk \/ Leave
  BY <1>2, <1>1 DEF Boot, SyncClk, Leave, Control, Alive, AllDone, sharedVars
<1>3. CASE Down \/ CheckIdle \/ ReceiveDone
  BY <1>3, <1>1 DEF Down, CheckIdle, ReceiveDone, sharedVars
<1>4. CASE ReadTime \/ CompareTime \/ StoreTime
  BY <1>4, <1>1 DEF ReadTime, CompareTime, StoreTime, TickTime, Clocks, Reading, sharedVars
<1>5. CASE RunAlgorithm \/ EnterSwitch \/ Preempt
  BY <1>5, <1>1 DEF RunAlgorithm, EnterSwitch, Preempt, Return, Alive, sharedVars
<1>6. CASE TestBeforeGrant \/ Grant \/ TestBeforeReport \/ Report
  BY <1>6, <1>1 DEF TestBeforeGrant, Grant, TestBeforeReport, Report, sharedVars
<1>7. CASE WaitForTick
  BY <1>7, <1>1 DEF WaitForTick, sharedVars
<1>8. CASE HandleGeneratorCompletion
  BY <1>8, <1>1 DEF HandleGeneratorCompletion, Alive
<1> QED BY <1>2, <1>3, <1>4, <1>5, <1>6, <1>7, <1>8 DEF QuietStep

LEMMA TickOrderStep ==
  ASSUME Timely, Algorithm # "SRTN", IInv, Marks, TickOrder, Turns, Next, Alive'
  PROVE  TickOrder'
<1> USE DEF IInv
<1>1. Alive /\ last_tick \in -1..clk /\ clk \in Nat /\ clk + 1 # clk
  BY AliveBefore, Numbers DEF Arrivals
<1>2. ASSUME UNCHANGED <<at, current_process, clockValue, current_time, clk>>,
             Posted' => semid' = 1 \/ (Posted /\ semid' = semid)
      PROVE  TickOrder'
  BY <1>2 DEF TickOrder, InTick, BeforeRun, Deciding, Idle
<1>3. CASE \E p \in Proc : ProcessNext(p)
  BY <1>2, <1>3, ProcessFrame DEF schedulerVars, restVars, TickOrder, Posted
<1>4. CASE \E p \in Proc : Reap(p)
  BY <1>2, <1>4 DEF Reap, ReapProcess, schedulerVars, TickOrder, Posted
<1>5. CASE QuietStep /\ UNCHANGED restVars
  <2>1. UNCHANGED <<gen, last_tick, pq, clk, current_process>>
    BY <1>5, QuietFrame DEF restVars
  <2> QED BY <1>5, <2>1, QuietTick DEF TickOrder, Posted, Idle
<1>6. CASE Receive /\ UNCHANGED restVars
  BY <1>6 DEF Receive, restVars, TickOrder, Posted, Idle, Step, InTick, BeforeRun, Deciding
<1>7. CASE StopVictim /\ UNCHANGED restVars
  BY <1>7 DEF StopVictim, restVars, TickOrder, Posted, Idle, Step, InTick, BeforeRun, Deciding
<1>8. CASE Pick /\ UNCHANGED restVars
  <2>1. at = "pick" /\ at' = "post" /\ current_time = clk
    BY <1>8 DEF Pick, Step, Return, Marks, InTick
  <2> QED BY <1>8, <2>1, PickFrame DEF restVars, TickOrder, Posted, InTick, BeforeRun, Deciding
<1>9. CASE HandleProcessCompletion /\ UNCHANGED restVars
  <2>1. current_process' = None /\ clockValue' = clk /\ at' = at
    BY <1>9, CompletionFrame, CompletionPlaces
       DEF CompletionTakesNext, CompletionLeavesIdle, Alive
  <2> QED BY <1>9, <2>1, CompletionFrame
          DEF restVars, TickOrder, Posted, InTick, BeforeRun, Deciding, Idle
<1>10. CASE PlanStep /\ UNCHANGED schedulerVars
  <2>1. UNCHANGED <<at, current_process, clockValue, current_time, clk>>
    BY <1>10, PlanFrame DEF schedulerVars
  <2>2. CASE Poll
    BY <1>1, <1>2, <2>1, <2>2 DEF Poll, Posted
  <2>3. CASE Serve \/ ServeDone \/ Arrive
    BY <1>2, <2>1, <2>3 DEF Serve, ServeDone, Arrive, Posted, TickOrder
  <2>4. CASE Post
    BY <1>2, <2>1, <2>4 DEF Post, TickOrder, Token
  <2>5. CASE Wake
    BY <1>2, <2>1, <2>5 DEF Wake, Posted, TickOrder
  <2> QED BY <1>10, <2>2, <2>3, <2>4, <2>5 DEF PlanStep
<1>11. CASE Launch /\ UNCHANGED schedulerVars
  BY <1>2, <1>11 DEF Launch, Posted, TickOrder, schedulerVars
<1>12. CASE ReapScheduler
  BY <1>1, <1>12 DEF ReapScheduler, Alive
<1>13. CASE Tick
  <2>1. /\ clk' = clk + 1 /\ gen = "poll" /\ last_tick < clk + 1
        /\ at \notin {"clock", "recv", "check"}
        /\ ~Idle => at = "wait" /\ clockValue = clk /\ clk = current_time
        /\ ~InTick /\ ~Deciding
    BY <1>1, <1>13, TickWhenSettled, TickWhenGranted DEF Tick, InTick, Deciding
  <2>2. UNCHANGED <<at, current_process, clockValue, current_time, gen, last_tick, pq>>
    BY <1>13 DEF Tick, schedulerVars, generatorVars
  <2> QED BY <1>1, <2>1, <2>2 DEF TickOrder, InTick, BeforeRun, Deciding, Idle, Posted
<1> QED BY <1>3, <1>4, <1>5, <1>6, <1>7, <1>8, <1>9, <1>10, <1>11, <1>12, <1>13, NextCases

(***************************************************************************)
(* Turns.                                                                  *)
(***************************************************************************)
\* Steps that leave the processes and the queues alone.
LEMMA TurnsKept ==
  ASSUME Turns, UNCHANGED <<clk, life, sync_sem, seen, stopped, job, shm, finish, current_process,
                            msgq, rr_queue, ready_Heap>>,
         \A p \in Proc : pcb'[p].start = pcb[p].start,
         ~Idle => /\ at' = "pick" <=> at = "pick"
                  /\ Granted => Granted'
                  /\ Algorithm # "SRTN" => (Granted' => Granted)
  PROVE  Turns'
<1>1. ReadySet' = ReadySet
  BY ReadyKept
<1> QED BY <1>1 DEF Turns, OnTurn, Idle, Spent, Works, Waits, Launched, Finished

LEMMA TurnsProcess ==
  ASSUME IInv, Turns, NEW p \in Proc, ProcessNext(p)
  PROVE  Turns'
<1> USE DEF IInv
<1> DEFINE c == current_process
<1>1. /\ UNCHANGED <<job, clk, msgq, stopped, finish, at, current_time, c, pcb,
                     rr_queue, ready_Heap>>
      /\ ReadySet' = ReadySet
    BY ProcessFrame, ReadyKept DEF schedulerVars
<1>2. /\ life \in [Proc -> Life] /\ sync_sem \in [Proc -> 0..2 \cup {None}]
      /\ shm \in [Proc -> Int] /\ seen \in [Proc -> Time]
      /\ clk \in Nat /\ None \notin Int /\ (~Idle => c \in Proc)
  BY Numbers DEF Types, Idle
<1>3. /\ Launched(p) /\ p \notin stopped /\ p \notin ReadySet
      /\ ~Finished(p) => pcb[p].start # None
  BY ProcessKeepsLife, ConstantTypes DEF SchedulerPlaces, Clocks, Idle
<1>4. /\ life' = [life EXCEPT ![p] = life'[p]] /\ life'[p] # "unborn"
      /\ \A q \in Proc : q # p => /\ sync_sem'[q] = sync_sem[q] /\ shm'[q] = shm[q]
                                  /\ seen'[q] = seen[q]
  BY <1>2, ProcessKeepsLife
     DEF ProcessNext, ProcessStep, Acquire, ReadClk, Work, Notify, Exit
<1>5. \A q \in Proc : q # p => life'[q] = life[q]
  BY <1>2, <1>4
<1>6. life'[p] = "tick" => seen'[p] \in 0..clk
  <2>1. ReadClk(p) => seen'[p] = clk
    BY <1>2 DEF ReadClk
  <2>2. ~ReadClk(p) => life'[p] # "tick"
    BY <1>2 DEF ProcessNext, ProcessStep, Acquire, Work, Notify, Exit, Goto
  <2> QED BY <1>2, <2>1, <2>2
<1>7. \A q \in Proc :
        /\ q \in Range(msgq) => pcb[q].start = None
        /\ (Launched(q) /\ ~Finished(q))' /\ pcb[q].start = None =>
             life'[q] = "spin" /\ sync_sem'[q] = 0 /\ shm'[q] = job[q].exec
        /\ q \in ReadySet => (life[q] \in {"notify", "crashed"} \/ Waits(q))'
  BY <1>1, <1>3, <1>4, <1>5 DEF Turns, Launched, Finished, Waits
<1>8. Granted' <=> Granted
  BY <1>1 DEF Granted
<1>9. ASSUME ~Idle, at # "pick", ~Spent(c)'
      PROVE  OnTurn(c)'
  <2>1. CASE c # p
    <3>1. life'[c] = life[c] /\ sync_sem'[c] = sync_sem[c] /\ seen'[c] = seen[c]
      BY <1>2, <1>4, <1>5, <1>9, <2>1
    <3> QED BY <1>1, <1>8, <1>9, <3>1 DEF Turns, OnTurn, Spent, Works, Waits
  <2>2. CASE c = p
    <3>1. ~Spent(p) => OnTurn(p)
      BY <1>9, <2>2 DEF Turns
    <3>2. CASE Acquire(p)
      <4>1. life[p] = "spin" /\ life'[p] = "read" /\ sync_sem[p] # None /\ sync_sem[p] > 0
            /\ sync_sem'[p] = sync_sem[p] - 1
        BY <1>2, <3>2 DEF Acquire, Running, Goto, down_nb_succeeds, down
      <4>2. Granted /\ sync_sem[p] = 1
        BY <3>1, <4>1 DEF Spent, OnTurn, Works, Waits
      <4> QED BY <1>1, <1>8, <2>2, <4>1, <4>2 DEF OnTurn, Works, Waits
    <3>3. CASE ReadClk(p)
      <4>1. life[p] = "read" /\ life'[p] = "tick" /\ sync_sem'[p] = sync_sem[p] /\ seen'[p] = clk
        BY <1>2, <3>3 DEF ReadClk, Running, Goto
      <4>2. Granted /\ sync_sem[p] = 0
        BY <3>1, <4>1 DEF Spent, OnTurn, Works, Waits
      <4> QED BY <1>1, <1>2, <1>8, <2>2, <4>1, <4>2 DEF OnTurn, Works, Waits
    <3>4. CASE Work(p)
      <4>1. /\ life[p] = "tick" /\ sync_sem'[p] = sync_sem[p] /\ seen[p] # clk
            /\ life'[p] \in {"spin", "notify", "crashed"}
        BY <1>2, <3>4 DEF Work, Running, Goto, TickPassed
      <4>2. life'[p] = "spin"
        BY <1>9, <2>2, <4>1, <1>1 DEF Spent
      <4> QED BY <1>1, <1>8, <2>2, <3>1, <4>1, <4>2 DEF Spent, OnTurn, Works, Waits
    <3>5. CASE Notify(p) \/ Exit(p)
      BY <1>1, <1>2, <1>9, <2>2, <3>5 DEF Notify, Exit, Goto, Spent
    <3> QED BY <3>2, <3>3, <3>4, <3>5 DEF ProcessNext, ProcessStep
  <2> QED BY <2>1, <2>2
<1>10. \A q \in Proc : life'[q] = "tick" => seen'[q] \in 0..clk
  BY <1>4, <1>5, <1>6 DEF Turns
<1> QED BY <1>1, <1>7, <1>9, <1>10 DEF Turns, Idle, Finished

LEMMA TurnsQuiet ==
  ASSUME Timely, IInv, Alive', Marks, Algorithm # "SRTN" => TickOrder, Turns, QuietStep,
         UNCHANGED seen
  PROVE  Turns'
<1> USE DEF IInv
<1> DEFINE c == current_process
<1>1. /\ UNCHANGED <<job, clk, msgq, shm, life, stopped, c, rr_queue, ready_Heap, finish>>
      /\ ReadySet' = ReadySet
      /\ \A p \in Proc : pcb'[p].start = pcb[p].start
      /\ ~Idle => (at' = "pick" <=> at = "pick")
  BY QuietFrame, QuietStamps, QuietKeepsPick, ReadyKept DEF Idle
<1>2. CASE ~Grant
  <2>1. UNCHANGED sync_sem
    BY <1>2 DEF QuietStep, Boot, SyncClk, Leave, Down, CheckIdle, ReceiveDone, ReadTime,
                CompareTime, StoreTime, RunAlgorithm, EnterSwitch, Preempt, TestBeforeGrant,
                TestBeforeReport, Report, WaitForTick, HandleGeneratorCompletion, sharedVars
  <2>2. ASSUME ~Idle
        PROVE  (Granted => Granted') /\ (Algorithm # "SRTN" => (Granted' => Granted))
    <3> USE DEF Granted, Step
    <3>1. CASE Boot \/ SyncClk \/ Leave \/ Down \/ CheckIdle \/ ReceiveDone
      BY <2>2, <3>1 DEF Boot, SyncClk, Leave, Down, CheckIdle, ReceiveDone, Control, AllDone
    <3>2. CASE ReadTime \/ CompareTime \/ StoreTime
      BY <2>2, <3>2 DEF ReadTime, CompareTime, StoreTime, TickOrder, BeforeRun, Clocks, Reading
    <3>3. CASE RunAlgorithm \/ EnterSwitch \/ Preempt
      BY <3>3 DEF RunAlgorithm, EnterSwitch, Preempt, Return
    <3>4. CASE TestBeforeGrant \/ TestBeforeReport \/ Report \/ WaitForTick
      BY <2>2, <3>4, <1>1
         DEF TestBeforeGrant, TestBeforeReport, Report, WaitForTick, Marks, InTick
    <3>5. CASE HandleGeneratorCompletion
      BY <3>5 DEF HandleGeneratorCompletion, Alive
    <3> QED BY <1>2, <3>1, <3>2, <3>3, <3>4, <3>5 DEF QuietStep
  <2> QED BY <1>1, <2>1, <2>2, TurnsKept
<1>3. CASE Grant
  <2>1. ~Idle /\ c \in Proc /\ c \notin ReadySet /\ at = "grant" /\ at' = "refresh"
    BY <1>3 DEF Grant, Step, Alive, Idle, Types, SchedulerPlaces
  <2>2. /\ sync_sem' = [sync_sem EXCEPT ![c] = IF sync_sem[c] = None THEN None ELSE 1]
        /\ sync_sem \in [Proc -> 0..2 \cup {None}] /\ seen \in [Proc -> Time]
        /\ clk \in Nat /\ None \notin Int
    BY <1>3, <2>1, Numbers DEF Grant, Types
  <2>3. \A p \in Proc : p # c => sync_sem'[p] = sync_sem[p]
    BY <2>2
  <2>4. ~Spent(c) => Waits(c) /\ sync_sem'[c] = 1
    BY <2>1, <2>2 DEF Turns, OnTurn, Granted, Waits
  <2>5. ~Spent(c)' => Works(c)' /\ ~Waits(c)'
    BY <1>1, <2>1, <2>2, <2>4 DEF Spent, Waits, Works, Turns
  <2>6. pcb[c].start # None /\ Launched(c)
    BY <2>1 DEF Clocks, SchedulerPlaces
  <2>7. \A p \in Proc :
          /\ (Launched(p) /\ ~Finished(p) /\ pcb[p].start = None)' =>
               life[p] = "spin" /\ sync_sem'[p] = 0 /\ shm[p] = job[p].exec
          /\ p \in ReadySet => (life[p] \in {"notify", "crashed"} \/ Waits(p))'
    BY <1>1, <2>1, <2>3, <2>6 DEF Turns, Launched, Finished, Waits
  <2> QED BY <1>1, <2>1, <2>5, <2>7 DEF Turns, OnTurn, Idle, Granted
<1> QED BY <1>2, <1>3

LEMMA TurnsReceive ==
  ASSUME IInv, Turns, Receive, UNCHANGED seen
  PROVE  Turns'
<1> USE DEF IInv
<1>0. PICK h : h = Head(msgq)
  OBVIOUS
<1>1. /\ h \in Proc /\ h \in Range(msgq) /\ Range(msgq') = Range(msgq) \ {h}
      /\ ReadySet' = ReadySet \cup {h} /\ at = "recv" /\ at' \in {"run", "check"}
      /\ UNCHANGED <<job, clk, sync_sem, shm, life, stopped, finish, current_process>>
      /\ pcb' = [pcb EXCEPT ![h] = NewPCB(h)]
  BY <1>0, ReceivePlaces DEF Receive, Step
<1>2. Launched(h) /\ ~Finished(h) /\ pcb[h].start = None
  BY <1>1 DEF SchedulerPlaces, Turns
<1>3. \A p \in Proc : pcb'[p].start = pcb[p].start
  BY <1>1, <1>2 DEF NewPCB, Types
<1>4. Waits(h)'
  BY <1>1, <1>2 DEF Turns, Waits
<1> QED BY <1>1, <1>3, <1>4
        DEF Turns, OnTurn, Idle, Spent, Works, Waits, Launched, Finished, Granted

LEMMA TurnsStop ==
  ASSUME IInv, Alive, Turns, StopVictim, UNCHANGED seen
  PROVE  Turns'
<1> USE DEF IInv
<1> DEFINE c == current_process
<1>1. /\ c \in Proc /\ at = "stop" /\ at' = "pick" /\ Interruptible /\ ~Idle
      /\ ReadySet' = ReadySet \cup {c}
      /\ UNCHANGED <<job, clk, msgq, sync_sem, shm, life, finish, pcb, current_process>>
  BY StopPlaces DEF StopVictim, Step, Control
<1>2. ~usr2
  BY <1>1, SignalAssumption DEF Interruptible, Control
<1>3. Launched(c) /\ ~Ended(c)
  BY <1>1, <1>2 DEF SchedulerPlaces, Signals
<1>4. life[c] \in {"notify", "crashed"} \/ Waits(c)
  BY <1>1, <1>3 DEF Turns, OnTurn, Granted, Spent, Ended
<1> QED BY <1>1, <1>4 DEF Turns, Idle, Waits, Launched, Finished

LEMMA TurnsPick ==
  ASSUME IInv, Turns, Pick, UNCHANGED seen
  PROVE  Turns'
<1> USE DEF IInv
<1>1. /\ at = "pick" /\ at' \in {"check", "post"} /\ clockValue \in 0..MaxClk
      /\ UNCHANGED <<job, clk, msgq, sync_sem, shm, life, finish>>
  BY PickFrame DEF Clocks, Deciding, Types
<1>2. ReadySet \subseteq Proc /\ None \notin Proc /\ None \notin Int
  BY ReadyInProc, ConstantTypes DEF SchedulerPlaces
<1>3. CASE ReadySet = {} /\ ReadySet' = {} /\ current_process' = None /\ UNCHANGED pcb
  BY <1>1, <1>3 DEF Turns, Idle, Launched, Finished
<1>4. ASSUME NEW p \in ReadySet, ReadySet' = ReadySet \ {p}, Dispatch(p, clockValue)
      PROVE  Turns'
  <2>1. /\ current_process' = p /\ p \notin stopped'
        /\ \A q \in Proc : pcb'[q].start = pcb[q].start \/ pcb'[q].start # None
        /\ \A q \in Range(msgq) : q # p => pcb'[q] = pcb[q]
    BY <1>1, <1>2, <1>4, DispatchTypes, RangeInSet DEF SchedulerPlaces, Distinct
  <2>2. p \notin Range(msgq)
    BY <1>2 DEF SchedulerPlaces
  <2>3. Spent(p)' \/ Waits(p)'
    BY <1>1, <1>2 DEF Turns, Spent, Waits
  <2>4. \A q \in Range(msgq) : pcb'[q].start = pcb[q].start
    BY <2>1, <2>2
  <2> QED BY <1>1, <1>2, <1>4, <2>1, <2>3, <2>4
          DEF Turns, OnTurn, Idle, Spent, Waits, Launched, Finished, Granted
<1> QED BY <1>3, <1>4, PickCases DEF SchedulerPlaces

LEMMA TurnsCompletion ==
  ASSUME IInv, Turns, HandleProcessCompletion, UNCHANGED seen
  PROVE  Turns'
<1> USE DEF IInv
<1>0. PICK c : c = current_process
  OBVIOUS
<1>1. /\ c \in Proc /\ c \notin ReadySet /\ Completes
      /\ UNCHANGED <<job, clk, msgq, shm, life>> /\ clk \in 0..MaxClk
  BY <1>0, CompletionPlaces, CompletionFrame DEF Types
<1>2. /\ Finished(c)'
      /\ \A p \in Proc : p # c => sync_sem'[p] = sync_sem[p] /\ finish'[p] = finish[p]
  BY <1>0, <1>1, Numbers DEF Completes, Types, Finished
<1>3. CASE CompletionLeavesIdle
  <2>1. ReadySet' = ReadySet /\ UNCHANGED <<pcb, stopped>> /\ current_process' = None
    BY <1>3, ReadyKept DEF CompletionLeavesIdle
  <2> QED BY <1>1, <1>2, <2>1 DEF Turns, Idle, Waits, Launched, Finished
<1>4. CASE CompletionTakesNext
  <2>1. PICK q \in ReadySet : ReadySet' = ReadySet \ {q} /\ Dispatch(q, clk)
    BY <1>4 DEF CompletionTakesNext
  <2>2. Algorithm = "SRTN"
    BY <1>4 DEF CompletionTakesNext
  <2>3. q \in Proc /\ q # c /\ q \notin Range(msgq) /\ Launched(q)
    BY <1>1, <2>1, ReadyInProc DEF SchedulerPlaces
  <2>4. /\ current_process' = q /\ q \notin stopped'
        /\ \A p \in Proc : p # q => pcb'[p] = pcb[p]
        /\ pcb'[q].start # None
    BY <1>1, <2>1, <2>3, DispatchTypes, ConstantTypes
  <2>5. Spent(q)' \/ Waits(q)'
    BY <1>1, <1>2, <2>1, <2>3 DEF Turns, Spent, Waits
  <2> QED BY <1>1, <1>2, <2>1, <2>2, <2>3, <2>4, <2>5
          DEF Turns, OnTurn, Idle, Waits, Launched, Finished
<1> QED BY <1>3, <1>4, CompletionPlaces

LEMMA TurnsStep ==
  ASSUME Timely, IInv, Marks, Algorithm # "SRTN" => TickOrder, Turns, Next, Alive'
  PROVE  Turns'
<1> USE DEF IInv
<1> DEFINE c == current_process
<1>1. /\ Alive /\ clk \in Nat /\ (~Idle => c \in Proc)
      /\ life \in [Proc -> Life] /\ seen \in [Proc -> Time]
  BY AliveBefore, Numbers DEF Types, Idle
<1>2. CASE QuietStep /\ UNCHANGED processVars
  BY <1>2, TurnsQuiet DEF processVars
<1>3. CASE Receive /\ UNCHANGED processVars
  BY <1>3, TurnsReceive DEF processVars
<1>4. CASE StopVictim /\ UNCHANGED processVars
  BY <1>1, <1>4, TurnsStop DEF processVars
<1>5. CASE Pick /\ UNCHANGED processVars
  BY <1>5, TurnsPick DEF processVars
<1>6. CASE HandleProcessCompletion /\ UNCHANGED processVars
  BY <1>6, TurnsCompletion DEF processVars
<1>7. CASE PlanStep /\ UNCHANGED <<processVars, schedulerVars>>
  BY <1>7, PlanFrame, TurnsKept DEF processVars, schedulerVars, Granted
<1>8. CASE Launch /\ UNCHANGED <<processVars, schedulerVars>>
  <2>0. PICK b : b = booked
    OBVIOUS
  <2>1. b \in Proc /\ ~Launched(b)
    BY <1>8, <2>0, LaunchPlaces
  <2>2. /\ life' = [life EXCEPT ![b] = "spin"] /\ shm' = [shm EXCEPT ![b] = job[b].exec]
        /\ sync_sem' = [sync_sem EXCEPT ![b] = 0] /\ stopped' = stopped \cup {b}
        /\ msgq' = Append(msgq, b) /\ UNCHANGED <<job, clk>>
    BY <1>8, <2>0 DEF Launch
  <2>3. /\ UNCHANGED <<at, c, pcb, finish, current_time, seen>> /\ ReadySet' = ReadySet
    BY <1>8, ReadyKept DEF schedulerVars, processVars
  <2>4. pcb[b].start = None /\ c # b /\ b \notin ReadySet
    BY <2>1 DEF Stamps, Stamped, SchedulerPlaces
  <2>5. /\ life'[b] = "spin" /\ sync_sem'[b] = 0 /\ shm'[b] = job[b].exec
        /\ \A p \in Proc : p # b =>
             life'[p] = life[p] /\ sync_sem'[p] = sync_sem[p] /\ shm'[p] = shm[p]
    BY <2>1, <2>2 DEF Types
  <2>6. Range(msgq') = Range(msgq) \cup {b}
    BY <2>1, <2>2, AppendDistinct DEF SchedulerPlaces, Launched
  <2> QED BY <1>1, <2>2, <2>3, <2>4, <2>5, <2>6
          DEF Turns, OnTurn, Idle, Spent, Works, Waits, Launched, Finished, Granted
<1>9. ASSUME NEW p \in Proc, Reap(p) PROVE Turns'
  <2>1. life' = [life EXCEPT ![p] = "reaped"] /\ life[p] = "zombie"
        /\ UNCHANGED <<job, clk, msgq, shm, sync_sem, stopped, processVars, schedulerVars>>
    BY <1>9 DEF Reap, ReapProcess
  <2>2. /\ UNCHANGED <<at, c, pcb, finish, current_time, seen>> /\ ReadySet' = ReadySet
    BY <2>1, ReadyKept DEF schedulerVars, processVars
  <2>3. life'[p] = "reaped" /\ \A q \in Proc : q # p => life'[q] = life[q]
    BY <1>1, <2>1
  <2> QED BY <1>1, <2>1, <2>2, <2>3
          DEF Turns, OnTurn, Idle, Spent, Works, Waits, Launched, Finished, Granted
<1>10. CASE ReapScheduler
  BY <1>1, <1>10 DEF ReapScheduler, Alive
<1>11. CASE Tick
  <2>1. /\ clk' = clk + 1
        /\ UNCHANGED <<at, c, pcb, finish, current_time, seen, life, sync_sem, stopped, job, shm,
                       msgq>>
        /\ ReadySet' = ReadySet
    BY <1>11, ReadyKept DEF Tick, schedulerVars, processVars
  <2>2. /\ at \in {"wait", "top", "sync"} /\ (at = "wait" => clk = current_time)
        /\ ~Idle => \/ life[c] = "crashed" \/ Waits(c)
                    \/ life[c] = "tick" /\ seen[c] = clk /\ sync_sem[c] = 0
    BY <1>1, <1>11, TickWhenSettled
  <2>3. \A p \in Proc :
          /\ life[p] = "tick" => seen[p] \in 0..clk + 1
          /\ Waits(p) => Waits(p)'
    BY <1>1, <2>1 DEF Turns, Waits
  <2>4. ~Idle => at' # "pick" /\ ~Granted' /\ c \notin stopped /\ (Spent(c) \/ Waits(c))'
    BY <1>1, <2>1, <2>2 DEF Granted, Spent, Waits, Turns
  <2>5. \A p \in Proc :
          /\ p \in Range(msgq') => pcb'[p].start = None
          /\ (Launched(p) /\ ~Finished(p) /\ pcb[p].start = None)' =>
               (life[p] = "spin" /\ sync_sem[p] = 0 /\ shm[p] = job[p].exec)'
          /\ p \in ReadySet' => (life[p] \in {"notify", "crashed"} \/ Waits(p))'
    BY <2>1, <2>3 DEF Turns, Launched, Finished
  <2> QED BY <2>1, <2>3, <2>4, <2>5 DEF Turns, OnTurn, Idle, Spent
<1> QED BY <1>2, <1>3, <1>4, <1>5, <1>6, <1>7, <1>8, <1>9, <1>10, <1>11, NextCases, TurnsProcess

(***************************************************************************)
(* The three together.                                                     *)
(***************************************************************************)
LEMMA TickInit == Init => TickInv
<1> SUFFICES ASSUME Init PROVE TickInv
  OBVIOUS
<1>1. IInv
  BY InitHolds
<1>2. /\ at = "boot" /\ caller = "tick" /\ current_process = None /\ ReadySet = {}
      /\ life = [p \in Proc |-> "unborn"] /\ msgq = << >>
      /\ last_tick = -1 /\ gen = "poll" /\ pq = Proc
  BY EmptyQueue DEF Init, SchedulerInit, SharedInit, GeneratorInit, ReadySet
<1>3. Marks /\ TickOrder
  BY <1>2 DEF Marks, TickOrder, Idle, InTick, Deciding
<1>4. Turns
  BY <1>2, EmptyQueue DEF Turns, Idle, Launched
<1> QED BY <1>1, <1>3, <1>4 DEF TickInv

LEMMA TickStep ==
  ASSUME Timely
  PROVE  TickInv /\ [Next]_vars => TickInv'
<1>1. ASSUME TickInv, Next PROVE TickInv'
  BY <1>1, AliveBefore, StepHolds, MarksStep, TickOrderStep, TurnsStep DEF TickInv
<1>2. ASSUME TickInv, UNCHANGED vars PROVE TickInv'
  <2>1. UNCHANGED <<sharedVars, processVars, schedulerVars, generatorVars>>
    BY <1>2 DEF vars
  <2>2. /\ UNCHANGED <<job, clk, semid, msgq, sync_sem, shm, life, stopped, usr1, usr2, seen>>
        /\ UNCHANGED <<at, caller, current_process, rr_queue, ready_Heap, pcb, clockValue,
                       current_time, finish, gen, last_tick, pq>>
    BY <2>1 DEF sharedVars, processVars, schedulerVars, generatorVars
  <2>3. Alive => Alive' /\ Marks' /\ Turns'
    BY <1>2, <2>2, TurnsKept DEF TickInv, Alive, Marks, InTick, Idle, Granted
  <2>4. Alive /\ Algorithm # "SRTN" => TickOrder'
    BY <1>2, <2>2 DEF TickInv, TickOrder, InTick, BeforeRun, Deciding, Posted, Idle
  <2> QED BY <1>2, <2>2, <2>3, <2>4, StutterHolds DEF TickInv, Alive
<1> QED BY <1>1, <1>2

(***************************************************************************)
(* Books.                                                                  *)
(***************************************************************************)
LEMMA BookTypes ==
  ASSUME Types, NEW p \in Proc
  PROVE  /\ job[p].arrival \in Nat /\ job[p].exec \in Nat /\ shm[p] \in Int
         /\ pcb[p].waiting \in Int /\ pcb[p].last_prempt \in Time /\ clk \in Nat
         /\ clk # None /\ None \notin Int
  BY JobTypes, Numbers DEF Types, PCBType

\* Steps that change neither the place nor the figures of a process.
LEMMA BalancedKept ==
  ASSUME NEW p, Balanced(p),
         UNCHANGED <<clk, job>>, life'[p] = life[p], shm'[p] = shm[p], seen'[p] = seen[p],
         pcb'[p].start = pcb[p].start, pcb'[p].waiting = pcb[p].waiting,
         p \in ReadySet => pcb'[p].last_prempt = pcb[p].last_prempt,
         p \in ReadySet' <=> p \in ReadySet,
         current_process' = p => current_process = p
  PROVE  Balanced(p)'
  BY DEF Balanced, Until, Accounted, Owing

LEMMA BooksProcess ==
  ASSUME IInv, Turns, Books, NEW q \in Proc, ProcessNext(q), NEW p \in Proc
  PROVE  Balanced(p)'
<1> USE DEF IInv
<1>1. /\ UNCHANGED <<job, clk, current_process, pcb, rr_queue, ready_Heap, finish>>
      /\ ReadySet' = ReadySet
  BY ProcessFrame, ReadyKept DEF schedulerVars
<1>2. /\ life \in [Proc -> Life] /\ shm \in [Proc -> Int] /\ seen \in [Proc -> Time]
      /\ Balanced(p)
  BY DEF Types, Books
<1>3. CASE p # q
  <2>1. life'[p] = life[p] /\ shm'[p] = shm[p] /\ seen'[p] = seen[p]
    BY <1>2, <1>3 DEF ProcessNext, ProcessStep, Acquire, ReadClk, Work, Notify, Exit, Goto
  <2> QED BY <1>1, <1>2, <2>1, BalancedKept
<1>4. CASE p = q
  <2>1. p \notin stopped /\ p \notin ReadySet /\ Launched(p)
    BY <1>4, ProcessKeepsLife DEF SchedulerPlaces
  <2>2. SUFFICES ASSUME p = current_process, life'[p] # "crashed"
                 PROVE  Until(p, clk)'
    BY <1>1, <2>1 DEF Balanced
  <2>3. life[p] # "crashed" => Until(p, clk)
    BY <1>2, <2>1, <2>2 DEF Balanced
  <2>4. clk \in Int /\ Accounted(p) \in Int /\ shm[p] \in Int /\ job[p].arrival \in Int
        /\ job[p].exec \in Int /\ pcb[p].waiting \in Int
    BY BookTypes DEF Accounted
  <2>5. CASE Acquire(p) \/ ReadClk(p) \/ Exit(p)
    <3>1. shm' = shm /\ ~Owing(p) /\ ~Owing(p)' /\ life[p] # "crashed"
      BY <1>1, <1>2, <2>5 DEF Acquire, ReadClk, Exit, Running, Goto, Owing
    <3> QED BY <1>1, <2>3, <3>1 DEF Until, Accounted
  <2>6. CASE Work(p)
    <3>1. shm'[p] = shm[p] - 1 /\ Owing(p) /\ ~Owing(p)'
      BY <1>2, <2>6 DEF Work, Running, Goto, Owing, TickPassed
    <3>2. Accounted(p) = clk - 1
      BY <2>3, <3>1 DEF Until, Owing
    <3>3. Accounted(p)' = Accounted(p) + 1
      BY <1>1, <2>4, <3>1 DEF Accounted
    <3> QED BY <1>1, <2>4, <3>1, <3>2, <3>3 DEF Until
  <2>7. CASE Notify(p)
    <3>1. /\ life[p] = "notify" /\ shm' = [shm EXCEPT ![p] = 0]
          /\ life'[p] \in {"exit", "zombie"}
      BY <1>2, <2>7 DEF Notify, Running, Goto
    <3>2. shm'[p] = shm[p] /\ ~Owing(p) /\ ~Owing(p)'
      BY <1>2, <3>1 DEF Working, Owing
    <3> QED BY <1>1, <2>3, <3>1, <3>2 DEF Until, Accounted
  <2> QED BY <1>4, <2>5, <2>6, <2>7 DEF ProcessNext, ProcessStep
<1> QED BY <1>3, <1>4

LEMMA BooksPick ==
  ASSUME Algorithm # "SRTN", IInv, TickOrder, Turns, Books, Pick, UNCHANGED seen, NEW p \in Proc
  PROVE  Balanced(p)'
<1> USE DEF IInv
<1>1. /\ at = "pick" /\ clockValue = clk /\ clk \in 0..MaxClk /\ Balanced(p)
      /\ UNCHANGED <<job, clk, shm, life, finish>>
  BY PickFrame DEF TickOrder, Deciding, Types, Books
<1>2. ReadySet \subseteq Proc /\ None \notin Proc
  BY ReadyInProc, ConstantTypes DEF SchedulerPlaces
<1>3. CASE ReadySet = {} /\ ReadySet' = {} /\ current_process' = None /\ UNCHANGED pcb
  BY <1>2, <1>3 DEF Balanced
<1>4. ASSUME NEW q \in ReadySet, ReadySet' = ReadySet \ {q}, Dispatch(q, clk)
      PROVE  Balanced(p)'
  <2>1. /\ current_process' = q /\ \A r \in Proc : r # q => pcb'[r] = pcb[r]
        /\ IF pcb[q].start = None
           THEN pcb'[q].start = clk /\ pcb'[q].waiting = clk - job[q].arrival
           ELSE pcb'[q].start = pcb[q].start /\ pcb'[q].waiting = WaitToResume(q, clk)
    BY <1>1, <1>2, <1>4, DispatchTypes
  <2>2. CASE p # q
    BY <1>1, <1>4, <2>1, <2>2, BalancedKept
  <2>3. CASE p = q
    <3>1. SUFFICES ASSUME life[p] # "crashed" PROVE Until(p, clk)'
      BY <1>1, <1>4, <2>1, <2>3 DEF Balanced
    <3>2. /\ Launched(p) /\ ~Finished(p)
          /\ clk \in Int /\ shm[p] \in Int /\ job[p].arrival \in Int /\ job[p].exec \in Int
          /\ pcb[p].waiting \in Int /\ pcb[p].last_prempt \in Time /\ None \notin Int
      BY <1>4, <2>3, BookTypes DEF SchedulerPlaces
    <3>3. Owing(p)' <=> Owing(p)
      BY <1>1 DEF Owing
    <3>4. CASE pcb[p].start = None
      <4>1. life[p] = "spin" /\ shm[p] = job[p].exec
        BY <3>2, <3>4 DEF Turns
      <4>2. Accounted(p)' = clk
        BY <1>1, <2>1, <2>3, <3>2, <3>4, <4>1 DEF Accounted
      <4> QED BY <1>1, <3>3, <4>1, <4>2 DEF Until, Owing
    <3>5. CASE pcb[p].start # None
      <4>1. /\ pcb[p].last_prempt \in Int /\ pcb[p].last_prempt # None
            /\ Until(p, pcb[p].last_prempt)
        BY <1>1, <1>4, <2>3, <3>1, <3>2, <3>5 DEF Stamps, Stamped, Balanced, Time
      <4>2. pcb'[p].waiting = pcb[p].waiting + clk - pcb[p].last_prempt
        BY <2>1, <2>3, <3>5, <4>1 DEF WaitToResume
      <4>3. Accounted(p)' = Accounted(p) + clk - pcb[p].last_prempt
        BY <1>1, <3>2, <4>1, <4>2 DEF Accounted
      <4> QED BY <1>1, <3>2, <3>3, <4>1, <4>3 DEF Until
    <3> QED BY <3>4, <3>5
  <2> QED BY <2>2, <2>3
<1> QED BY <1>1, <1>3, <1>4, PickCases DEF SchedulerPlaces

LEMMA BooksScheduler ==
  ASSUME Algorithm # "SRTN", IInv, TickOrder, Turns, Books, UNCHANGED seen,
         QuietStep \/ Receive \/ StopVictim \/ Pick \/ HandleProcessCompletion,
         NEW p \in Proc
  PROVE  Balanced(p)'
<1> USE DEF IInv
<1>1. Balanced(p) /\ UNCHANGED <<job, clk, shm, life>>
  BY SchedulerFrame DEF Books
<1>2. CASE QuietStep
  <2>1. UNCHANGED current_process /\ ReadySet' = ReadySet
    BY <1>2, QuietFrame, ReadyKept
  <2>2. /\ pcb'[p].start = pcb[p].start /\ pcb'[p].waiting = pcb[p].waiting
        /\ p \in ReadySet => pcb'[p].last_prempt = pcb[p].last_prempt
    <3>1. Preempt => current_process \notin ReadySet
      BY DEF Preempt, Step, Control, Idle, SchedulerPlaces, Types
    <3> QED BY <1>2, <3>1, QuietStamps
  <2> QED BY <1>1, <2>1, <2>2, BalancedKept
<1>3. CASE Receive
  <2>0. PICK h : h = Head(msgq)
    OBVIOUS
  <2>1. /\ h \in Range(msgq) /\ h \in Proc /\ ReadySet' = ReadySet \cup {h}
        /\ pcb' = [pcb EXCEPT ![h] = NewPCB(h)] /\ UNCHANGED current_process
    BY <1>3, <2>0, ReceivePlaces DEF Receive
  <2>2. h # current_process
    BY <2>1 DEF SchedulerPlaces
  <2>3. pcb'[p] = IF p = h THEN NewPCB(h) ELSE pcb[p]
    BY <2>1 DEF Types
  <2>4. CASE p = h
    <3>1. pcb'[p].start = None
      BY <2>3, <2>4 DEF NewPCB
    <3> QED BY <2>1, <2>2, <2>4, <3>1 DEF Balanced
  <2>5. CASE p # h
    BY <1>1, <2>1, <2>3, <2>5, BalancedKept
  <2> QED BY <2>4, <2>5
<1>4. CASE StopVictim
  <2>1. /\ at = "stop" /\ current_process \in Proc /\ ReadySet' = ReadySet \cup {current_process}
        /\ UNCHANGED <<pcb, current_process>>
    BY <1>4, StopPlaces DEF StopVictim, Step
  <2>2. CASE p = current_process
    <3>1. p \notin ReadySet /\ pcb[p].last_prempt = clk
      BY <2>1, <2>2 DEF SchedulerPlaces, Clocks, TickOrder, Deciding
    <3>2. life[p] # "crashed" => Until(p, pcb[p].last_prempt)
      BY <1>1, <2>2, <3>1 DEF Balanced
    <3> QED BY <1>1, <2>1, <2>2, <3>2 DEF Balanced, Until, Accounted, Owing
  <2>3. CASE p # current_process
    BY <1>1, <2>1, <2>3, BalancedKept
  <2> QED BY <2>2, <2>3
<1>5. CASE HandleProcessCompletion
  <2>1. CompletionLeavesIdle
    BY <1>5, CompletionPlaces DEF CompletionTakesNext
  <2>2. current_process' = None /\ UNCHANGED pcb /\ ReadySet' = ReadySet /\ p # None
    BY <2>1, ReadyKept, ConstantTypes DEF CompletionLeavesIdle
  <2> QED BY <1>1, <2>2, BalancedKept
<1> QED BY <1>2, <1>3, <1>4, <1>5, BooksPick

LEMMA BooksStep ==
  ASSUME Timely, Algorithm # "SRTN", IInv, Marks, TickOrder, Turns, Books, Next, Alive'
  PROVE  Books'
<1> USE DEF IInv
<1> SUFFICES ASSUME NEW p \in Proc PROVE Balanced(p)'
  BY DEF Books
<1>1. Alive /\ Balanced(p)
  BY AliveBefore DEF Books
<1>2. ASSUME UNCHANGED schedulerVars
      PROVE  UNCHANGED <<at, pcb, current_process>> /\ ReadySet' = ReadySet
  BY <1>2, ReadyKept DEF schedulerVars
<1>3. CASE PlanStep /\ UNCHANGED <<processVars, schedulerVars>>
  BY <1>1, <1>2, <1>3, PlanFrame, BalancedKept DEF processVars
<1>4. CASE Launch /\ UNCHANGED <<processVars, schedulerVars>>
  <2>1. booked \in Proc /\ ~Launched(booked)
    BY <1>4, LaunchPlaces
  <2>2. /\ life' = [life EXCEPT ![booked] = "spin"]
        /\ shm' = [shm EXCEPT ![booked] = job[booked].exec] /\ UNCHANGED <<job, clk, seen>>
    BY <1>4 DEF Launch, processVars
  <2>3. booked # current_process /\ booked \notin ReadySet
    BY <2>1 DEF SchedulerPlaces
  <2>4. CASE p = booked
    BY <1>2, <1>4, <2>3, <2>4 DEF Balanced
  <2>5. CASE p # booked
    <3>1. life'[p] = life[p] /\ shm'[p] = shm[p]
      BY <2>2, <2>5 DEF Types
    <3> QED BY <1>1, <1>2, <1>4, <2>2, <3>1, BalancedKept
  <2> QED BY <2>4, <2>5
<1>5. ASSUME NEW q \in Proc, Reap(q) PROVE Balanced(p)'
  <2>1. life' = [life EXCEPT ![q] = "reaped"] /\ life[q] = "zombie"
        /\ UNCHANGED <<job, clk, shm, seen, schedulerVars>>
    BY <1>5 DEF Reap, ReapProcess, processVars
  <2>2. /\ life'[p] # "crashed" => life[p] # "crashed"
        /\ Owing(p)' <=> Owing(p)
    BY <2>1 DEF Types, Owing
  <2> QED BY <1>1, <1>2, <2>1, <2>2 DEF Balanced, Until, Accounted
<1>6. CASE ReapScheduler
  BY <1>1, <1>6 DEF ReapScheduler, Alive
<1>7. CASE Tick
  <2>1. /\ clk' = clk + 1 /\ clk \in Nat
        /\ UNCHANGED <<life, seen, job, shm, schedulerVars>>
    BY <1>7, Numbers DEF Tick, processVars
  <2>2. /\ UNCHANGED <<pcb, current_process>> /\ ReadySet' = ReadySet
        /\ Accounted(p)' = Accounted(p)
    BY <1>2, <2>1 DEF Accounted
  <2>3. ASSUME life[p] # "crashed", p = current_process, p \notin ReadySet
        PROVE  Until(p, clk)'
    <3>1. life[p] = "tick" /\ seen[p] = clk
      BY <1>1, <1>7, <2>3, ConstantTypes, TickWhenGranted DEF Idle
    <3>2. ~Owing(p) /\ Owing(p)'
      BY <2>1, <3>1 DEF Owing
    <3>3. Accounted(p) = clk
      BY <1>1, <2>3, <3>2 DEF Balanced, Until
    <3> QED BY <2>1, <2>2, <3>2, <3>3 DEF Until
  <2>4. ASSUME life[p] # "crashed", p \in ReadySet, pcb[p].start # None
        PROVE  Until(p, pcb[p].last_prempt)'
    <3>1. life[p] = "tick" => seen[p] < clk /\ seen[p] \in Int
      BY <2>4 DEF Turns, Waits
    <3>2. Owing(p)' <=> Owing(p)
      BY <2>1, <3>1 DEF Owing
    <3> QED BY <1>1, <2>2, <2>4, <3>2 DEF Balanced, Until
  <2> QED BY <2>1, <2>2, <2>3, <2>4 DEF Balanced
<1> QED BY <1>3, <1>4, <1>5, <1>6, <1>7, NextCases, BooksProcess, BooksScheduler DEF processVars

(***************************************************************************)
(* WaitingIsExact: the books of the current process are complete when the  *)
(* completion handler retires it, and nobody writes to them afterwards.    *)
(***************************************************************************)
ExactFor(p) == finish[p] # None => finish[p] - job[p].arrival = pcb[p].waiting + job[p].exec

LEMMA ExactStep ==
  ASSUME Algorithm # "SRTN", IInv, Alive => Books, WaitingIsExact, Next
  PROVE  WaitingIsExact'
<1> USE DEF IInv
<1> SUFFICES ASSUME NEW p \in Proc PROVE ExactFor(p)'
  BY DEF WaitingIsExact, ExactFor
<1>1. ExactFor(p) /\ job' = job
  BY WorkFalls DEF WaitingIsExact, ExactFor
<1>2. ASSUME finish'[p] = finish[p], finish[p] # None => pcb'[p].waiting = pcb[p].waiting
      PROVE  ExactFor(p)'
  BY <1>1, <1>2 DEF ExactFor
<1>3. CASE UNCHANGED schedulerVars
  BY <1>2, <1>3 DEF schedulerVars
<1>4. CASE QuietStep
  BY <1>2, <1>4, QuietFrame, QuietStamps
<1>5. CASE Receive
  <2>1. /\ Head(msgq) \in Range(msgq) /\ Head(msgq) \in Proc /\ finish' = finish
        /\ pcb' = [pcb EXCEPT ![Head(msgq)] = NewPCB(Head(msgq))]
    BY <1>5, ReceivePlaces DEF Receive
  <2>2. finish[p] # None => p # Head(msgq)
    BY <2>1 DEF SchedulerPlaces, Finished
  <2> QED BY <1>2, <2>1, <2>2 DEF Types
<1>6. CASE StopVictim
  BY <1>2, <1>6 DEF StopVictim
<1>7. CASE Pick
  <2>1. finish' = finish /\ clockValue \in 0..MaxClk
    BY <1>7, PickFrame DEF Types, Clocks, Deciding
  <2>2. ASSUME NEW q \in ReadySet, Dispatch(q, clockValue) PROVE ExactFor(p)'
    <3>1. q \in Proc /\ (finish[p] # None => p # q)
      BY ReadyInProc DEF SchedulerPlaces, Finished
    <3> QED BY <1>2, <2>1, <2>2, <3>1, DispatchTypes
  <2> QED BY <1>2, <1>7, <2>1, <2>2, PickCases DEF SchedulerPlaces
<1>8. CASE HandleProcessCompletion
  <2>1. /\ current_process \in Proc /\ Ended(current_process) /\ current_process \notin ReadySet
        /\ pcb' = pcb /\ finish' = [finish EXCEPT ![current_process] = clk]
        /\ Books
    BY <1>8, CompletionPlaces, CompletionFrame
       DEF CompletionTakesNext, CompletionLeavesIdle, Completes
  <2>2. CASE p = current_process
    <3>1. Balanced(p) /\ ~Owing(p) /\ life[p] # "crashed" /\ shm[p] = 0
      BY <2>1, <2>2 DEF Books, Ended, Owing, Working
    <3>2. Accounted(p) = clk
      BY <2>1, <2>2, <3>1 DEF Balanced, Until
    <3>3. job[p].arrival + pcb[p].waiting + job[p].exec = clk /\ clk \in Int
          /\ job[p].arrival \in Int /\ job[p].exec \in Int /\ pcb[p].waiting \in Int
      BY <3>1, <3>2, BookTypes DEF Accounted
    <3>4. finish'[p] = clk
      BY <2>1, <2>2 DEF Types
    <3> QED BY <1>1, <2>1, <3>3, <3>4 DEF ExactFor
  <2>3. CASE p # current_process
    BY <1>2, <2>1, <2>3
  <2> QED BY <2>2, <2>3
<1> QED BY <1>3, <1>4, <1>5, <1>6, <1>7, <1>8, NextCases, ProcessFrame
        DEF Reap, ReapScheduler, Tick

LEMMA TimedInit == Init => TimedInv
<1> SUFFICES ASSUME Init PROVE TimedInv
  OBVIOUS
<1>1. /\ current_process = None /\ ReadySet = {} /\ finish = [p \in Proc |-> None]
  BY EmptyQueue DEF Init, SchedulerInit, ReadySet
<1>2. Books
  BY <1>1, ConstantTypes DEF Books, Balanced
<1>3. WaitingIsExact
  BY <1>1 DEF WaitingIsExact
<1> QED BY <1>2, <1>3, TickInit DEF TimedInv

LEMMA TimedStep ==
  ASSUME Timely, Algorithm # "SRTN"
  PROVE  TimedInv /\ [Next]_vars => TimedInv'
<1>1. ASSUME TimedInv, Next PROVE TimedInv'
  <2>1. TickInv'
    BY <1>1, TickStep DEF TimedInv
  <2> QED BY <1>1, <2>1, AliveBefore, BooksStep, ExactStep DEF TimedInv, TickInv
<1>2. ASSUME TimedInv, UNCHANGED vars PROVE TimedInv'
  <2>1. UNCHANGED <<sharedVars, processVars, schedulerVars>>
    BY <1>2 DEF vars
  <2>2. UNCHANGED <<job, clk, shm, life, seen, at, current_process, rr_queue, ready_Heap, pcb,
                    finish>>
    BY <2>1 DEF sharedVars, processVars, schedulerVars
  <2>3. ReadySet' = ReadySet
    BY <2>2, ReadyKept
  <2>4. ASSUME Alive, NEW p \in Proc PROVE Balanced(p)'
    BY <1>2, <2>2, <2>3, <2>4, BalancedKept DEF TimedInv, Books
  <2>5. TickInv' /\ WaitingIsExact' /\ (Alive' => Alive)
    BY <1>2, <2>2, TickStep DEF TimedInv, WaitingIsExact, Alive
  <2> QED BY <2>4, <2>5 DEF TimedInv, Books
<1> QED BY <1>1, <1>2

(***************************************************************************)
(* With HPF and RR the books balance, if the work of a tick is done before *)
(* the next one: the waiting time that start_process and resume_process    *)
(* accumulate and the execution time make up the turnaround time, wherever *)
(* in its tick a process is preempted and whenever its signal is handled.  *)
(***************************************************************************)
THEOREM BooksBalance ==
  ASSUME Timely, Algorithm # "SRTN"
  PROVE  Spec => []WaitingIsExact
<1>1. TimedInv => WaitingIsExact
  BY DEF TimedInv
<1>2. TimedInv /\ [Next]_vars => TimedInv'
  BY TimedStep
<1> QED BY <1>1, <1>2, TimedInit, PTL DEF Spec
--------------------------------------------------------------------------------
(***************************************************************************)
(* The processes share one CPU.  A tick is claimed by a process from the   *)
(* moment the clock shows it while the process waits for it: its work      *)
(* follows.  Only the clock makes the sum of the claims rise, and only by  *)
(* one, because only the current process can be waiting for it.            *)
(***************************************************************************)
Claims == [p \in Proc |-> job[p].exec - shm[p] + IF Owing(p) THEN 1 ELSE 0]
Claimed == Summed(Claims, Proc)

\* Whoever has read the clock in this tick is the current process.
OneAtWork ==
  \A p \in Proc : life[p] = "tick" => /\ seen[p] \in 0..clk
                                      /\ seen[p] = clk => p = current_process

ClaimsFit ==
  IF start_time = None THEN \A p \in Proc : pcb[p].start = None /\ Claims[p] = 0
                       ELSE Claimed <= clk - start_time

BeforeStore == at \in {"recv", "check", "clock", "compare", "store"}

\* While the CPU is idle nobody claims a tick, and clockValue stays, but for
\* the forced run of a tick, at the last completion.
LastCompletion ==
  Idle /\ start_time # None /\ ~BeforeStore =>
    Claimed <= clockValue - start_time

\* Nobody who has started is forgotten.
Accounts ==
  /\ \A p \in Proc : pcb[p].start # None => p \in ReadySet \/ p = current_process \/ Finished(p)
  /\ at = "exited" => Idle /\ ReadySet = {}
  /\ at \in {"boot", "sync"} => start_time = None

CpuInv == TickInv /\ OneAtWork /\ ClaimsFit /\ LastCompletion /\ Accounts

LEMMA ClaimTypes ==
  ASSUME IInv
  PROVE  /\ \A p \in Proc : Claims[p] \in Nat
         /\ Claimed \in Int
<1>1. ASSUME NEW p \in Proc PROVE Claims[p] \in Nat
  <2>1. shm[p] \in Int /\ job[p].exec \in Nat /\ shm[p] <= job[p].exec
    BY JobTypes DEF IInv, Types, Working, Ended, Life
  <2> QED BY <2>1 DEF Claims
<1>2. Claimed \in Int
  <2>1. \A p \in Proc : Claims[p] \in Int
    BY <1>1
  <2> QED BY <2>1, ProcAssumption, SumIsInt DEF Claimed
<1> QED BY <1>1, <1>2

\* The clock alone makes claims.
LEMMA ClaimsKept ==
  ASSUME IInv, Next, ~Tick
  PROVE  Claims' = Claims /\ Claimed' = Claimed
<1> USE DEF IInv
<1> DEFINE claim(p) == job[p].exec - shm[p] + IF Owing(p) THEN 1 ELSE 0
<1>1. job' = job /\ shm \in [Proc -> Int] /\ life \in [Proc -> Life] /\ seen \in [Proc -> Time]
      /\ \A p \in Proc : job[p].exec \in Int
  BY WorkFalls, JobTypes DEF Types
<1>2. ASSUME NEW p \in Proc PROVE claim(p)' = claim(p)
  <2>1. ASSUME UNCHANGED <<clk, shm>>, seen'[p] = seen[p],
               life'[p] = "tick" <=> life[p] = "tick"
        PROVE  claim(p)' = claim(p)
    BY <1>1, <2>1 DEF Owing
  <2>2. ASSUME NEW q \in Proc, ProcessNext(q) PROVE claim(p)' = claim(p)
    <3>1. clk' = clk
      BY <2>2, ProcessFrame
    <3>2. CASE p # q
      <4>1. life'[p] = life[p] /\ shm'[p] = shm[p] /\ seen'[p] = seen[p]
        BY <1>1, <2>2, <3>2 DEF ProcessNext, ProcessStep, Acquire, ReadClk, Work, Notify, Exit, Goto
      <4> QED BY <1>1, <3>1, <4>1 DEF Owing
    <3>3. CASE Acquire(q) \/ ReadClk(q) \/ Exit(q)
      <4>1. shm' = shm /\ (p = q => ~Owing(p) /\ ~Owing(p)')
        BY <1>1, <3>1, <3>3 DEF Acquire, ReadClk, Exit, Running, Goto, Owing
      <4> QED BY <1>1, <3>2, <4>1
    <3>4. CASE Work(q)
      <4>1. p = q => shm'[p] = shm[p] - 1 /\ Owing(p) /\ ~Owing(p)'
        BY <1>1, <3>4 DEF Work, Running, Goto, Owing, TickPassed
      <4> QED BY <1>1, <3>2, <4>1
    <3>5. CASE Notify(q)
      <4>1. /\ life[q] = "notify" /\ shm' = [shm EXCEPT ![q] = 0]
            /\ life'[q] \in {"exit", "zombie"}
        BY <1>1, <3>5 DEF Notify, Running, Goto
      <4>2. p = q => shm'[p] = shm[p] /\ ~Owing(p) /\ ~Owing(p)'
        BY <1>1, <4>1 DEF Working, Owing
      <4> QED BY <1>1, <3>2, <4>2
    <3> QED BY <2>2, <3>3, <3>4, <3>5 DEF ProcessNext, ProcessStep
  <2>3. ASSUME NEW q \in Proc, Reap(q) PROVE claim(p)' = claim(p)
    <3>1. life' = [life EXCEPT ![q] = "reaped"] /\ life[q] = "zombie" /\ UNCHANGED <<clk, shm, seen>>
      BY <2>3 DEF Reap, ReapProcess, processVars
    <3> QED BY <1>1, <2>1, <3>1
  <2>4. CASE Launch /\ UNCHANGED processVars
    <3>1. booked \in Proc /\ life[booked] = "unborn"
      BY <2>4, LaunchPlaces DEF Launched
    <3>2. /\ life' = [life EXCEPT ![booked] = "spin"] /\ UNCHANGED <<clk, seen>>
          /\ shm' = [shm EXCEPT ![booked] = job[booked].exec]
      BY <2>4 DEF Launch, processVars
    <3>3. shm' = shm
      BY <1>1, <3>1, <3>2 DEF Working
    <3>4. life'[p] = "tick" <=> life[p] = "tick"
      BY <1>1, <3>1, <3>2
    <3> QED BY <2>1, <3>2, <3>3, <3>4
  <2> QED BY <2>1, <2>2, <2>3, <2>4, NextCases, SchedulerFrame, PlanFrame
          DEF ReapScheduler, processVars, sharedVars
<1>3. Claims' = Claims
  BY <1>2 DEF Claims
<1> QED BY <1>3 DEF Claimed

\* A tick of the clock is claimed by the current process at most.
LEMMA ClaimsTick ==
  ASSUME IInv, OneAtWork, Tick
  PROVE  /\ \A p \in Proc \ {current_process} : Claims'[p] = Claims[p]
         /\ \A p \in Proc : Claims'[p] \in Int
         /\ Claimed' <= IF Idle THEN Claimed ELSE Claimed + 1
<1> USE DEF IInv
<1>1. /\ clk' = clk + 1 /\ clk \in Nat /\ UNCHANGED <<job, shm, life, seen>>
      /\ \A p \in Proc : shm[p] \in Int /\ job[p].exec \in Int
  BY Numbers, JobTypes DEF Tick, processVars, Types
<1>2. \A p \in Proc : /\ Claims[p] \in Int /\ Claims'[p] \in Int
                      /\ Claims'[p] <= Claims[p] + 1
                      /\ p # current_process => Claims'[p] = Claims[p]
  BY <1>1 DEF Claims, Owing, OneAtWork
<1>3. Summed(Claims', Proc) <= IF current_process \in Proc THEN Summed(Claims, Proc) + 1
                                                        ELSE Summed(Claims, Proc)
  <2>1. \A p \in Proc : Claims'[p] <= IF p = current_process THEN Claims[p] + 1 ELSE Claims[p]
    BY <1>2
  <2> QED BY <1>2, <2>1, ProcAssumption, SumRises
<1>4. current_process \in Proc <=> ~Idle
  BY ConstantTypes DEF Idle, Types
<1> QED BY <1>2, <1>3, <1>4 DEF Claimed

(***************************************************************************)
(* OneAtWork: a process reads the clock only while it has the CPU, and     *)
(* whoever is put back into the ready queue or retired is not waiting for  *)
(* the next tick.                                                          *)
(***************************************************************************)
LEMMA OneAtWorkStep ==
  ASSUME TickInv, OneAtWork, Next
  PROVE  OneAtWork'
<1> USE DEF TickInv, IInv
<1>1. /\ life \in [Proc -> Life] /\ seen \in [Proc -> Time] /\ clk \in Nat
      /\ None \notin Proc /\ None \notin Int
  BY Numbers, ConstantTypes DEF Types
<1>2. ASSUME UNCHANGED <<clk, seen>>, \A p \in Proc : life'[p] = "tick" => life[p] = "tick",
             \A p \in Proc : p = current_process /\ life[p] = "tick" /\ seen[p] = clk =>
               current_process' = p
      PROVE  OneAtWork'
  BY <1>2 DEF OneAtWork
<1>3. ASSUME NEW q \in Proc, ProcessNext(q) PROVE OneAtWork'
  <2>1. UNCHANGED <<clk, current_process>>
    BY <1>3, ProcessFrame DEF schedulerVars
  <2>2. CASE ReadClk(q)
    <3>1. seen' = [seen EXCEPT ![q] = clk] /\ life' = [life EXCEPT ![q] = "tick"]
          /\ q = current_process
      BY <1>3, <2>2, ProcessIsCurrent DEF ReadClk, Running, Goto, Ended
    <3> QED BY <1>1, <2>1, <3>1 DEF OneAtWork
  <2>3. CASE ~ReadClk(q)
    <3>1. \A p \in Proc : life'[p] = "tick" => life[p] = "tick" /\ seen'[p] = seen[p]
      BY <1>1, <1>3, <2>3 DEF ProcessNext, ProcessStep, Acquire, Work, Notify, Exit, Goto
    <3> QED BY <2>1, <3>1 DEF OneAtWork
  <2> QED BY <2>2, <2>3
<1>4. CASE QuietStep /\ UNCHANGED processVars
  BY <1>2, <1>4, QuietFrame DEF processVars
<1>5. CASE (Receive \/ StopVictim) /\ UNCHANGED processVars
  BY <1>2, <1>5 DEF Receive, StopVictim, processVars
<1>6. CASE Pick /\ UNCHANGED processVars
  <2>1. ASSUME NEW p \in Proc, p = current_process PROVE ~(life[p] = "tick" /\ seen[p] = clk)
    <3>1. at = "pick" /\ p \in ReadySet /\ Turns
      BY <1>6, <2>1 DEF Pick, Step, SchedulerPlaces, Alive
    <3> QED BY <1>1, <2>1, <3>1 DEF Turns, Waits, OneAtWork
  <2> QED BY <1>2, <1>6, <2>1, SchedulerFrame DEF processVars
<1>7. CASE HandleProcessCompletion /\ UNCHANGED processVars
  BY <1>2, <1>7, CompletionPlaces, SchedulerFrame DEF processVars, Ended
<1>8. CASE PlanStep /\ UNCHANGED <<processVars, schedulerVars>>
  BY <1>2, <1>8, PlanFrame DEF processVars, schedulerVars
<1>9. CASE Launch /\ UNCHANGED <<processVars, schedulerVars>>
  <2>1. life' = [life EXCEPT ![booked] = "spin"] /\ clk' = clk
    BY <1>9 DEF Launch
  <2> QED BY <1>1, <1>2, <1>9, <2>1 DEF processVars, schedulerVars
<1>10. ASSUME NEW q \in Proc, Reap(q) PROVE OneAtWork'
  <2>1. life' = [life EXCEPT ![q] = "reaped"] /\ clk' = clk
        /\ UNCHANGED <<processVars, schedulerVars>>
    BY <1>10 DEF Reap, ReapProcess
  <2> QED BY <1>1, <1>2, <2>1 DEF processVars, schedulerVars
<1>11. CASE ReapScheduler
  BY <1>2, <1>11 DEF ReapScheduler, sharedVars, processVars, schedulerVars
<1>12. CASE Tick
  <2>1. clk' = clk + 1 /\ UNCHANGED <<life, seen, current_process>>
    BY <1>12 DEF Tick, processVars, schedulerVars
  <2> QED BY <1>1, <2>1 DEF OneAtWork
<1> QED BY <1>3, <1>4, <1>5, <1>6, <1>7, <1>8, <1>9, <1>10, <1>11, <1>12, NextCases

(***************************************************************************)
(* Accounts.                                                               *)
(***************************************************************************)
LEMMA AccountsStep ==
  ASSUME IInv, Accounts, Next
  PROVE  Accounts'
<1> USE DEF IInv, Accounts
<1>0. None \notin Int /\ ReadySet \subseteq Proc
  BY ConstantTypes, ReadyInProc DEF SchedulerPlaces
<1>1. ASSUME UNCHANGED schedulerVars PROVE Accounts'
  <2>1. UNCHANGED <<at, pcb, current_process, finish, start_time>> /\ ReadySet' = ReadySet
    BY <1>1, ReadyKept DEF schedulerVars
  <2> QED BY <2>1 DEF Finished, Idle
<1>2. CASE QuietStep
  <2>1. /\ UNCHANGED <<current_process, finish, start_time>> /\ ReadySet' = ReadySet
        /\ \A p \in Proc : pcb'[p].start = pcb[p].start
        /\ at' \in {"boot", "sync"} => at \in {"boot", "sync"}
    BY <1>2, QuietFrame, ReadyKept, QuietStamps, QuietTimes
  <2>2. at' = "exited" => Idle /\ ReadySet = {}
    <3>1. at' = "exited" => Leave \/ at = "exited"
      BY <1>2 DEF QuietStep, Boot, SyncClk, Leave, Down, CheckIdle, ReceiveDone, ReadTime,
                  CompareTime, StoreTime, RunAlgorithm, EnterSwitch, Preempt, TestBeforeGrant,
                  Grant, TestBeforeReport, Report, WaitForTick, HandleGeneratorCompletion, Return
    <3> QED BY <3>1, NoReadyIsEmpty DEF Leave, AllDone, SchedulerPlaces
  <2> QED BY <2>1, <2>2 DEF Finished, Idle
<1>3. CASE Receive
  <2>1. /\ ReadySet' = ReadySet \cup {Head(msgq)} /\ at' \in {"run", "check"}
        /\ UNCHANGED <<current_process, finish, start_time>>
        /\ \A p \in Proc : p = Head(msgq) \/ pcb'[p] = pcb[p]
    BY <1>3, ReceivePlaces DEF Receive, Types
  <2> QED BY <2>1 DEF Finished
<1>4. CASE StopVictim
  <2>1. /\ ReadySet' = ReadySet \cup {current_process} /\ at' = "pick"
        /\ UNCHANGED <<current_process, finish, start_time, pcb>>
    BY <1>4, StopPlaces DEF StopVictim
  <2> QED BY <2>1 DEF Finished
<1>5. CASE Pick
  <2>1. at = "pick" /\ at' \in {"check", "post"} /\ finish' = finish /\ clockValue \in 0..MaxClk
    BY <1>5, PickFrame DEF Clocks, Deciding, Types
  <2>2. \A p \in Proc : p = current_process => p \in ReadySet
    BY <2>1 DEF SchedulerPlaces
  <2>3. CASE ReadySet = {} /\ ReadySet' = {} /\ UNCHANGED pcb
    BY <2>1, <2>2, <2>3 DEF Finished
  <2>4. ASSUME NEW q \in ReadySet, ReadySet' = ReadySet \ {q}, Dispatch(q, clockValue)
        PROVE  Accounts'
    <3>1. current_process' = q /\ \A p \in Proc : p # q => pcb'[p] = pcb[p]
      BY <1>0, <2>1, <2>4, DispatchTypes
    <3> QED BY <2>1, <2>2, <2>4, <3>1 DEF Finished
  <2> QED BY <1>5, <2>3, <2>4, PickCases DEF SchedulerPlaces
<1>6. CASE HandleProcessCompletion
  <2>1. /\ current_process \in Proc /\ current_process \notin ReadySet /\ Completes
        /\ at \notin {"boot", "sync", "exited"} /\ clk \in 0..MaxClk
        /\ at' \notin {"boot", "sync", "exited"}
    BY <1>6, CompletionPlaces, CompletionFrame DEF Control, Alive, Types
  <2>2. \A p \in Proc : p = current_process \/ Finished(p) => Finished(p)'
    BY <1>0, <2>1 DEF Completes, Types, Finished
  <2>3. CASE CompletionLeavesIdle
    <3>1. UNCHANGED pcb /\ ReadySet' = ReadySet
      BY <2>3, ReadyKept DEF CompletionLeavesIdle
    <3> QED BY <2>1, <2>2, <3>1
  <2>4. CASE CompletionTakesNext
    <3>1. PICK q \in ReadySet : ReadySet' = ReadySet \ {q} /\ Dispatch(q, clk)
      BY <2>4 DEF CompletionTakesNext
    <3>2. current_process' = q /\ \A p \in Proc : p # q => pcb'[p] = pcb[p]
      BY <1>0, <2>1, <3>1, DispatchTypes
    <3> QED BY <2>1, <2>2, <3>1, <3>2
  <2> QED BY <1>6, <2>3, <2>4, CompletionPlaces
<1> QED BY <1>1, <1>2, <1>3, <1>4, <1>5, <1>6, NextCases, ProcessFrame
        DEF Reap, ReapProcess, ReapScheduler, Tick

(***************************************************************************)
(* ClaimsFit: nobody has claimed a tick when the first process starts.     *)
(***************************************************************************)
LEMMA ClaimsFitStep ==
  ASSUME IInv, OneAtWork, ClaimsFit, Next
  PROVE  ClaimsFit'
<1> USE DEF IInv
<1>1. clk \in Nat /\ clockValue \in Int /\ None \notin Int /\ None \notin Proc
      /\ start_time \in Time /\ Claimed \in Int /\ ReadySet \subseteq Proc
  BY Numbers, ConstantTypes, ClaimTypes, ReadyInProc DEF SchedulerPlaces, Types
<1>2. CASE Tick
  <2>1. /\ clk' = clk + 1 /\ UNCHANGED <<pcb, start_time, current_process>>
        /\ Claimed' \in Int
    <3>1. \A p \in Proc : Claims'[p] \in Int
      BY <1>2, ClaimsTick
    <3>2. Summed(Claims', Proc) \in Int
      BY <3>1, ProcAssumption, SumIsInt
    <3> QED BY <1>2, <3>2 DEF Tick, schedulerVars, Claimed
  <2>2. CASE start_time = None
    <3>1. Idle
      BY <2>2 DEF ClaimsFit, Clocks, Idle, Types
    <3>2. \A p \in Proc : p # current_process
      BY <1>1, <3>1 DEF Idle
    <3> QED BY <1>2, <2>1, <2>2, <3>2, ClaimsTick DEF ClaimsFit
  <2>3. CASE start_time # None
    <3>1. Claimed <= clk - start_time /\ start_time \in Int
      BY <1>1, <2>3 DEF ClaimsFit, Time
    <3>2. Claimed' <= Claimed + 1
      BY <1>1, <1>2, <2>1, ClaimsTick
    <3>3. Claimed' <= clk' - start_time
      <4> HIDE DEF Claimed
      <4> QED BY <1>1, <2>1, <3>1, <3>2
    <3> QED BY <2>1, <2>3, <3>3 DEF ClaimsFit
  <2> QED BY <2>2, <2>3
<1>3. CASE ~Tick
  <2>1. Claims' = Claims /\ Claimed' = Claimed
    BY <1>3, ClaimsKept
  <2>2. clk' = clk
    BY <1>3, NextCases, ProcessFrame, SchedulerFrame, PlanFrame
       DEF Reap, ReapProcess, ReapScheduler, Launch, sharedVars
  <2>3. ASSUME start_time' = start_time,
               start_time = None => \A p \in Proc : pcb[p].start = None => pcb'[p].start = None
        PROVE  ClaimsFit'
    BY <2>1, <2>2, <2>3 DEF ClaimsFit
  <2>4. ASSUME NEW now \in 0..MaxClk, now <= clk, NEW q \in Proc, Dispatch(q, now)
        PROVE  ClaimsFit'
    <3>1. start_time' = IF start_time = None THEN now ELSE start_time
      BY <2>4 DEF Dispatch
    <3>2. CASE start_time # None
      BY <1>1, <2>3, <3>1, <3>2
    <3>3. CASE start_time = None
      <4>1. Claimed = 0
        BY <3>3, ProcAssumption, SumOfZeros DEF Claimed, ClaimsFit
      <4>2. start_time' = now /\ now # None /\ now \in Int
        BY <1>1, <2>4, <3>1, <3>3
      <4> QED BY <1>1, <2>1, <2>2, <2>4, <4>1, <4>2 DEF ClaimsFit
    <3> QED BY <3>2, <3>3
  <2>5. CASE UNCHANGED schedulerVars
    BY <2>3, <2>5 DEF schedulerVars
  <2>6. CASE QuietStep
    BY <2>3, <2>6, QuietFrame, QuietStamps
  <2>7. CASE Receive
    <3>1. /\ pcb' = [pcb EXCEPT ![Head(msgq)] = NewPCB(Head(msgq))] /\ start_time' = start_time
      BY <2>7 DEF Receive
    <3>2. \A p \in Proc : pcb[p].start = None => pcb'[p].start = None
      BY <3>1 DEF Types, NewPCB
    <3> QED BY <2>3, <3>1, <3>2
  <2>8. CASE StopVictim
    BY <2>3, <2>8 DEF StopVictim
  <2>9. CASE Pick
    <3>1. clockValue \in 0..MaxClk /\ clockValue <= clk
      BY <2>9, PickFrame DEF Clocks, Deciding, Types
    <3> QED BY <1>1, <2>3, <2>4, <2>9, <3>1, PickCases DEF SchedulerPlaces
  <2>10. CASE HandleProcessCompletion
    <3>1. clk \in 0..MaxClk
      BY DEF Types
    <3> QED BY <1>1, <2>3, <2>4, <2>10, <3>1, CompletionPlaces
            DEF CompletionLeavesIdle, CompletionTakesNext
  <2> QED BY <1>3, <2>5, <2>6, <2>7, <2>8, <2>9, <2>10, NextCases, ProcessFrame
          DEF Reap, ReapProcess, ReapScheduler
<1> QED BY <1>2, <1>3

(***************************************************************************)
(* LastCompletion: clockValue is not behind the completion that has left   *)
(* the CPU idle, except on its way through -1 to the tick that follows.    *)
(***************************************************************************)
LEMMA LastCompletionStep ==
  ASSUME Timely, IInv, OneAtWork, ClaimsFit, Accounts, LastCompletion, Next, ClaimsFit'
  PROVE  LastCompletion'
<1> USE DEF IInv
<1>1. /\ clk \in Nat /\ clockValue \in Int /\ start_time \in Time /\ Claimed \in Int
      /\ None \notin Proc
  BY Numbers, ClaimTypes, ConstantTypes DEF Types
<1>2. ASSUME UNCHANGED <<start_time, clockValue>>, Idle' => Idle, Claimed' = Claimed,
             BeforeStore' \/ ~BeforeStore
      PROVE  LastCompletion'
  BY <1>2 DEF LastCompletion
<1>3. ASSUME clockValue' = clk' PROVE LastCompletion'
  BY <1>3 DEF LastCompletion, ClaimsFit
<1>4. CASE Tick
  <2>1. /\ UNCHANGED <<at, current_process, start_time, clockValue>> /\ (Idle' <=> Idle)
    BY <1>4 DEF Tick, schedulerVars, Idle
  <2>2. Idle => Claimed' = Claimed
    <3>1. Idle => \A p \in Proc : Claims'[p] = Claims[p]
      BY <1>1, <1>4, ClaimsTick DEF Idle
    <3>2. Idle => Claims' = Claims
      BY <3>1 DEF Claims
    <3> QED BY <3>2 DEF Claimed
  <2> QED BY <2>1, <2>2 DEF LastCompletion, BeforeStore
<1>5. CASE ~Tick
  <2>1. Claimed' = Claimed
    BY <1>5, ClaimsKept
  <2> USE DEF BeforeStore
  <2>2. CASE UNCHANGED schedulerVars
    BY <1>2, <2>1, <2>2 DEF schedulerVars, Idle
  <2>3. CASE QuietStep
    <3>1. UNCHANGED <<current_process, start_time, clk>> /\ (Idle' <=> Idle)
      BY <2>3, QuietFrame DEF Idle
    <3>2. CASE Boot \/ SyncClk
      BY <3>1, <3>2 DEF Boot, SyncClk, Step, Accounts, LastCompletion
    <3>3. CASE Down \/ CheckIdle \/ ReceiveDone
      BY <3>3 DEF Down, CheckIdle, ReceiveDone, LastCompletion
    <3>4. CASE ReadTime \/ CompareTime \/ StoreTime
      <4>1. CASE ReadTime
        BY <4>1 DEF ReadTime, LastCompletion
      <4>2. CASE at \in {"compare", "store"}
        <5>1. current_time = clk
          BY <4>2 DEF Clocks, Reading
        <5> QED BY <1>3, <3>1, <3>4, <5>1
                DEF ReadTime, CompareTime, StoreTime, TickTime, Step, LastCompletion
      <4> QED BY <3>4, <4>1, <4>2 DEF CompareTime, StoreTime, Step
    <3>5. CASE Leave \/ RunAlgorithm \/ EnterSwitch \/ Preempt
      BY <1>2, <2>1, <3>1, <3>5 DEF Leave, RunAlgorithm, EnterSwitch, Preempt, Return, Step
    <3>6. CASE \/ TestBeforeGrant \/ Grant \/ TestBeforeReport \/ Report \/ WaitForTick
               \/ HandleGeneratorCompletion
      BY <1>2, <2>1, <3>1, <3>6
         DEF TestBeforeGrant, Grant, TestBeforeReport, Report, WaitForTick, Step,
             HandleGeneratorCompletion
    <3> QED BY <2>3, <3>2, <3>3, <3>4, <3>5, <3>6 DEF QuietStep
  <2>4. CASE Receive
    BY <2>4 DEF Receive, Idle, LastCompletion
  <2>5. CASE StopVictim
    BY <1>2, <2>1, <2>5 DEF StopVictim, Step, Idle
  <2>6. CASE Pick
    <3>1. at = "pick" /\ clockValue' = clockValue
      BY <2>6, PickFrame
    <3>2. ASSUME ReadySet = {}, start_time' = start_time
          PROVE  LastCompletion'
      <4>1. Idle
        BY <1>1, <3>1, <3>2 DEF Idle, SchedulerPlaces, Types
      <4> QED BY <1>2, <2>1, <3>1, <3>2, <4>1
    <3>3. ASSUME NEW p \in ReadySet, Dispatch(p, clockValue)
          PROVE  LastCompletion'
      <4>1. current_process' = p /\ p \in Proc
        BY <3>3, ReadyInProc DEF Dispatch, SchedulerPlaces
      <4> QED BY <1>1, <4>1 DEF LastCompletion, Idle
    <3> QED BY <2>6, <3>2, <3>3, PickCases DEF SchedulerPlaces
  <2>7. CASE HandleProcessCompletion
    BY <1>3, <2>7, CompletionFrame
  <2> QED BY <1>5, <2>2, <2>3, <2>4, <2>5, <2>6, <2>7, NextCases, ProcessFrame
          DEF Reap, ReapProcess, ReapScheduler
<1> QED BY <1>4, <1>5

LEMMA CpuInit == Init => CpuInv
<1> SUFFICES ASSUME Init PROVE CpuInv
  OBVIOUS
<1>1. /\ at = "boot" /\ start_time = None /\ pcb = [p \in Proc |-> NewPCB(p)]
      /\ life = [p \in Proc |-> "unborn"] /\ shm = [p \in Proc |-> job[p].exec]
  BY DEF Init, SchedulerInit, SharedInit
<1>2. \A p \in Proc : pcb[p].start = None /\ Claims[p] = 0 /\ life[p] # "tick"
  <2>1. \A p \in Proc : job[p].exec \in Nat
    BY JobTypes, TickInit DEF TickInv, IInv
  <2> QED BY <1>1, <2>1 DEF NewPCB, Claims, Owing
<1> QED BY <1>1, <1>2, TickInit DEF CpuInv, OneAtWork, ClaimsFit, LastCompletion, Accounts

LEMMA CpuStep ==
  ASSUME Timely
  PROVE  CpuInv /\ [Next]_vars => CpuInv'
<1>1. ASSUME CpuInv, Next PROVE CpuInv'
  <2>1. TickInv' /\ OneAtWork' /\ Accounts' /\ ClaimsFit'
    BY <1>1, TickStep, OneAtWorkStep, AccountsStep, ClaimsFitStep DEF CpuInv, TickInv
  <2> QED BY <1>1, <2>1, LastCompletionStep DEF CpuInv, TickInv
<1>2. ASSUME CpuInv, UNCHANGED vars PROVE CpuInv'
  <2>1. UNCHANGED <<sharedVars, processVars, schedulerVars>>
    BY <1>2 DEF vars
  <2>2. /\ UNCHANGED <<job, clk, shm, life, seen, at, current_process, rr_queue, ready_Heap, pcb,
                       clockValue, finish, start_time>>
        /\ ReadySet' = ReadySet
    BY <2>1, ReadyKept DEF sharedVars, processVars, schedulerVars
  <2>3. Claims' = Claims /\ Claimed' = Claimed
    BY <2>2 DEF Claimed, Claims, Owing
  <2> QED BY <1>2, <2>2, <2>3, TickStep
          DEF CpuInv, OneAtWork, ClaimsFit, LastCompletion, BeforeStore, Accounts, Idle,
              Finished
<1> QED BY <1>1, <1>2

(***************************************************************************)
(* If the work of a tick is done before the next one, the processes have   *)
(* never done more work than there were ticks since the first one started, *)
(* with every algorithm: whoever is preempted, retired or still has to see *)
(* the clock move, a tick is not worked twice.                             *)
(***************************************************************************)
THEOREM OneCpu ==
  ASSUME Timely
  PROVE  Spec => []WorkFitsInTime
<1>1. CpuInv => WorkFitsInTime
  <2> SUFFICES ASSUME CpuInv, start_time # None
               PROVE  MapThenSumSet(WorkDone, Proc) <= clk - start_time
    BY DEF WorkFitsInTime
  <2> DEFINE done == [p \in Proc |-> WorkDone(p)]
  <2>1. MapThenSumSet(WorkDone, Proc) = Summed(done, Proc)
    BY DEF MapThenSumSet, MapThenFoldSet, Summed, Sums, One
  <2>2. \A p \in Proc : /\ done[p] \in Int /\ Claims[p] \in Int
                        /\ done[p] <= Claims[p]
    <3>1. \A p \in Proc : shm[p] \in Int /\ job[p].exec \in Int
      BY JobTypes DEF CpuInv, TickInv, IInv, Types
    <3> QED BY <3>1 DEF WorkDone, WorkLeft, Claims
  <2>3. Summed(done, Proc) \in Int
    <3> HIDE DEF done
    <3> QED BY <2>2, ProcAssumption, SumIsInt
  <2>4. Summed(done, Proc) <= Claimed
    <3>1. None \notin Proc /\ \A p \in Proc : done[p] <= IF p = None THEN Claims[p] + 1
                                                                     ELSE Claims[p]
      BY <2>2, ConstantTypes
    <3> HIDE DEF done
    <3>2. Summed(done, Proc) <= IF None \in Proc THEN Summed(Claims, Proc) + 1
                                                ELSE Summed(Claims, Proc)
      BY <2>2, <3>1, ProcAssumption, SumRises
    <3> QED BY <3>1, <3>2 DEF Claimed
  <2>5. /\ Claimed <= clk - start_time /\ Claimed \in Int
        /\ clk \in Int /\ start_time \in Int
    <3>1. start_time \in Time /\ clk \in Int
      BY Numbers DEF CpuInv, TickInv, IInv, Types
    <3> QED BY <3>1, ClaimTypes DEF CpuInv, ClaimsFit, TickInv, Time
  <2> HIDE DEF done
  <2> QED BY <2>1, <2>3, <2>4, <2>5
<1>2. CpuInv /\ [Next]_vars => CpuInv'
  BY CpuStep
<1> QED BY <1>1, <1>2, CpuInit, PTL DEF Spec

(***************************************************************************)
(* In the same circumstances the CPU utilisation of the final report is at *)
(* most 100%: all who have started are finished, with all their work done, *)
(* and clockValue is not behind the last completion.                       *)
(***************************************************************************)
THEOREM UtilisationFits ==
  ASSUME Timely
  PROVE  Spec => []UtilisationAtMostFull
<1>1. CpuInv => UtilisationAtMostFull
  <2> SUFFICES ASSUME CpuInv, at = "exited", start_time # None
               PROVE  active_cpu_time <= clockValue - start_time
    BY DEF UtilisationAtMostFull, total_time
  <2> DEFINE started == {p \in Proc : pcb[p].start # None}
             exec == [p \in started |-> ExecOf(p)]
  <2>1. active_cpu_time = Summed(exec, started)
    BY DEF active_cpu_time, MapThenSumSet, MapThenFoldSet, Summed, Sums, One
  <2>2. \A p \in started : exec[p] = Claims[p]
    <3> SUFFICES ASSUME NEW p \in started PROVE ExecOf(p) = Claims[p]
      OBVIOUS
    <3>1. Finished(p)
      BY ConstantTypes DEF CpuInv, Accounts, Idle
    <3>2. Ended(p) /\ shm[p] = 0 /\ job[p].exec \in Int
      BY <3>1, JobTypes DEF CpuInv, TickInv, IInv, Signals, Working
    <3> QED BY <3>2 DEF Claims, Owing, Ended, ExecOf
  <2>3. \A p \in Proc : Claims[p] \in Nat
    BY ClaimTypes DEF CpuInv, TickInv
  <2>4. Summed(exec, started) <= Claimed
    <3>1. started \subseteq Proc
      OBVIOUS
    <3> HIDE DEF started, exec
    <3>2. Summed(exec, started) <= Summed(Claims, Proc)
      BY <2>2, <2>3, <3>1, ProcAssumption, SumOfPart
    <3> QED BY <3>2 DEF Claimed
  <2>5. Summed(exec, started) \in Int
    <3>1. IsFiniteSet(started) /\ \A p \in started : exec[p] \in Int
      BY <2>2, <2>3, ProcAssumption, FS_Subset
    <3> HIDE DEF started, exec
    <3> QED BY <3>1, SumIsInt
  <2>6. Claimed <= clockValue - start_time
    BY DEF CpuInv, LastCompletion, BeforeStore, Accounts
  <2>7. Claimed \in Int /\ clockValue \in Int /\ start_time \in Int
    <3>1. start_time \in Time /\ clockValue \in Int
      BY Numbers DEF CpuInv, TickInv, IInv, Types
    <3> QED BY <3>1, ClaimTypes DEF CpuInv, TickInv, Time
  <2> HIDE DEF started, exec
  <2> QED BY <2>1, <2>4, <2>5, <2>6, <2>7
<1>2. CpuInv /\ [Next]_vars => CpuInv'
  BY CpuStep
<1> QED BY <1>1, <1>2, CpuInit, PTL DEF Spec
--------------------------------------------------------------------------------
(***************************************************************************)
(* The waiting times of RR.  The first in the queue is given the CPU by    *)
(* the time Due, and each one behind it a slot later: a quantum and the    *)
(* tick that a completion costs.  Time does not pass Due, and no step of   *)
(* the scheduler puts it off.                                              *)
(***************************************************************************)
Slot == Quantum + 1
LongestWait == (Cardinality(Proc) - 1) * Slot + 1

Latest(s, t) == IF s > t THEN s ELSE t

Due ==
  IF Idle THEN IF clockValue = clk /\ ~Deciding /\ at # "check" THEN clk + 1 ELSE clk
  ELSE IF at \in {"preempt", "stop", "pick"} THEN clk
  ELSE IF job[current_process].exec > 0
  THEN Latest(time_slice_start + Quantum, clk) + 1
  ELSE Latest(time_slice_start + Quantum + 1, clk)

\* The i-th in the queue gets the CPU in time if the first one does by d, when w
\* is the time since when each of them waits.
InLine(d, s, w) ==
  \A i \in 1..Len(s) : d + (i - 1) * Slot <= w[s[i]] + LongestWait

Since == [p \in Proc |-> WaitsSince(p)]
InTime == InLine(Due, rr_queue, Since)

\* The algorithm has run in this tick.
HasRun == at \in {"post", "grant", "refresh", "report"} \/ (at = "wait" /\ clk = current_time)

\* If somebody is ready then, the current process keeps the CPU to the end of
\* its quantum at most, unless it is about to announce its end.
WithinQuantum ==
  /\ HasRun /\ ~Idle /\ rr_queue # << >> =>
       \/ clk < time_slice_start + Quantum
       \/ shm[current_process] = 0 /\ job[current_process].exec > 0
       \/ job[current_process].exec = 0 /\ clk <= time_slice_start + Quantum
  /\ ~Idle /\ job[current_process].exec = 0 /\ life[current_process] # "crashed" =>
       \/ clk = time_slice_start
       \/ /\ clk = time_slice_start + 1 /\ life[current_process] = "tick"
          /\ seen[current_process] < clk
  /\ \A p \in Proc : Ended(p) => job[p].exec > 0

\* The scheduler works in every tick: a token waits for it when it comes.
NoTickIsSkipped ==
  /\ InTick \/ (at = "wait" /\ clk = current_time) => clockValue = clk
  /\ clk > 0 /\ Posted /\ (at \in {"sync", "top"} \/ (at = "wait" /\ clk # current_time)) =>
       semid = 1
  /\ at \notin {"boot", "sync"} => current_time >= 0
  /\ at \in {"boot", "sync"} \/ (at = "top" /\ clk = 0) => rr_queue = << >> /\ Idle
  /\ at = "boot" => clk = 0
  /\ last_tick = -1 => semid = 0 /\ at \in {"boot", "sync", "top"} /\ clk <= 1
  /\ gen \in {"serve", "serveLaunch", "arrive", "arriveLaunch", "sleep"} => last_tick = clk

\* A process that arrives is received in the same tick or in the next one.
Overdue(p) == job[p].arrival < clk

ArrivalsInTime ==
  /\ gen \in {"poll", "sleep"} => \A p \in pq : job[p].arrival > last_tick
  /\ \A p \in Proc :
       /\ p \in pq \/ p = booked => /\ job[p].arrival >= clk - 1
                                    /\ Overdue(p) => semid = 0 /\ at \in {"sync", "top"}
       /\ p \in Range(msgq) =>
            /\ job[p].arrival >= clk - 1
            /\ Overdue(p) => \/ at \in {"sync", "top", "recv", "check"}
                             \/ at = "wait" /\ clk # current_time

RoundInv ==
  TickInv /\ (Alive => WithinQuantum /\ NoTickIsSkipped /\ ArrivalsInTime /\ InTime)

(***************************************************************************)
(* NoTickIsSkipped.                                                        *)
(***************************************************************************)
LEMMA NoTickIsSkippedStep ==
  ASSUME Timely, Algorithm = "RR", TickInv, NoTickIsSkipped, Next, Alive'
  PROVE  NoTickIsSkipped'
<1> USE DEF TickInv, IInv
<1>1. /\ Alive /\ clk \in Nat /\ current_time \in Int /\ Marks /\ Turns /\ TickOrder
      /\ current_time <= clk /\ last_tick \in -1..clk
  BY AliveBefore, Numbers DEF Clocks, Arrivals
<1>2. ASSUME UNCHANGED <<at, clockValue, current_time, clk, rr_queue, current_process, gen,
                         last_tick, semid>>
      PROVE  NoTickIsSkipped'
  BY <1>2 DEF NoTickIsSkipped, InTick, Posted, Idle
<1>3. ASSUME NEW p \in Proc, ProcessNext(p) \/ Reap(p) PROVE NoTickIsSkipped'
  <2>1. UNCHANGED <<clk, semid, schedulerVars, gen, last_tick>>
    BY <1>3, ProcessFrame DEF Reap, ReapProcess, restVars
  <2> QED BY <1>2, <2>1 DEF schedulerVars
<1>4. CASE QuietStep /\ UNCHANGED restVars
  <2>1. UNCHANGED <<gen, last_tick, clk, current_process, rr_queue>>
    BY <1>4, QuietFrame DEF restVars
  <2> USE DEF Step
  <2>2. /\ (InTick \/ (at = "wait" /\ clk = current_time))' => clockValue' = clk
        /\ at' \in {"boot", "sync"} \/ (at' = "top" /\ clk = 0) => rr_queue = << >> /\ Idle
        /\ at' \notin {"boot", "sync"} => current_time' >= 0
        /\ at' = "boot" => clk = 0
    <3> USE DEF NoTickIsSkipped, InTick
    <3>1. CASE Boot \/ SyncClk \/ Leave \/ Down \/ CheckIdle \/ ReceiveDone
      BY <1>1, <3>1 DEF Boot, SyncClk, Leave, Down, CheckIdle, ReceiveDone, sharedVars
    <3>2. CASE ReadTime \/ CompareTime \/ StoreTime
      BY <1>1, <3>2 DEF ReadTime, CompareTime, StoreTime, TickTime, Clocks, Reading, sharedVars
    <3>3. CASE RunAlgorithm \/ EnterSwitch \/ Preempt
      BY <1>1, <3>3 DEF RunAlgorithm, EnterSwitch, Preempt, Return, sharedVars, Types
    <3>4. CASE TestBeforeGrant \/ Grant \/ TestBeforeReport \/ Report
      BY <1>1, <3>4 DEF TestBeforeGrant, Grant, TestBeforeReport, Report, sharedVars
    <3>5. CASE WaitForTick
      BY <1>1, <3>5 DEF WaitForTick, sharedVars
    <3>6. CASE HandleGeneratorCompletion
      BY <1>1, <3>6 DEF HandleGeneratorCompletion, Alive
    <3> QED BY <1>4, <3>1, <3>2, <3>3, <3>4, <3>5, <3>6 DEF QuietStep
  <2>3. /\ clk > 0 /\ Posted /\ (at' \in {"sync", "top"} \/ (at' = "wait" /\ clk # current_time')) =>
             semid' = 1
        /\ last_tick = -1 => semid' = 0 /\ at' \in {"boot", "sync", "top"} /\ clk <= 1
    <3> USE DEF NoTickIsSkipped
    <3>1. CASE \/ Boot \/ SyncClk \/ Leave \/ Down \/ CheckIdle \/ ReceiveDone
               \/ ReadTime \/ CompareTime \/ StoreTime
      BY <1>1, <3>1 DEF Boot, SyncClk, Leave, Down, CheckIdle, ReceiveDone, ReadTime, CompareTime,
                        StoreTime, sharedVars, down_nb_succeeds, Alive, Clocks, Reading
    <3>2. CASE RunAlgorithm \/ EnterSwitch \/ Preempt
      BY <1>1, <3>2 DEF RunAlgorithm, EnterSwitch, Preempt, Return, Alive
    <3>3. CASE TestBeforeGrant \/ Grant \/ TestBeforeReport \/ Report \/ WaitForTick
      BY <1>1, <3>3 DEF TestBeforeGrant, Grant, TestBeforeReport, Report, WaitForTick,
         sharedVars, Alive, Marks, InTick
    <3>4. CASE HandleGeneratorCompletion
      BY <1>1, <3>4 DEF HandleGeneratorCompletion, Alive
    <3> QED BY <1>4, <3>1, <3>2, <3>3, <3>4 DEF QuietStep
  <2> QED BY <1>1, <2>1, <2>2, <2>3 DEF NoTickIsSkipped, Posted, Idle
<1>5. CASE Receive /\ UNCHANGED restVars
  <2>1. at = "recv" /\ at' \in {"run", "check"} /\ (at' = "run" => Algorithm = "SRTN")
        /\ UNCHANGED <<clk, current_time, gen, last_tick>>
    BY <1>5 DEF Receive, Step, restVars
  <2> QED BY <1>1, <2>1 DEF NoTickIsSkipped, InTick
<1>6. CASE StopVictim /\ UNCHANGED restVars
  <2>1. at = "stop" /\ at' = "pick" /\ UNCHANGED <<clk, current_time, gen, last_tick, clockValue>>
    BY <1>6 DEF StopVictim, Step, restVars
  <2> QED BY <1>1, <2>1 DEF NoTickIsSkipped, InTick
<1>7. CASE Pick /\ UNCHANGED restVars
  <2>1. at = "pick" /\ at' \in {"check", "post"}
        /\ UNCHANGED <<clk, current_time, gen, last_tick, clockValue>>
    BY <1>7, PickFrame DEF restVars
  <2> QED BY <1>1, <2>1 DEF NoTickIsSkipped, InTick
<1>8. CASE HandleProcessCompletion /\ UNCHANGED restVars
  <2>1. /\ clockValue' = clk /\ at' = at /\ UNCHANGED <<clk, semid, current_time, gen, last_tick>>
        /\ ~Idle
    BY <1>8, CompletionFrame, CompletionPlaces DEF restVars, Alive
  <2>2. at \notin {"boot", "sync"} /\ ~(at = "top" /\ clk = 0)
    BY <1>1, <2>1 DEF NoTickIsSkipped
  <2> QED BY <2>1, <2>2 DEF NoTickIsSkipped, InTick, Posted
<1>9. CASE PlanStep /\ UNCHANGED schedulerVars
  <2>1. UNCHANGED <<at, clockValue, current_time, clk, rr_queue, current_process>>
    BY <1>9, PlanFrame DEF schedulerVars
  <2>2. ASSUME Posted' => semid' = 1 \/ (Posted /\ semid' = semid),
               last_tick' = -1 => last_tick = -1 /\ semid' = semid,
               gen' \in {"serve", "serveLaunch", "arrive", "arriveLaunch", "sleep"} =>
                 last_tick' = clk
        PROVE  NoTickIsSkipped'
    BY <2>1, <2>2 DEF NoTickIsSkipped, InTick, Idle
  <2>3. CASE Poll
    BY <1>1, <2>2, <2>3 DEF Poll, Posted, sharedVars
  <2>4. CASE Serve \/ ServeDone \/ Arrive
    BY <2>2, <2>4 DEF Serve, ServeDone, Arrive, Posted, NoTickIsSkipped, sharedVars
  <2>5. CASE Post
    BY <1>1, <2>2, <2>5 DEF Post, Token, NoTickIsSkipped
  <2>6. CASE Wake
    BY <2>2, <2>6 DEF Wake, Posted, NoTickIsSkipped
  <2> QED BY <1>9, <2>3, <2>4, <2>5, <2>6 DEF PlanStep
<1>10. CASE Launch /\ UNCHANGED schedulerVars
  BY <1>10 DEF Launch, schedulerVars, NoTickIsSkipped, InTick, Posted, Idle
<1>11. CASE ReapScheduler
  BY <1>1, <1>11 DEF ReapScheduler, Alive
<1>12. CASE Tick
  <2>1. /\ clk' = clk + 1 /\ at \in {"wait", "top", "sync"} /\ (at = "wait" => clk = current_time)
        /\ (at = "top" => semid = 0)
        /\ gen = "poll" /\ (last_tick = clk \/ (last_tick = -1 /\ pq = Proc))
        /\ GeneratorSettled \/ (last_tick = -1 /\ clk = 0)
    BY <1>1, <1>12, TickWhenSettled DEF Tick
  <2>2. UNCHANGED <<at, clockValue, current_time, rr_queue, current_process, gen, last_tick, semid>>
    BY <1>12 DEF Tick, schedulerVars, generatorVars
  <2>3. last_tick = -1 => clk = 0
    BY <1>1, <2>1 DEF GeneratorSettled
  <2>4. ~Posted' /\ ~InTick' /\ ~(at = "wait" /\ clk = current_time)'
    BY <1>1, <2>1, <2>2 DEF Posted, InTick
  <2> QED BY <1>1, <2>1, <2>2, <2>3, <2>4 DEF NoTickIsSkipped, Idle
<1> QED BY <1>3, <1>4, <1>5, <1>6, <1>7, <1>8, <1>9, <1>10, <1>11, <1>12, NextCases

(***************************************************************************)
(* ArrivalsInTime, if nobody waits for memory.                             *)
(***************************************************************************)
LEMMA ArrivalsInTimeStep ==
  ASSUME Timely, Algorithm = "RR", TickInv, NoTickIsSkipped, ArrivalsInTime, Next, Alive',
         waiting_queue = << >>, waiting_queue' = << >>
  PROVE  ArrivalsInTime'
<1> USE DEF TickInv, IInv
<1>1. /\ Alive /\ clk \in Nat /\ Marks /\ Turns /\ TickOrder
      /\ last_tick \in -1..clk /\ \A p \in Proc : job[p].arrival \in Nat
  BY AliveBefore, Numbers DEF Arrivals
<1>2. ASSUME UNCHANGED <<job, clk, gen, last_tick, pq, booked>>,
             Range(msgq') \subseteq Range(msgq),
             semid = 0 /\ at \in {"sync", "top"} => semid' = 0 /\ at' \in {"sync", "top"},
             \/ at' \in {"sync", "top", "recv", "check"} \/ (at = "wait" /\ clk # current_time)'
             \/ Range(msgq') = {}
             \/ /\ at \notin {"sync", "top", "recv", "check"}
                /\ ~(at = "wait" /\ clk # current_time)
      PROVE  ArrivalsInTime'
  BY <1>2 DEF ArrivalsInTime, Overdue
<1>3. ASSUME NEW p \in Proc, ProcessNext(p) \/ Reap(p) PROVE ArrivalsInTime'
  <2>1. UNCHANGED <<job, clk, semid, msgq, schedulerVars, gen, last_tick, pq, booked>>
    BY <1>3, ProcessFrame DEF Reap, ReapProcess, restVars
  <2> QED BY <1>2, <2>1 DEF schedulerVars
<1>4. CASE QuietStep /\ UNCHANGED restVars
  <2>1. UNCHANGED <<job, clk, gen, last_tick, pq, booked, msgq>>
    BY <1>4, QuietFrame DEF restVars
  <2> USE DEF Step
  <2>2. semid = 0 /\ at \in {"sync", "top"} => semid' = 0 /\ at' \in {"sync", "top"}
    <3>1. CASE Boot \/ SyncClk \/ Leave \/ Down
      BY <3>1 DEF Boot, SyncClk, Leave, Down, Alive, down_nb_succeeds, sharedVars
    <3>2. CASE \/ CheckIdle \/ ReceiveDone \/ ReadTime \/ CompareTime \/ StoreTime
               \/ RunAlgorithm \/ EnterSwitch \/ Preempt
               \/ TestBeforeGrant \/ Grant \/ TestBeforeReport \/ Report \/ WaitForTick
      BY <3>2 DEF CheckIdle, ReceiveDone, ReadTime, CompareTime, StoreTime, RunAlgorithm,
                  EnterSwitch, Preempt, TestBeforeGrant, Grant, TestBeforeReport, Report,
                  WaitForTick
    <3>3. CASE HandleGeneratorCompletion
      BY <3>3 DEF HandleGeneratorCompletion
    <3> QED BY <1>4, <3>1, <3>2, <3>3 DEF QuietStep
  <2>3. CASE Boot
    <3>1. clk = 0
      BY <2>3 DEF Boot, NoTickIsSkipped
    <3> QED BY <1>1, <1>2, <2>1, <2>2, <2>3, <3>1 DEF Boot
  <2>4. CASE SyncClk \/ Leave \/ Down \/ CheckIdle \/ WaitForTick
    BY <1>2, <2>1, <2>2, <2>4 DEF SyncClk, Leave, Down, CheckIdle, WaitForTick, Alive
  <2>5. CASE ReceiveDone
    BY <1>2, <2>1, <2>2, <2>5, EmptyQueue DEF ReceiveDone
  <2>6. CASE \/ ReadTime \/ CompareTime \/ StoreTime \/ RunAlgorithm \/ EnterSwitch \/ Preempt
             \/ TestBeforeGrant \/ Grant \/ TestBeforeReport \/ Report
    BY <1>2, <2>1, <2>2, <2>6 DEF ReadTime, CompareTime, StoreTime, RunAlgorithm, EnterSwitch,
                                  Preempt, TestBeforeGrant, Grant, TestBeforeReport, Report
  <2>7. CASE HandleGeneratorCompletion
    BY <1>2, <2>1, <2>2, <2>7 DEF HandleGeneratorCompletion, Alive
  <2> QED BY <1>4, <2>3, <2>4, <2>5, <2>6, <2>7 DEF QuietStep
<1>5. CASE Receive /\ UNCHANGED restVars
  <2>1. /\ at = "recv" /\ at' = "check" /\ Range(msgq') \subseteq Range(msgq)
        /\ UNCHANGED <<job, clk, gen, last_tick, pq, booked>>
    BY <1>5, ReceivePlaces DEF Receive, Step, restVars
  <2> QED BY <1>2, <2>1
<1>6. CASE StopVictim /\ UNCHANGED restVars
  BY <1>2, <1>6 DEF StopVictim, Step, restVars
<1>7. CASE Pick /\ UNCHANGED restVars
  BY <1>2, <1>7, PickFrame DEF restVars
<1>8. CASE HandleProcessCompletion /\ UNCHANGED restVars
  <2>1. at' = at /\ UNCHANGED <<job, clk, semid, msgq, current_time, gen, last_tick, pq, booked>>
    BY <1>8, CompletionFrame DEF restVars, Alive
  <2> QED BY <1>2, <2>1
<1>9. CASE PlanStep /\ UNCHANGED schedulerVars
  <2>1. UNCHANGED <<at, current_time, job, clk, msgq>>
    BY <1>9, PlanFrame DEF schedulerVars
  <2>2. ASSUME gen' \in {"poll", "sleep"} => \A p \in pq' : job[p].arrival > last_tick',
               \A p \in Proc : p \in pq' \/ p = booked' => p \in pq \/ p = booked,
               semid' = semid
        PROVE  ArrivalsInTime'
    BY <2>1, <2>2 DEF ArrivalsInTime, Overdue
  <2>3. CASE Poll \/ ServeDone
    BY <2>2, <2>3 DEF Poll, ServeDone, sharedVars
  <2>4. CASE Serve
    BY <2>4 DEF Serve
  <2>5. CASE Arrive
    <3>1. PICK p \in Arrived :
            /\ pq' = pq \ {p}
            /\ \/ Book(p) /\ gen' = "arriveLaunch" /\ UNCHANGED waiting_queue
               \/ Refuse(p) /\ waiting_queue' = Append(waiting_queue, p) /\ UNCHANGED gen
      BY <2>5 DEF Arrive
    <3>2. p \in pq /\ p \in Proc
      BY <3>1 DEF Arrived, GeneratorPlaces
    <3>3. Append(waiting_queue, p) # << >>
      BY <3>2 DEF GeneratorPlaces, Distinct
    <3>4. booked' = p /\ gen' = "arriveLaunch" /\ semid' = semid
      BY <2>5, <3>1, <3>3 DEF Arrive, Book, sharedVars
    <3> QED BY <2>2, <3>1, <3>2, <3>4
  <2>6. CASE Post
    <3>1. gen = "arrive" /\ UNCHANGED <<pq, last_tick, booked>> /\ Arrived = {}
      BY <2>6 DEF Post
    <3>2. last_tick = clk /\ booked = None
      BY <3>1 DEF NoTickIsSkipped, GeneratorPlaces
    <3>3. \A p \in pq : job[p].arrival > clk
      BY <1>1, <3>1, <3>2 DEF Arrived, GeneratorPlaces
    <3> QED BY <1>1, <2>1, <3>1, <3>2, <3>3, ConstantTypes DEF ArrivalsInTime, Overdue
  <2>7. CASE Wake
    BY <2>2, <2>7 DEF Wake, ArrivalsInTime
  <2> QED BY <1>9, <2>3, <2>4, <2>5, <2>6, <2>7 DEF PlanStep
<1>10. CASE Launch /\ UNCHANGED schedulerVars
  <2>0. PICK b : b = booked
    OBVIOUS
  <2>1. b \in Proc /\ ~Launched(b)
    BY <1>10, <2>0, LaunchPlaces
  <2>2. /\ msgq' = Append(msgq, b) /\ booked' = None
        /\ UNCHANGED <<job, clk, semid, pq, last_tick, at, current_time>>
        /\ gen' \in {"serve", "arrive"}
    BY <1>10, <2>0 DEF Launch, schedulerVars
  <2>3. Range(msgq') = Range(msgq) \cup {b}
    BY <2>1, <2>2, AppendDistinct DEF SchedulerPlaces, Launched
  <2> QED BY <2>0, <2>1, <2>2, <2>3, ConstantTypes DEF ArrivalsInTime, Overdue
<1>11. CASE ReapScheduler
  BY <1>1, <1>11 DEF ReapScheduler, Alive
<1>12. CASE Tick
  <2>1. /\ clk' = clk + 1 /\ at \in {"wait", "top", "sync"} /\ (at = "wait" => clk = current_time)
        /\ (at = "top" => semid = 0)
        /\ gen = "poll" /\ (last_tick = clk \/ (last_tick = -1 /\ pq = Proc))
        /\ GeneratorSettled \/ (last_tick = -1 /\ clk = 0)
    BY <1>1, <1>12, TickWhenSettled DEF Tick
  <2>2. UNCHANGED <<at, current_time, job, msgq, semid, gen, last_tick, pq, booked>>
    BY <1>12 DEF Tick, schedulerVars, generatorVars
  <2>3. booked = None /\ None \notin Proc /\ pq \subseteq Proc
    BY <2>1, ConstantTypes DEF GeneratorPlaces
  <2>4. last_tick = clk \/ (last_tick = -1 /\ clk = 0 /\ semid = 0 /\ at \in {"sync", "top"})
    BY <1>1, <2>1 DEF GeneratorSettled, NoTickIsSkipped
  <2>5. \A p \in pq : /\ job[p].arrival > last_tick
                      /\ job[p].arrival >= clk
                      /\ job[p].arrival < clk + 1 => semid = 0 /\ at \in {"sync", "top"}
    BY <1>1, <2>1, <2>3, <2>4 DEF ArrivalsInTime
  <2>6. at = "sync" => clk = 0
    BY <1>12 DEF Tick, SchedulerSettled, Alive
  <2>7. at = "top" => clk = 0
    <3>1. at = "top" /\ last_tick = clk => Posted
      BY <2>1 DEF Posted
    <3> QED BY <1>1, <2>1, <2>4, <3>1 DEF NoTickIsSkipped
  <2>8. \A p \in Proc : p \in Range(msgq) => job[p].arrival >= clk
    BY <1>1, <2>1, <2>6, <2>7 DEF ArrivalsInTime, Overdue
  <2>9. at \in {"sync", "top"} \/ (at = "wait" /\ clk # current_time)'
    BY <1>1, <2>1, <2>2
  <2>10. /\ \A p \in Proc : p \in Range(msgq') => job'[p].arrival >= clk' - 1
         /\ \A p \in Proc : p \in pq' \/ p = booked' =>
              /\ job'[p].arrival >= clk' - 1
              /\ Overdue(p)' => semid' = 0 /\ at' \in {"sync", "top"}
    BY <1>1, <2>1, <2>2, <2>3, <2>5, <2>8 DEF Overdue
  <2> QED BY <2>1, <2>2, <2>5, <2>9, <2>10 DEF ArrivalsInTime
<1> QED BY <1>3, <1>4, <1>5, <1>6, <1>7, <1>8, <1>9, <1>10, <1>11, <1>12, NextCases

(***************************************************************************)
(* WithinQuantum.                                                          *)
(***************************************************************************)
LEMMA WithinQuantumProcess ==
  ASSUME IInv, WithinQuantum, NEW p \in Proc, ProcessNext(p)
  PROVE  WithinQuantum'
<1> USE DEF IInv
<1> DEFINE c == current_process
<1>1. UNCHANGED <<job, clk, at, current_time, c, rr_queue, time_slice_start>>
  BY ProcessFrame DEF schedulerVars
<1>2. /\ life \in [Proc -> Life] /\ shm \in [Proc -> Int] /\ seen \in [Proc -> Time]
      /\ (~Idle => c \in Proc) /\ \A q \in Proc : job[q].exec \in Nat
      /\ clk \in Int /\ time_slice_start \in Int
  BY JobTypes, Numbers DEF Types, Idle
<1>3. \A q \in Proc : q # p => life'[q] = life[q] /\ shm'[q] = shm[q] /\ seen'[q] = seen[q]
  BY <1>2 DEF ProcessNext, ProcessStep, Acquire, ReadClk, Work, Notify, Exit, Goto
<1>4. Ended(p)' => job[p].exec > 0
  <2>1. CASE Acquire(p) \/ ReadClk(p) \/ Work(p)
    BY <1>2, <2>1 DEF Acquire, ReadClk, Work, Goto, Ended
  <2>2. CASE Notify(p)
    BY <1>2, <2>2 DEF Notify, Running, Working
  <2>3. CASE Exit(p)
    BY <1>2, <2>3 DEF Exit, Running, Ended, WithinQuantum
  <2> QED BY <2>1, <2>2, <2>3 DEF ProcessNext, ProcessStep
<1>5. \A q \in Proc : (Ended(q) => job[q].exec > 0)'
  BY <1>1, <1>3, <1>4 DEF WithinQuantum, Ended
<1>6. ASSUME p = c, job[p].exec > 0, shm[p] = 0
      PROVE  shm'[p] = 0
  BY <1>2, <1>6 DEF ProcessNext, ProcessStep, Acquire, ReadClk, Work, Notify, Exit, Running, Working
<1>7. ASSUME ~Idle, p = c, job[p].exec = 0, life'[p] # "crashed", clk # time_slice_start
      PROVE  FALSE
  <2>1. life[p] \notin {"notify", "exit", "crashed"}
    BY <1>7 DEF Working, WithinQuantum, Ended, ProcessNext, ProcessStep, Acquire, ReadClk, Work,
       Notify, Exit, Running
  <2>2. life[p] = "tick"
    BY <1>7, <2>1 DEF WithinQuantum
  <2>3. Work(p) /\ shm[p] \in 0..0
    BY <1>2, <1>7, <2>2 DEF ProcessNext, ProcessStep, Acquire, ReadClk, Notify, Exit, Running,
                            Working
  <2> QED BY <1>1, <1>2, <1>7, <2>3 DEF Work, Goto
<1>8. (HasRun' <=> HasRun) /\ (Idle' <=> Idle)
  BY <1>1 DEF HasRun, Idle
<1>9. ASSUME ~Idle, job[c].exec = 0, life'[c] # "crashed"
      PROVE  \/ clk = time_slice_start
             \/ clk = time_slice_start + 1 /\ life'[c] = "tick" /\ seen'[c] < clk
  BY <1>2, <1>3, <1>7, <1>9 DEF WithinQuantum
<1>10. ASSUME HasRun, ~Idle, rr_queue # << >>
       PROVE  \/ clk < time_slice_start + Quantum
              \/ shm'[c] = 0 /\ job[c].exec > 0
              \/ job[c].exec = 0 /\ clk <= time_slice_start + Quantum
  BY <1>2, <1>3, <1>6, <1>10 DEF WithinQuantum
<1> QED BY <1>1, <1>5, <1>8, <1>9, <1>10 DEF WithinQuantum

LEMMA WithinQuantumQuiet ==
  ASSUME Timely, Algorithm = "RR", TickInv, Alive', WithinQuantum, NoTickIsSkipped, QuietStep,
         UNCHANGED seen, Alive
  PROVE  WithinQuantum'
<1> USE DEF TickInv, IInv
<1> DEFINE c == current_process
<1>1. UNCHANGED <<job, clk, c, rr_queue, time_slice_start, life, shm>> /\ (Idle' <=> Idle)
  BY QuietFrame DEF Idle
<1>2. clk \in Nat /\ time_slice_start \in Int /\ Quantum \in Nat \ {0} /\ (~Idle => c \in Proc)
      /\ clockValue \in Int
  BY Numbers, QuantumAssumption DEF Types, Idle
<1>3. ASSUME HasRun', ~Idle, rr_queue # << >>
      PROVE  \/ clk < time_slice_start + Quantum
             \/ shm[c] = 0 /\ job[c].exec > 0
             \/ job[c].exec = 0 /\ clk <= time_slice_start + Quantum
  <2> USE DEF HasRun, Step
  <2>1. CASE HasRun
    BY <1>3, <2>1 DEF WithinQuantum
  <2>2. CASE RunAlgorithm
    <3>1. ~MustSwitch /\ clockValue = clk
      BY <1>3, <2>2 DEF RunAlgorithm, TickOrder, Deciding
    <3>2. ~(clockValue - time_slice_start >= Quantum)
      BY <1>3, <3>1 DEF MustSwitch, NoReady
    <3> QED BY <1>2, <3>1, <3>2
  <2>3. CASE EnterSwitch
    <3>1. shm[c] = 0
      BY <1>3, <2>3 DEF EnterSwitch
    <3>2. CASE job[c].exec > 0
      BY <3>1, <3>2
    <3>3. CASE job[c].exec = 0
      <4>1. life[c] # "crashed"
        BY <1>2, <1>3, <3>1 DEF Working
      <4>2. clk = time_slice_start \/ clk = time_slice_start + 1
        BY <1>3, <3>3, <4>1 DEF WithinQuantum
      <4> QED BY <1>2, <3>3, <4>2
    <3> QED BY <1>2, <1>3, <3>2, <3>3, JobTypes
  <2>4. CASE Boot \/ SyncClk \/ Leave \/ Down \/ CheckIdle \/ ReceiveDone \/ Preempt
    BY <1>3, <2>4 DEF Boot, SyncClk, Leave, Down, CheckIdle, ReceiveDone, Preempt
  <2>5. CASE ReadTime \/ CompareTime \/ StoreTime
    BY <1>3, <2>5 DEF ReadTime, CompareTime, StoreTime, TickOrder, BeforeRun, Clocks, Reading
  <2>6. CASE TestBeforeGrant \/ Grant \/ TestBeforeReport \/ Report \/ WaitForTick
    BY <1>1, <1>3, <2>1, <2>6
       DEF TestBeforeGrant, Grant, TestBeforeReport, Report, WaitForTick
  <2>7. CASE HandleGeneratorCompletion
    BY <1>1, <1>3, <2>1, <2>7 DEF HandleGeneratorCompletion, Alive
  <2> QED BY <2>2, <2>3, <2>4, <2>5, <2>6, <2>7 DEF QuietStep
<1> QED BY <1>1, <1>3 DEF WithinQuantum, Ended

LEMMA WithinQuantumStep ==
  ASSUME Timely, Algorithm = "RR", TickInv, WithinQuantum, NoTickIsSkipped, Next, Alive'
  PROVE  WithinQuantum'
<1> USE DEF TickInv, IInv
<1> DEFINE c == current_process
<1>1. /\ Alive /\ clk \in Nat /\ time_slice_start \in Int /\ Quantum \in Nat \ {0}
      /\ Marks /\ Turns /\ TickOrder /\ (~Idle => c \in Proc)
      /\ life \in [Proc -> Life] /\ shm \in [Proc -> Int]
  BY AliveBefore, Numbers, QuantumAssumption DEF Types, Idle
<1>2. CASE QuietStep /\ UNCHANGED processVars
  BY <1>1, <1>2, WithinQuantumQuiet DEF processVars
<1>3. CASE Receive /\ UNCHANGED processVars
  <2>1. UNCHANGED <<job, clk, c, time_slice_start, life, shm, seen>> /\ ~HasRun'
        /\ (Idle' <=> Idle)
    BY <1>3 DEF Receive, processVars, HasRun, Idle
  <2> QED BY <2>1 DEF WithinQuantum, Ended
<1>4. CASE StopVictim /\ UNCHANGED processVars
  <2>1. UNCHANGED <<job, clk, c, time_slice_start, life, shm, seen>> /\ ~HasRun'
        /\ (Idle' <=> Idle)
    BY <1>4 DEF StopVictim, processVars, HasRun, Idle
  <2> QED BY <2>1 DEF WithinQuantum, Ended
<1>5. CASE Pick
  <2>1. UNCHANGED <<job, clk, life>> /\ clockValue = clk /\ clk \in 0..MaxClk
    BY <1>1, <1>5, PickFrame DEF TickOrder, Deciding, Types
  <2>2. Idle' \/ time_slice_start' = clk
    <3>1. \A p \in ReadySet : Dispatch(p, clockValue) => time_slice_start' = clk
      BY <2>1 DEF Dispatch
    <3> QED BY <1>5, <3>1, PickCases DEF SchedulerPlaces, Idle
  <2> QED BY <1>1, <2>1, <2>2 DEF WithinQuantum, Ended
<1>6. CASE HandleProcessCompletion
  <2>1. UNCHANGED <<job, life>> /\ Idle'
    BY <1>6, CompletionFrame, CompletionPlaces DEF CompletionTakesNext, CompletionLeavesIdle, Idle
  <2> QED BY <2>1 DEF WithinQuantum, Ended
<1>7. CASE PlanStep /\ UNCHANGED <<processVars, schedulerVars>>
  BY <1>7, PlanFrame DEF processVars, schedulerVars, WithinQuantum, Ended, HasRun, Idle
<1>8. CASE Launch /\ UNCHANGED <<processVars, schedulerVars>>
  <2>0. PICK b : b = booked
    OBVIOUS
  <2>1. b \in Proc /\ ~Launched(b)
    BY <1>8, <2>0, LaunchPlaces
  <2>2. /\ life' = [life EXCEPT ![b] = "spin"] /\ shm' = [shm EXCEPT ![b] = job[b].exec]
        /\ UNCHANGED <<job, clk>>
    BY <1>8, <2>0 DEF Launch
  <2>3. b # c
    BY <2>1 DEF SchedulerPlaces
  <2>4. /\ life'[b] = "spin"
        /\ \A p \in Proc : p # b => life'[p] = life[p] /\ shm'[p] = shm[p]
    BY <1>1, <2>1, <2>2
  <2>5. UNCHANGED <<at, c, current_time, rr_queue, time_slice_start, seen>>
    BY <1>8 DEF schedulerVars, processVars
  <2>6. HasRun' <=> HasRun
    BY <2>2, <2>5 DEF HasRun
  <2>7. \A p \in Proc : (Ended(p) => job[p].exec > 0)'
    BY <2>2, <2>4 DEF WithinQuantum, Ended
  <2> QED BY <1>1, <2>2, <2>3, <2>4, <2>5, <2>6, <2>7 DEF WithinQuantum, Idle
<1>9. ASSUME NEW p \in Proc, Reap(p) PROVE WithinQuantum'
  <2>1. life' = [life EXCEPT ![p] = "reaped"] /\ life[p] = "zombie"
        /\ UNCHANGED <<job, clk, shm, processVars, schedulerVars>>
    BY <1>9 DEF Reap, ReapProcess
  <2>2. UNCHANGED <<at, c, current_time, rr_queue, time_slice_start, seen>>
        /\ (HasRun' <=> HasRun)
    BY <2>1 DEF schedulerVars, processVars, HasRun
  <2>3. /\ \A q \in Proc : q # p => life'[q] = life[q]
        /\ job[p].exec > 0
    BY <1>1, <2>1 DEF WithinQuantum, Ended
  <2>4. \A q \in Proc : (Ended(q) => job[q].exec > 0)'
    BY <2>1, <2>3 DEF WithinQuantum, Ended
  <2>5. ASSUME ~Idle, job[c].exec = 0 PROVE c # p /\ life'[c] = life[c]
    BY <1>1, <2>3, <2>5
  <2> QED BY <1>1, <2>1, <2>2, <2>4, <2>5 DEF WithinQuantum, Idle
<1>10. CASE ReapScheduler
  BY <1>1, <1>10 DEF ReapScheduler, Alive
<1>11. CASE Tick
  <2>1. /\ clk' = clk + 1
        /\ UNCHANGED <<job, at, c, current_time, rr_queue, time_slice_start, life, shm, seen>>
    BY <1>11 DEF Tick, schedulerVars, processVars
  <2>2. ~HasRun'
    BY <1>1, <1>11, <2>1, TickWhenSettled DEF HasRun
  <2>3. ASSUME ~Idle, job[c].exec = 0, life[c] # "crashed"
        PROVE  clk' = time_slice_start + 1 /\ life[c] = "tick" /\ seen[c] < clk'
    <3>1. life[c] = "tick" /\ seen[c] = clk
      BY <1>1, <1>11, <2>3, TickWhenGranted
    <3>2. clk = time_slice_start
      BY <1>1, <2>3, <3>1 DEF WithinQuantum
    <3> QED BY <1>1, <2>1, <3>1, <3>2
  <2> QED BY <2>1, <2>2, <2>3 DEF WithinQuantum, Ended, Idle
<1> QED BY <1>2, <1>3, <1>4, <1>5, <1>6, <1>7, <1>8, <1>9, <1>10, <1>11, NextCases,
           WithinQuantumProcess

(***************************************************************************)
(* The slots of a queue.                                                   *)
(***************************************************************************)
LEMMA SlotTypes ==
  /\ Quantum \in Nat \ {0} /\ Slot = Quantum + 1 /\ Slot \in Nat
  /\ Cardinality(Proc) \in Nat /\ LongestWait \in Int
  BY QuantumAssumption, ProcAssumption, FS_CardinalityType DEF Slot, LongestWait

LEMMA SlotsRise ==
  ASSUME NEW a \in Int, NEW b \in Int, a <= b, NEW s \in Nat
  PROVE  a * s <= b * s
<1>1. (b - a) * s >= 0
  OBVIOUS
<1>2. (b - a) * s = b * s - a * s
  OBVIOUS
<1> QED BY <1>1, <1>2

\* There is room behind a queue for those who are not in it.
LEMMA RoomForOne ==
  ASSUME NEW s, Distinct(s, Proc), NEW e \in Proc, e \notin Range(s)
  PROVE  Len(s) \in Nat /\ Len(s) * Slot + 1 <= LongestWait
<1>1. Distinct(Append(s, e), Proc)
  BY AppendDistinct
<1>2. Append(s, e) \in SeqOf(Proc, Cardinality(Proc))
  BY <1>1, DistinctFits, ProcAssumption
<1>3. Len(s) \in Nat /\ Len(Append(s, e)) = Len(s) + 1
  BY DEF Distinct
<1>4. Len(s) <= Cardinality(Proc) - 1
  BY <1>2, <1>3, SlotTypes DEF SeqOf
<1>5. Len(s) * Slot <= (Cardinality(Proc) - 1) * Slot
  BY <1>3, <1>4, SlotTypes, SlotsRise
<1>6. Len(s) * Slot \in Int /\ (Cardinality(Proc) - 1) * Slot \in Int
  BY <1>3, SlotTypes
<1> QED BY <1>3, <1>5, <1>6 DEF LongestWait

LEMMA RoomForTwo ==
  ASSUME NEW s, Distinct(s, Proc), NEW e \in Proc, e \notin Range(s),
         NEW f \in Proc, f \notin Range(s), e # f
  PROVE  Len(s) \in Nat /\ Slot + Len(s) * Slot + 1 <= LongestWait
<1>1. Distinct(Append(s, e), Proc) /\ f \notin Range(Append(s, e))
  BY AppendDistinct
<1>2. Len(s) \in Nat /\ Len(Append(s, e)) = Len(s) + 1
  BY DEF Distinct
<1>3. (Len(s) + 1) * Slot + 1 <= LongestWait
  BY <1>1, <1>2, RoomForOne
<1>4. (Len(s) + 1) * Slot = Len(s) * Slot + Slot
  BY <1>2, SlotTypes
<1> QED BY <1>2, <1>3, <1>4, SlotTypes

LEMMA LineKept ==
  ASSUME NEW s \in Seq(Proc), NEW v \in [Proc -> Int], NEW w \in [Proc -> Int],
         NEW d \in Int, NEW e \in Int, InLine(d, s, v),
         s # << >> => e <= d,
         \A p \in Range(s) : w[p] = v[p]
  PROVE  InLine(e, s, w)
<1> SUFFICES ASSUME NEW i \in 1..Len(s)
             PROVE  e + (i - 1) * Slot <= w[s[i]] + LongestWait
  BY DEF InLine
<1>1. s # << >> /\ s[i] \in Range(s) /\ s[i] \in Proc /\ i \in Nat
  BY DEF Range
<1>2. w[s[i]] = v[s[i]] /\ d + (i - 1) * Slot <= v[s[i]] + LongestWait
  BY <1>1 DEF InLine
<1>3. PICK x \in Int : x = (i - 1) * Slot
  BY <1>1, SlotTypes
<1>4. d + x <= v[s[i]] + LongestWait /\ v[s[i]] \in Int
  BY <1>1, <1>2, <1>3
<1>5. e + x <= v[s[i]] + LongestWait
  BY <1>1, <1>4, SlotTypes
<1> QED BY <1>2, <1>3, <1>5

\* Somebody joins the queue.
LEMMA LineJoined ==
  ASSUME NEW s \in Seq(Proc), NEW v \in [Proc -> Int], NEW w \in [Proc -> Int],
         NEW d \in Int, NEW e \in Int, InLine(d, s, v),
         s # << >> => e <= d,
         \A p \in Range(s) : w[p] = v[p],
         NEW q \in Proc, e + Len(s) * Slot <= w[q] + LongestWait
  PROVE  InLine(e, Append(s, q), w)
<1>1. InLine(e, s, w)
  BY LineKept
<1> SUFFICES ASSUME NEW i \in 1..Len(Append(s, q))
             PROVE  e + (i - 1) * Slot <= w[Append(s, q)[i]] + LongestWait
  BY DEF InLine
<1>2. Len(Append(s, q)) = Len(s) + 1 /\ Len(s) \in Nat /\ i \in Nat
  OBVIOUS
<1>3. CASE i = Len(s) + 1
  BY <1>2, <1>3, SlotTypes
<1>4. CASE i # Len(s) + 1
  <2>1. i \in 1..Len(s) /\ Append(s, q)[i] = s[i]
    BY <1>2, <1>4
  <2> QED BY <1>1, <2>1 DEF InLine
<1> QED BY <1>3, <1>4

\* The first of the queue leaves it.
LEMMA LineLeft ==
  ASSUME NEW s \in Seq(Proc), s # << >>, NEW v \in [Proc -> Int], NEW w \in [Proc -> Int],
         NEW d \in Int, NEW e \in Int, InLine(d, s, v), e <= d + Slot,
         \A p \in Range(s) : w[p] = v[p]
  PROVE  InLine(e, Tail(s), w)
<1> SUFFICES ASSUME NEW i \in 1..Len(Tail(s))
             PROVE  e + (i - 1) * Slot <= w[Tail(s)[i]] + LongestWait
  BY DEF InLine
<1>1. i \in Nat /\ i + 1 \in 1..Len(s) /\ Tail(s)[i] = s[i + 1]
  OBVIOUS
<1>2. s[i + 1] \in Proc /\ w[s[i + 1]] = v[s[i + 1]]
  BY <1>1 DEF Range
<1>3. d + ((i + 1) - 1) * Slot <= v[s[i + 1]] + LongestWait
  BY <1>1 DEF InLine
<1>4. ((i + 1) - 1) * Slot = (i - 1) * Slot + Slot /\ (i - 1) * Slot \in Int
  BY <1>1, SlotTypes
<1> QED BY <1>1, <1>2, <1>3, <1>4, SlotTypes

(***************************************************************************)
(* InTime.                                                                 *)
(***************************************************************************)
DueTyped ==
  /\ Due \in Int /\ Since \in [Proc -> Int] /\ clk \in Nat /\ clk <= Due
  /\ ~Idle => Due <= clk + Slot
  /\ rr_queue \in Seq(Proc) /\ Distinct(rr_queue, Proc)

LEMMA DueTypes == IInv => DueTyped
<1> SUFFICES ASSUME IInv PROVE DueTyped
  OBVIOUS
<1> USE DEF IInv
<1>1. /\ clk \in Nat /\ clockValue \in Int /\ time_slice_start \in Int
      /\ ~Idle => time_slice_start <= clk
  BY Numbers DEF Clocks
<1>2. Since \in [Proc -> Int]
  <2>1. \A p \in Proc : WaitsSince(p) \in Int
    BY Numbers, ConstantTypes DEF WaitsSince, Time
  <2> QED BY <2>1 DEF Since
<1>3. rr_queue \in Seq(Proc) /\ Distinct(rr_queue, Proc)
  BY DEF SchedulerPlaces, ReadyTypes, Distinct
<1>4. Due \in Int /\ clk <= Due /\ (~Idle => Due <= clk + Slot)
  BY <1>1, SlotTypes DEF Due, Latest
<1> QED BY <1>1, <1>2, <1>3, <1>4 DEF DueTyped

LEMMA DueTypesNext == IInv' => DueTyped'
  BY DueTypes, PTL

LEMMA InTimeSame ==
  ASSUME IInv, IInv', InTime,
         UNCHANGED <<job, rr_queue>>,
         \A p \in Range(rr_queue) : pcb'[p].last_prempt = pcb[p].last_prempt,
         rr_queue # << >> => Due' <= Due
  PROVE  InTime'
<1>1. /\ Due \in Int /\ Since \in [Proc -> Int] /\ rr_queue \in Seq(Proc)
      /\ Due' \in Int /\ Since' \in [Proc -> Int]
  BY DueTypes, DueTypesNext DEF DueTyped
<1>2. \A p \in Range(rr_queue) : Since'[p] = Since[p]
  BY <1>1, RangeInSet DEF Since, WaitsSince
<1>3. InLine(Due', rr_queue, Since')
  BY <1>1, <1>2, LineKept DEF InTime
<1> QED BY <1>3 DEF InTime, InLine

LEMMA DueQuiet ==
  ASSUME Algorithm = "RR", TickInv, Alive, Alive', NoTickIsSkipped, QuietStep, rr_queue # << >>
  PROVE  Due' <= Due
<1> USE DEF TickInv, IInv, Step
<1> DEFINE c == current_process
<1>1. UNCHANGED <<job, clk, c, rr_queue, time_slice_start>> /\ (Idle' <=> Idle)
  BY QuietFrame DEF Idle
<1>2. Due \in Int /\ clk \in Nat /\ clk <= Due
  BY DueTypes DEF DueTyped
<1>3. ASSUME Idle,
             (clockValue = clk /\ ~Deciding /\ at # "check")' =>
               clockValue = clk /\ ~Deciding /\ at # "check"
      PROVE  Due' <= Due
  BY <1>1, <1>2, <1>3 DEF Due
<1>4. ASSUME ~Idle, at' \in {"preempt", "stop", "pick"} \/ at \notin {"preempt", "stop", "pick"}
      PROVE  Due' <= Due
  BY <1>1, <1>2, <1>4 DEF Due, Latest
<1>5. CASE Boot \/ SyncClk \/ Leave
  BY <1>5 DEF Boot, SyncClk, Leave, NoTickIsSkipped, Alive
<1>6. CASE Down \/ CheckIdle \/ ReceiveDone \/ WaitForTick
  <2>1. CASE Idle
    BY <1>1, <1>2, <1>3, <1>6, <2>1 DEF Down, CheckIdle, ReceiveDone, WaitForTick, Deciding
  <2>2. CASE ~Idle
    BY <1>4, <1>6, <2>2 DEF Down, CheckIdle, ReceiveDone, WaitForTick
  <2> QED BY <2>1, <2>2
<1>7. CASE ReadTime \/ CompareTime \/ StoreTime
  <2>1. CASE Idle
    BY <1>1, <1>3, <1>7, <2>1 DEF ReadTime, CompareTime, StoreTime, Deciding
  <2>2. CASE ~Idle
    BY <1>4, <1>7, <2>2 DEF ReadTime, CompareTime, StoreTime
  <2> QED BY <2>1, <2>2
<1>8. CASE RunAlgorithm
  <2>1. CASE Idle
    BY <1>3, <1>8, <2>1 DEF RunAlgorithm, MustSwitch, NoReady, Deciding
  <2>2. CASE ~Idle
    BY <1>4, <1>8, <2>2 DEF RunAlgorithm, Return
  <2> QED BY <2>1, <2>2
<1>9. CASE EnterSwitch
  <2>1. CASE Idle
    BY <1>3, <1>9, <2>1 DEF EnterSwitch, Deciding
  <2>2. CASE ~Idle
    BY <1>4, <1>9, <2>2 DEF EnterSwitch, Return
  <2> QED BY <2>1, <2>2
<1>10. CASE Preempt
  BY <1>4, <1>10 DEF Preempt, Control, Alive
<1>11. CASE TestBeforeGrant \/ Grant \/ TestBeforeReport \/ Report
  <2>1. CASE Idle
    BY <1>1, <1>3, <1>11, <2>1 DEF TestBeforeGrant, Grant, TestBeforeReport, Report, Deciding, Alive
  <2>2. CASE ~Idle
    BY <1>4, <1>11, <2>2 DEF TestBeforeGrant, Grant, TestBeforeReport, Report
  <2> QED BY <2>1, <2>2
<1>12. CASE HandleGeneratorCompletion
  <2>1. UNCHANGED <<at, clockValue>>
    BY <1>12 DEF HandleGeneratorCompletion, Alive
  <2> QED BY <1>1, <1>3, <1>4, <2>1 DEF Deciding
<1> QED BY <1>5, <1>6, <1>7, <1>8, <1>9, <1>10, <1>11, <1>12 DEF QuietStep

LEMMA InTimeQuiet ==
  ASSUME Algorithm = "RR", TickInv, Alive, Alive', NoTickIsSkipped, InTime, QuietStep, IInv'
  PROVE  InTime'
<1> USE DEF TickInv
<1>1. UNCHANGED <<job, rr_queue>>
  BY QuietFrame
<1>2. ASSUME NEW p \in Range(rr_queue) PROVE pcb'[p].last_prempt = pcb[p].last_prempt
  <2>1. p \in Proc /\ p \in ReadySet
    BY RangeInSet DEF IInv, SchedulerPlaces, ReadyTypes, Distinct, ReadySet
  <2>2. Preempt => p # current_process
    BY <2>1 DEF Preempt, Step, IInv, SchedulerPlaces
  <2> QED BY <2>1, <2>2, QuietStamps
<1> QED BY <1>1, <1>2, DueQuiet, InTimeSame

LEMMA InTimeReceive ==
  ASSUME Algorithm = "RR", TickInv, Alive, ArrivalsInTime, InTime, Receive, IInv'
  PROVE  InTime'
<1> USE DEF TickInv
<1> DEFINE c == current_process
<1>0. PICK h : h = Head(msgq)
  OBVIOUS
<1>1. /\ h \in Range(msgq) /\ h \in Proc
      /\ at = "recv" /\ at' = "check" /\ rr_queue' = Append(rr_queue, h)
      /\ pcb' = [pcb EXCEPT ![h] = NewPCB(h)]
      /\ UNCHANGED <<job, clk, c, clockValue, time_slice_start>>
  BY <1>0, ReceivePlaces DEF Receive, Step
<1>2. /\ Due \in Int /\ Since \in [Proc -> Int] /\ clk \in Nat /\ clk <= Due
      /\ ~Idle => Due <= clk + Slot
      /\ rr_queue \in Seq(Proc) /\ Distinct(rr_queue, Proc)
      /\ Due' \in Int /\ Since' \in [Proc -> Int]
  BY DueTypes, DueTypesNext DEF DueTyped
<1>3. h \notin Range(rr_queue) /\ h # c
  BY <1>1 DEF IInv, SchedulerPlaces, ReadySet
<1>4. \A p \in Range(rr_queue) : Since'[p] = Since[p]
  <2>1. \A p \in Proc : p # h => pcb'[p] = pcb[p]
    BY <1>1 DEF IInv, Types
  <2> QED BY <1>1, <1>2, <1>3, <2>1, RangeInSet DEF Since, WaitsSince
<1>5. Since'[h] = job[h].arrival /\ job[h].arrival \in Nat /\ job[h].arrival >= clk - 1
  BY <1>1, <1>2, JobTypes DEF Since, WaitsSince, NewPCB, IInv, Types, ArrivalsInTime
<1>6. Due' = IF Idle THEN clk ELSE Due
  BY <1>1 DEF Due, Idle
<1>7. PICK x \in Int : x = Len(rr_queue) * Slot
  BY <1>2, SlotTypes
<1>8. Due' + x <= Since'[h] + LongestWait
  <2>1. CASE Idle
    <3>1. x + 1 <= LongestWait
      BY <1>1, <1>2, <1>3, <1>7, RoomForOne
    <3>2. Due' = clk /\ Since'[h] \in Int /\ Since'[h] >= clk - 1
      BY <1>2, <1>5, <1>6, <2>1
    <3> QED BY <1>2, <1>7, <3>1, <3>2, SlotTypes
  <2>2. CASE ~Idle
    <3>1. c \in Proc /\ c \notin Range(rr_queue)
      BY <1>1, <2>2 DEF Idle, IInv, Types, SchedulerPlaces, ReadySet
    <3>2. Slot + x + 1 <= LongestWait
      BY <1>1, <1>2, <1>3, <1>7, <3>1, RoomForTwo
    <3>3. Due' <= clk + Slot /\ Since'[h] \in Int /\ Since'[h] >= clk - 1
      BY <1>2, <1>5, <1>6, <2>2
    <3> QED BY <1>2, <1>7, <3>2, <3>3, SlotTypes
  <2> QED BY <2>1, <2>2
<1>9. Due' <= Due
  BY <1>2, <1>6
<1>10. InLine(Due', Append(rr_queue, h), Since')
  BY <1>1, <1>2, <1>4, <1>7, <1>8, <1>9, LineJoined DEF InTime
<1> QED BY <1>1, <1>10 DEF InTime, InLine

LEMMA InTimeStop ==
  ASSUME Algorithm = "RR", TickInv, Alive, InTime, StopVictim, IInv'
  PROVE  InTime'
<1> USE DEF TickInv
<1>0. PICK c : c = current_process
  OBVIOUS
<1>1. /\ at = "stop" /\ at' = "pick" /\ rr_queue' = Append(rr_queue, c) /\ c \in Proc
      /\ UNCHANGED <<job, pcb, clk, current_process>> /\ ~Idle
  BY <1>0, StopPlaces DEF StopVictim, Step, IInv, Control
<1>2. /\ Due \in Int /\ Since \in [Proc -> Int] /\ clk \in Nat
      /\ rr_queue \in Seq(Proc) /\ Distinct(rr_queue, Proc)
      /\ Due' \in Int /\ Since' \in [Proc -> Int]
  BY DueTypes, DueTypesNext DEF DueTyped
<1>3. c \notin Range(rr_queue)
  BY <1>0, <1>1 DEF IInv, SchedulerPlaces, ReadySet
<1>4. Since' = Since
  BY <1>1 DEF Since, WaitsSince
<1>5. Since[c] = clk
  BY <1>0, <1>1, <1>2, ConstantTypes DEF Since, WaitsSince, IInv, Clocks, TickOrder, Deciding
<1>6. Due' = clk /\ Due = clk
  BY <1>1 DEF Due, Idle
<1>7. Due' + Len(rr_queue) * Slot <= Since'[c] + LongestWait
  <2>1. PICK x \in Int : x = Len(rr_queue) * Slot
    BY <1>2, SlotTypes
  <2>2. x + 1 <= LongestWait
    BY <1>1, <1>2, <1>3, <2>1, RoomForOne
  <2>3. Due' = clk /\ Since'[c] = clk
    BY <1>4, <1>5, <1>6
  <2> QED BY <1>2, <2>1, <2>2, <2>3, SlotTypes
<1>8. InLine(Due', Append(rr_queue, c), Since')
  BY <1>1, <1>2, <1>4, <1>6, <1>7, LineJoined DEF InTime
<1> QED BY <1>1, <1>8 DEF InTime, InLine

LEMMA InTimePick ==
  ASSUME Algorithm = "RR", TickInv, Alive, InTime, Pick, IInv'
  PROVE  InTime'
<1> USE DEF TickInv
<1>1. /\ at = "pick" /\ at' \in {"check", "post"} /\ clockValue = clk
      /\ UNCHANGED <<job, clk, clockValue>>
  BY PickFrame DEF TickOrder, Deciding
<1>2. /\ Due \in Int /\ Since \in [Proc -> Int] /\ clk \in Nat
      /\ rr_queue \in Seq(Proc)
      /\ Due' \in Int /\ Since' \in [Proc -> Int]
  BY DueTypes, DueTypesNext DEF DueTyped
<1>3. CASE rr_queue = << >>
  <2>1. rr_queue' = << >>
    BY <1>3 DEF Pick, NoReady
  <2> QED BY <2>1 DEF InTime, InLine
<1>4. CASE rr_queue # << >>
  <2>1. PICK h : h = Head(rr_queue)
    OBVIOUS
  <2>2. h \in Proc /\ rr_queue' = Tail(rr_queue) /\ Dispatch(h, clockValue)
    BY <1>2, <1>4, <2>1 DEF Pick, NoReady, TakeNext
  <2>3. clockValue \in 0..MaxClk
    BY <1>1 DEF IInv, Types
  <2>4. /\ current_process' = h /\ time_slice_start' = clk
        /\ \A p \in Proc : pcb'[p].last_prempt = pcb[p].last_prempt
    BY <1>1, <2>2, <2>3, DispatchTypes DEF IInv
  <2>5. \A p \in Range(rr_queue) : Since'[p] = Since[p]
    BY <1>1, <1>2, <2>4, RangeInSet DEF Since, WaitsSince
  <2>6. Due = clk
    BY <1>1 DEF Due, Deciding
  <2>7. Due' <= clk + Slot
    BY <1>1, <1>2, <2>2, <2>4, SlotTypes, ConstantTypes DEF Due, Idle, Latest
  <2>8. InLine(Due', Tail(rr_queue), Since')
    BY <1>2, <1>4, <2>5, <2>6, <2>7, LineLeft DEF InTime
  <2> QED BY <2>2, <2>8 DEF InTime, InLine
<1> QED BY <1>3, <1>4

LEMMA InTimeCompletion ==
  ASSUME Algorithm = "RR", TickInv, Alive', WithinQuantum, InTime, HandleProcessCompletion, IInv'
  PROVE  InTime'
<1> USE DEF TickInv
<1> DEFINE c == current_process
<1>1. /\ clockValue' = clk /\ at' = at /\ UNCHANGED <<job, clk>>
      /\ at \notin {"preempt", "stop"}
  BY CompletionFrame, CompletionPlaces DEF Alive
<1>2. /\ ~Idle /\ c \in Proc /\ Ended(c) /\ at # "pick" /\ CompletionLeavesIdle
  BY CompletionPlaces DEF CompletionTakesNext
<1>3. Idle' /\ UNCHANGED <<rr_queue, pcb>>
  BY <1>2 DEF CompletionLeavesIdle, Idle
<1>4. clk \in Nat /\ time_slice_start \in Int
  BY Numbers DEF IInv
<1>5. job[c].exec > 0
  BY <1>2 DEF WithinQuantum
<1>6. Due >= clk + 1
  BY <1>1, <1>2, <1>4, <1>5, SlotTypes DEF Due, Latest
<1>7. Due' <= clk + 1
  BY <1>1, <1>3, <1>4 DEF Due
<1>8. Due' <= Due
  BY <1>4, <1>6, <1>7, DueTypes, DueTypesNext DEF DueTyped
<1> QED BY <1>1, <1>3, <1>8, InTimeSame

LEMMA InTimeTick ==
  ASSUME Timely, Algorithm = "RR", TickInv, Alive, WithinQuantum, NoTickIsSkipped, InTime, Tick,
         IInv'
  PROVE  InTime'
<1> USE DEF TickInv
<1> DEFINE c == current_process
<1>1. /\ clk' = clk + 1
      /\ UNCHANGED <<job, at, clockValue, c, current_time, pcb, rr_queue, time_slice_start>>
  BY DEF Tick, schedulerVars
<1>2. clk \in Nat /\ clockValue \in Int /\ time_slice_start \in Int
      /\ clockValue <= clk /\ Marks /\ Turns /\ TickOrder
  BY Numbers DEF IInv, Clocks
<1>3. Due \in Int /\ Due' \in Int
  BY DueTypes, DueTypesNext DEF DueTyped
<1>4. ASSUME Idle, rr_queue # << >> PROVE Due' <= Due
  <2>1. /\ at \in {"wait", "top", "sync"} /\ (at = "wait" => clk = current_time)
        /\ (at = "top" => semid = 0)
        /\ gen = "poll" /\ (last_tick = clk \/ (last_tick = -1 /\ pq = Proc))
    BY <1>2, TickWhenSettled
  <2>2. at \notin {"sync", "top"} \/ clk > 0
    BY <1>2, <1>4 DEF NoTickIsSkipped
  <2>3. at = "wait"
    <3>1. clk > 0 => last_tick = clk
      BY <1>2, <2>1 DEF Tick, GeneratorSettled
    <3> QED BY <1>4, <2>1, <2>2, <3>1 DEF NoTickIsSkipped, Posted
  <2>4. clockValue = clk
    BY <2>1, <2>3 DEF NoTickIsSkipped
  <2> QED BY <1>1, <1>2, <1>4, <2>3, <2>4 DEF Due, Idle, Deciding
<1>5. ASSUME ~Idle, rr_queue # << >> PROVE Due' <= Due
  <2>1. /\ at = "wait" /\ clk = current_time
        /\ life[c] = "crashed" \/ life[c] = "tick"
        /\ c \in Proc /\ job[c].exec \in Nat
    BY <1>2, <1>5, TickWhenGranted, JobTypes DEF IInv, Types, Idle
  <2>2. ~(shm[c] = 0 /\ job[c].exec > 0)
    BY <2>1 DEF IInv, Working
  <2>3. \/ clk < time_slice_start + Quantum
        \/ job[c].exec = 0 /\ clk <= time_slice_start + Quantum
    BY <1>5, <2>1, <2>2 DEF WithinQuantum, HasRun
  <2> QED BY <1>1, <1>2, <1>5, <2>1, <2>3, SlotTypes DEF Due, Idle, Latest
<1>6. rr_queue # << >> => Due' <= Due
  BY <1>4, <1>5
<1> QED BY <1>1, <1>6, InTimeSame

LEMMA InTimeStep ==
  ASSUME Timely, Algorithm = "RR", TickInv, WithinQuantum, NoTickIsSkipped, ArrivalsInTime, InTime,
         Next, Alive', IInv'
  PROVE  InTime'
<1>1. Alive
  BY AliveBefore
<1>2. ASSUME UNCHANGED <<job, clk, at, clockValue, current_process, rr_queue, time_slice_start, pcb>>
      PROVE  InTime'
  BY <1>2 DEF InTime, InLine, Due, Since, WaitsSince, Idle, Deciding
<1>3. ASSUME NEW p \in Proc, ProcessNext(p) \/ Reap(p) PROVE InTime'
  <2>1. UNCHANGED <<job, clk, schedulerVars>>
    BY <1>3, ProcessFrame DEF Reap, ReapProcess
  <2> QED BY <1>2, <2>1 DEF schedulerVars
<1>4. CASE (PlanStep \/ Launch) /\ UNCHANGED schedulerVars
  <2>1. UNCHANGED <<job, clk>>
    BY <1>4, PlanFrame DEF Launch
  <2> QED BY <1>2, <1>4, <2>1 DEF schedulerVars
<1>5. CASE QuietStep \/ Receive \/ StopVictim \/ Pick \/ HandleProcessCompletion
  BY <1>1, <1>5, InTimeQuiet, InTimeReceive, InTimeStop, InTimePick, InTimeCompletion
<1>6. CASE ReapScheduler
  BY <1>1, <1>6 DEF ReapScheduler, Alive
<1>7. CASE Tick
  BY <1>1, <1>7, InTimeTick
<1> QED BY <1>3, <1>4, <1>5, <1>6, <1>7, NextCases

LEMMA RoundInit ==
  ASSUME Algorithm = "RR", Init
  PROVE  RoundInv
<1>1. TickInv
  BY TickInit
<1>2. /\ at = "boot" /\ Idle /\ rr_queue = << >> /\ clk = 0 /\ semid = 0 /\ msgq = << >>
      /\ gen = "poll" /\ last_tick = -1 /\ pq = Proc /\ booked = None
      /\ life = [p \in Proc |-> "unborn"] /\ \A p \in Proc : job[p].arrival \in Nat
  BY ConstantTypes
     DEF Init, SharedInit, SchedulerInit, GeneratorInit, ProcessInit, Memory!Init, Idle
<1>3. WithinQuantum
  BY <1>2 DEF WithinQuantum, HasRun, Ended
<1>4. NoTickIsSkipped
  BY <1>2 DEF NoTickIsSkipped, InTick, Posted
<1>5. ArrivalsInTime
  BY <1>2, EmptyQueue, ConstantTypes DEF ArrivalsInTime, Overdue
<1>6. InTime
  BY <1>2 DEF InTime, InLine
<1> QED BY <1>1, <1>3, <1>4, <1>5, <1>6 DEF RoundInv

LEMMA RoundStep ==
  ASSUME Timely, Algorithm = "RR", RoundInv, [Next]_vars,
         waiting_queue = << >>, waiting_queue' = << >>
  PROVE  RoundInv'
<1>1. TickInv' /\ IInv'
  BY TickStep DEF RoundInv, TickInv
<1>2. ASSUME Alive' PROVE (WithinQuantum /\ NoTickIsSkipped /\ ArrivalsInTime /\ InTime)'
  <2>1. CASE Next
    <3>1. TickInv /\ WithinQuantum /\ NoTickIsSkipped /\ ArrivalsInTime /\ InTime
      BY <1>2, <2>1, AliveBefore DEF RoundInv
    <3> QED BY <1>1, <1>2, <2>1, <3>1, WithinQuantumStep, NoTickIsSkippedStep, ArrivalsInTimeStep,
               InTimeStep
  <2>2. CASE UNCHANGED vars
    <3>1. WithinQuantum'
      BY <1>2, <2>2 DEF RoundInv, WithinQuantum, HasRun, Ended, Idle, Alive, vars, sharedVars,
         schedulerVars, processVars
    <3>2. NoTickIsSkipped'
      BY <1>2, <2>2 DEF RoundInv, NoTickIsSkipped, InTick, Posted, Idle, Alive, vars, sharedVars,
         schedulerVars, generatorVars
    <3>3. ArrivalsInTime'
      BY <1>2, <2>2 DEF RoundInv, ArrivalsInTime, Overdue, Alive, vars, sharedVars,
         schedulerVars, generatorVars
    <3>4. InTime'
      BY <1>2, <2>2 DEF RoundInv, InTime, InLine, Due, Since, WaitsSince, Idle, Deciding, Alive,
         vars, sharedVars, schedulerVars
    <3> QED BY <3>1, <3>2, <3>3, <3>4
  <2> QED BY <2>1, <2>2
<1> QED BY <1>1, <1>2 DEF RoundInv

(***************************************************************************)
(* With RR, as long as nobody has to wait for memory, every process in the *)
(* ready queue waits for one quantum of each other process at most, with   *)
(* the idle tick that follows a completion, whatever the number of         *)
(* processes and the quantum (run_RR_Algorithm, context_switching).        *)
(***************************************************************************)
THEOREM EverybodyIsServed ==
  ASSUME Timely, Algorithm = "RR"
  PROVE  Spec /\ [](waiting_queue = << >>) => []BoundedWait
<1>1. ASSUME RoundInv PROVE BoundedWait
  <2> SUFFICES ASSUME Alive, NEW p \in Range(rr_queue)
               PROVE  clk - WaitsSince(p) <= (Cardinality(Proc) - 1) * (Quantum + 1) + 1
    BY DEF BoundedWait
  <2>1. /\ InTime /\ Due \in Int /\ Since \in [Proc -> Int] /\ clk \in Nat /\ clk <= Due
        /\ rr_queue \in Seq(Proc)
    BY <1>1, DueTypes DEF RoundInv, TickInv, DueTyped
  <2>2. PICK i \in 1..Len(rr_queue) : rr_queue[i] = p
    BY <2>1 DEF Range
  <2>3. p \in Proc /\ Since[p] \in Int /\ i \in Nat /\ WaitsSince(p) = Since[p]
    BY <2>1, <2>2 DEF Since
  <2>4. Due + (i - 1) * Slot <= Since[p] + LongestWait
    BY <2>1, <2>2 DEF InTime, InLine
  <2>5. PICK x \in Nat : x = (i - 1) * Slot
    BY <2>2, SlotTypes
  <2>6. clk - Since[p] <= LongestWait
    BY <2>1, <2>3, <2>4, <2>5, SlotTypes
  <2> QED BY <2>3, <2>6 DEF LongestWait, Slot
<1>2. Init => RoundInv
  BY RoundInit
<1>3. RoundInv /\ [Next]_vars /\ waiting_queue = << >> /\ (waiting_queue = << >>)' => RoundInv'
  BY RoundStep
<1> QED BY <1>1, <1>2, <1>3, PTL DEF Spec
================================================================================
