------------------------------- MODULE Scheduler -------------------------------
(***************************************************************************)
(* The scheduler (scheduler.c): its main loop, cut wherever another        *)
(* program or one of its own two signal handlers can come in between, and  *)
(* the handlers.                                                           *)
(*                                                                         *)
(* The loop dereferences current_process after a test that it is not NULL, *)
(* and the completion handler may free the process and reset the pointer   *)
(* in between.  What happens then is undefined (the program is built to    *)
(* crash at address 0): the model stops the scheduler at "fault".          *)
(***************************************************************************)
EXTENDS SharedState

VARIABLES
  at,                  \* where the scheduler is
  caller,              \* who called run_algorithm: the "tick" or a message ("recv")
  current_process,     \* a process or None
  rr_queue,            \* the ready queue of RR
  ready_Heap,          \* the processes in the heap of HPF and SRTN
  pcb,                 \* the scheduler's PCB of each process
  clockValue, current_time, time_slice_start,
  start_time,          \* time of the first start
  generator_finished,
  finish,              \* finish_time of the completed processes, else None
  logged               \* the time in the last line of scheduler.log, -1 at first

schedulerVars ==
  <<at, caller, current_process, rr_queue, ready_Heap, pcb, clockValue, current_time,
    time_slice_start, start_time, generator_finished, finish, logged>>

Places == {"boot", "sync", "top", "recv", "check", "clock", "compare", "store", "run", "switch",
           "preempt", "stop", "pick", "post", "grant", "refresh", "report", "wait", "exited",
           "fault"}

PCB == [remaining : Int, start : 0..MaxClk \cup {None},
        waiting : Int, last_prempt : 0..MaxClk \cup {None}]

\* A stamp of the main loop can then not be older than one of the handler: no
\* tick comes before the scheduler has done its work, or only the main loop
\* gives out the CPU.
Steady == Timely \/ Algorithm # "SRTN"

\* The times that are -1 in the program until they are known are None here:
\* with the clock as time, nothing is ever stamped with the -1 of clockValue.
SchedulerTypeOK ==
  /\ at \in Places
  /\ caller \in {"tick", "recv"}
  /\ current_process \in Proc \cup {None}
  /\ rr_queue \in SeqOf(Proc, Cardinality(Proc))
  /\ ready_Heap \subseteq Proc
  /\ pcb \in [Proc -> PCB]
  /\ Steady => \A p \in Proc : pcb[p].waiting \in -MaxClk..MaxClk
  /\ {clockValue, current_time, time_slice_start} \subseteq -1..MaxClk
  /\ start_time \in 0..MaxClk \cup {None}
  /\ generator_finished \in BOOLEAN
  /\ finish \in [Proc -> 0..MaxClk \cup {None}]
  /\ logged \in -1..MaxClk

NewPCB(p) == [remaining |-> job[p].exec, start |-> None, waiting |-> 0, last_prempt |-> None]

SchedulerInit ==
  /\ at = "boot"
  /\ caller = "tick"
  /\ current_process = None
  /\ rr_queue = << >>
  /\ ready_Heap = {}
  /\ pcb = [p \in Proc |-> NewPCB(p)]
  /\ clockValue = -1 /\ current_time = -1 /\ time_slice_start = -1
  /\ start_time = None
  /\ generator_finished = FALSE
  /\ finish = [p \in Proc |-> None]
  /\ logged = -1

Idle == current_process = None
NoReady == IF Algorithm = "RR" THEN rr_queue = << >> ELSE ready_Heap = {}
ReadySet == IF Algorithm = "RR" THEN Range(rr_queue) ELSE ready_Heap

\* update_process_remaining_time
Refreshed(p) == [pcb EXCEPT ![p].remaining = shm[p]]

\* The comparators of the heap; extract_min returns a least process.
Key(p) == IF Algorithm = "HPF" THEN job[p].priority ELSE pcb[p].remaining
AnyReady(p) == p \in ready_Heap

Least(p) == p \in ready_Heap /\ \A q \in ready_Heap : Key(p) <= Key(q)

\* Signals are handled before the next step if they are handled promptly.
Interruptible == PromptSignals => ~usr1 /\ ~usr2

Step(from) == at = from /\ Interruptible
--------------------------------------------------------------------------------
\* main up to sync_clk: the tokens posted so far are lost.
Boot ==
  /\ Step("boot")
  /\ semid' = 0
  /\ at' = "sync"
  /\ UNCHANGED <<job, clk, msgq, sync_sem, shm, life, stopped, usr1, usr2,
                 caller, current_process, rr_queue, ready_Heap, pcb, clockValue,
                 current_time, time_slice_start, start_time, generator_finished, finish, logged>>

SyncClk ==
  /\ Step("sync")
  /\ current_time' = clk
  /\ clockValue' = clk - 1
  /\ at' = "top"
  /\ UNCHANGED <<sharedVars, caller, current_process, rr_queue, ready_Heap, pcb,
                 time_slice_start, start_time, generator_finished, finish, logged>>

AllDone == generator_finished /\ NoReady /\ Idle

Leave ==
  /\ Step("top")
  /\ AllDone
  /\ at' = "exited"
  /\ UNCHANGED <<sharedVars, caller, current_process, rr_queue, ready_Heap, pcb, clockValue,
                 current_time, time_slice_start, start_time, generator_finished, finish, logged>>

\* down_nb(semid) succeeds; the loop spins until it does.
Down ==
  /\ Step("top")
  /\ ~AllDone
  /\ down_nb_succeeds(semid)
  /\ semid' = down(semid)
  /\ at' = "recv"
  /\ UNCHANGED <<job, clk, msgq, sync_sem, shm, life, stopped, usr1, usr2,
                 caller, current_process, rr_queue, ready_Heap, pcb, clockValue,
                 current_time, time_slice_start, start_time, generator_finished, finish, logged>>

(***************************************************************************)
(* receive_new_process: handle_process_arrival for the next message.  With *)
(* SRTN and a running process, the algorithm runs for every message, with  *)
(* the clockValue of the tick before.                                      *)
(***************************************************************************)
Receive ==
  /\ Step("recv")
  /\ msgq # << >>
  /\ LET p == Head(msgq) IN
       /\ pcb' = [pcb EXCEPT ![p] = NewPCB(p)]
       /\ IF Algorithm = "RR"
          THEN rr_queue' = Append(rr_queue, p) /\ UNCHANGED ready_Heap
          ELSE ready_Heap' = ready_Heap \cup {p} /\ UNCHANGED rr_queue
  /\ msgq' = Tail(msgq)
  /\ IF Algorithm = "SRTN" /\ ~Idle
     THEN at' = "run" /\ caller' = "recv"
     ELSE at' = "check" /\ UNCHANGED caller
  /\ UNCHANGED <<job, clk, semid, sync_sem, shm, life, stopped, usr1, usr2,
                 current_process, clockValue, current_time, time_slice_start, start_time,
                 generator_finished, finish, logged>>

\* The end of the loop body: an idle CPU forces a run in this tick.
CheckIdle ==
  /\ Step("check")
  /\ clockValue' = IF Idle THEN -1 ELSE clockValue
  /\ at' = "recv"
  /\ UNCHANGED <<sharedVars, caller, current_process, rr_queue, ready_Heap, pcb,
                 current_time, time_slice_start, start_time, generator_finished, finish, logged>>

ReceiveDone ==
  /\ Step("recv")
  /\ msgq = << >>
  /\ at' = "clock"
  /\ UNCHANGED <<sharedVars, caller, current_process, rr_queue, ready_Heap, pcb, clockValue,
                 current_time, time_slice_start, start_time, generator_finished, finish, logged>>

(***************************************************************************)
(* The clock is read, compared and stored: a tick and the completion       *)
(* handler, which sets clockValue as well, may come in between.  The work  *)
(* of a tick is done once: not when a completion has already set           *)
(* clockValue to this tick.                                                *)
(***************************************************************************)
ReadTime ==
  /\ Step("clock")
  /\ current_time' = clk
  /\ at' = "compare"
  /\ UNCHANGED <<sharedVars, caller, current_process, rr_queue, ready_Heap, pcb, clockValue,
                 time_slice_start, start_time, generator_finished, finish, logged>>

CompareTime ==
  /\ Step("compare")
  /\ at' = IF current_time # clockValue THEN "store" ELSE "wait"
  /\ UNCHANGED <<sharedVars, caller, current_process, rr_queue, ready_Heap, pcb, clockValue,
                 current_time, time_slice_start, start_time, generator_finished, finish, logged>>

OldTime == clockValue

TickTime == current_time

StoreTime ==
  /\ Step("store")
  /\ clockValue' = TickTime
  /\ at' = "run"
  /\ caller' = "tick"
  /\ UNCHANGED <<sharedVars, current_process, rr_queue, ready_Heap, pcb, current_time,
                 time_slice_start, start_time, generator_finished, finish, logged>>
--------------------------------------------------------------------------------
Return == at' = IF caller = "recv" THEN "check" ELSE "post"

SwitchWhenReady == ~NoReady
SwitchWhenIdle == Idle /\ ~NoReady

MustSwitch ==
  CASE Algorithm = "HPF"  -> Idle /\ ~NoReady
    [] Algorithm = "SRTN" -> /\ ~NoReady
                             /\ \/ Idle
                                \/ \E q \in ready_Heap :
                                     shm[current_process] > Key(q)
    [] Algorithm = "RR"   -> /\ ~NoReady
                             /\ Idle \/ clockValue - time_slice_start >= Quantum

\* run_HPF_Algorithm, run_SRTN_Algorithm, run_RR_Algorithm
RunAlgorithm ==
  /\ Step("run")
  /\ pcb' = IF Idle \/ Algorithm = "HPF" THEN pcb ELSE Refreshed(current_process)
  /\ IF MustSwitch THEN at' = "switch" ELSE Return
  /\ UNCHANGED <<sharedVars, caller, current_process, rr_queue, ready_Heap, clockValue,
                 current_time, time_slice_start, start_time, generator_finished, finish, logged>>

(***************************************************************************)
(* context_switching.  A process that has just done its last unit is left  *)
(* alone; any other is preempted (its remaining time is read once more),   *)
(* stopped and put back.                                                   *)
(***************************************************************************)
EnterSwitch ==
  /\ Step("switch")
  /\ pcb' = IF Idle THEN pcb ELSE Refreshed(current_process)
  /\ IF Idle THEN at' = "pick"
     ELSE IF shm[current_process] = 0 THEN Return
     ELSE at' = "preempt"
  /\ UNCHANGED <<sharedVars, caller, current_process, rr_queue, ready_Heap, clockValue,
                 current_time, time_slice_start, start_time, generator_finished, finish, logged>>

\* preempt_process up to the kill; its progress bar divides by the runtime.
Preempt ==
  /\ Step("preempt")
  /\ pcb' = [Refreshed(current_process) EXCEPT ![current_process].last_prempt = clockValue]
  /\ at' = IF job[current_process].exec = 0 THEN "fault" ELSE "stop"
  /\ UNCHANGED <<sharedVars, caller, current_process, rr_queue, ready_Heap, clockValue,
                 current_time, time_slice_start, start_time, generator_finished, finish, logged>>

LeftRunning(p) == stopped

\* kill(process->pid, SIGSTOP)
Stopped(p) == stopped \cup {p}

StopVictim ==
  /\ Step("stop")
  /\ stopped' = Stopped(current_process)
  /\ IF Algorithm = "RR"
     THEN rr_queue' = Append(rr_queue, current_process) /\ UNCHANGED ready_Heap
     ELSE ready_Heap' = ready_Heap \cup {current_process} /\ UNCHANGED rr_queue
  /\ at' = "pick"
  /\ logged' = clockValue    \* "stopped"
  /\ UNCHANGED <<job, clk, semid, msgq, sync_sem, shm, life, usr1, usr2,
                 caller, current_process, pcb, clockValue, current_time, time_slice_start,
                 start_time, generator_finished, finish>>

NoWaitYet(p, now) == 0
LastWait(p, now) == now - pcb[p].last_prempt

\* The waiting time of a process that starts or is resumed at time now.
WaitToStart(p, now) == now - job[p].arrival
WaitToResume(p, now) ==
  IF pcb[p].last_prempt = None THEN pcb[p].waiting
  ELSE pcb[p].waiting + now - pcb[p].last_prempt

\* start_process or resume_process
Dispatch(p, now) ==
  /\ current_process' = p
  /\ pcb' = IF pcb[p].start = None
            THEN [pcb EXCEPT ![p].start = now, ![p].waiting = WaitToStart(p, now)]
            ELSE [pcb EXCEPT ![p].waiting = WaitToResume(p, now)]
  /\ start_time' = IF start_time = None THEN now ELSE start_time
  /\ stopped' = stopped \ {p}
  /\ time_slice_start' = now
  /\ logged' = now           \* "started" or "resumed"

\* The rest of context_switching: take the next process and give it the CPU.
TakeNext(now) ==
  IF Algorithm = "RR"
  THEN /\ rr_queue # << >>
       /\ rr_queue' = Tail(rr_queue)
       /\ Dispatch(Head(rr_queue), now)
       /\ UNCHANGED ready_Heap
  ELSE \E p \in ready_Heap :
         /\ Least(p)
         /\ ready_Heap' = ready_Heap \ {p}
         /\ Dispatch(p, now)
         /\ UNCHANGED rr_queue

\* The callers have seen a ready process, but the completion handler may have
\* taken it since: then the CPU stays idle.
Pick ==
  /\ Step("pick")
  /\ IF NoReady
     THEN /\ current_process' = None
          /\ UNCHANGED <<rr_queue, ready_Heap, pcb, start_time, stopped, time_slice_start, logged>>
     ELSE TakeNext(clockValue)
  /\ Return
  /\ UNCHANGED <<job, clk, semid, msgq, sync_sem, shm, life, usr1, usr2,
                 caller, clockValue, current_time, generator_finished, finish>>
--------------------------------------------------------------------------------
\* if(current_process != NULL), twice in the work of a tick.
TestBeforeGrant ==
  /\ Step("post")
  /\ at' = IF Idle THEN "refresh" ELSE "grant"
  /\ UNCHANGED <<sharedVars, caller, current_process, rr_queue, ready_Heap, pcb, clockValue,
                 current_time, time_slice_start, start_time, generator_finished, finish, logged>>

\* semctl(current_process->sync_semid, 0, SETVAL, 1): the process may run a tick.
Grant ==
  /\ Step("grant")
  /\ IF Idle THEN at' = "fault" /\ UNCHANGED sync_sem
     ELSE /\ at' = "refresh"
          /\ sync_sem' = [sync_sem EXCEPT ![current_process] = IF @ = None THEN None ELSE 1]
  /\ UNCHANGED <<job, clk, semid, msgq, shm, life, stopped, usr1, usr2,
                 caller, current_process, rr_queue, ready_Heap, pcb, clockValue,
                 current_time, time_slice_start, start_time, generator_finished, finish, logged>>

\* Ten milliseconds later.
TestBeforeReport ==
  /\ Step("refresh")
  /\ pcb' = IF Idle THEN pcb ELSE Refreshed(current_process)
  /\ at' = IF Idle THEN "wait" ELSE "report"
  /\ UNCHANGED <<sharedVars, caller, current_process, rr_queue, ready_Heap, clockValue,
                 current_time, time_slice_start, start_time, generator_finished, finish, logged>>

\* printf of current_process->remaining_time
Report ==
  /\ Step("report")
  /\ at' = IF Idle THEN "fault" ELSE "wait"
  /\ UNCHANGED <<sharedVars, caller, current_process, rr_queue, ready_Heap, pcb, clockValue,
                 current_time, time_slice_start, start_time, generator_finished, finish, logged>>

WaitForTick ==
  /\ Step("wait")
  /\ clk # current_time
  /\ at' = "top"
  /\ UNCHANGED <<sharedVars, caller, current_process, rr_queue, ready_Heap, pcb, clockValue,
                 current_time, time_slice_start, start_time, generator_finished, finish, logged>>

SchedulerStep ==
  \/ Boot \/ SyncClk \/ Leave \/ Down \/ Receive \/ CheckIdle \/ ReceiveDone
  \/ ReadTime \/ CompareTime \/ StoreTime
  \/ RunAlgorithm \/ EnterSwitch \/ Preempt \/ StopVictim \/ Pick
  \/ TestBeforeGrant \/ Grant \/ TestBeforeReport \/ Report \/ WaitForTick
--------------------------------------------------------------------------------
Alive == at \notin {"exited", "fault"}

\* SIGUSR1.  Before main has installed the handler, early in "boot", it kills
\* the scheduler.
HandleGeneratorCompletion ==
  /\ usr1 /\ Alive
  /\ usr1' = FALSE
  /\ \/ generator_finished' = TRUE /\ UNCHANGED at
     \/ at = "boot" /\ at' = "fault" /\ UNCHANGED generator_finished
  /\ UNCHANGED <<job, clk, semid, msgq, sync_sem, shm, life, stopped, usr2,
                 caller, current_process, rr_queue, ready_Heap, pcb, clockValue,
                 current_time, time_slice_start, start_time, finish, logged>>

CompletionTime == clk

(***************************************************************************)
(* SIGUSR2.  Whoever has sent it, the current process is retired.  With    *)
(* SRTN, once the generator has finished, the handler picks the next       *)
(* process itself.  preempt_process works on a PCB that the handler frees. *)
(***************************************************************************)
HandleProcessCompletion ==
  /\ usr2 /\ Alive
  /\ usr2' = FALSE
  /\ clockValue' = CompletionTime
  /\ at' = IF at \in {"preempt", "stop"} /\ ~Idle THEN "fault" ELSE at
  /\ IF Idle
     THEN UNCHANGED <<logged, finish, sync_sem, current_process, rr_queue, ready_Heap, pcb,
                      stopped, time_slice_start, start_time>>
     ELSE /\ finish' = [finish EXCEPT ![current_process] = clk]
          /\ sync_sem' = [sync_sem EXCEPT ![current_process] = None]
          /\ IF generator_finished /\ Algorithm = "SRTN" /\ ~NoReady
             THEN TakeNext(clk)
             ELSE /\ current_process' = None
                  /\ logged' = clk   \* "finished"
                  /\ UNCHANGED <<rr_queue, ready_Heap, pcb, stopped, time_slice_start,
                                 start_time>>
  /\ UNCHANGED <<job, clk, semid, msgq, shm, life, usr1,
                 caller, current_time, generator_finished>>

SchedulerNext == SchedulerStep \/ HandleGeneratorCompletion \/ HandleProcessCompletion

\* The scheduler has nothing to do in this tick any more.  sync_clk may sleep
\* for a second while the clock is being set up.
SchedulerSettled ==
  \/ ~Alive
  \/ /\ ~usr1 /\ ~usr2
     /\ \/ at = "wait" /\ clk = current_time
        \/ at = "top" /\ ~AllDone /\ semid = 0
        \/ at = "sync" /\ clk = 0
================================================================================
