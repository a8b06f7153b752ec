------------------------------ MODULE UserProcess ------------------------------
(***************************************************************************)
(* A simulated process (process.c).  It decrements its remaining time in   *)
(* shared memory once per tick, when the scheduler has raised its          *)
(* semaphore, and tells the scheduler when nothing remains.  SIGSTOP can   *)
(* stop it between any two steps.                                          *)
(***************************************************************************)
EXTENDS SharedState

VARIABLE seen  \* current_clk of each process, None outside the wait for a tick

processVars == seen

ProcessTypeOK == seen \in [Proc -> 0..MaxClk \cup {None}]

ProcessInit == seen = [p \in Proc |-> None]

Running(p, where) == life[p] = where /\ p \notin stopped

Goto(p, where) == life' = [life EXCEPT ![p] = where]

\* down_nb is retried for ever while it fails, and once the semaphore has been
\* removed it never succeeds again.
Acquire(p) ==
  /\ Running(p, "spin")
  /\ down_nb_succeeds(sync_sem[p])
  /\ sync_sem' = [sync_sem EXCEPT ![p] = down(@)]
  /\ Goto(p, "read")
  /\ UNCHANGED <<job, clk, semid, msgq, shm, stopped, usr1, usr2, seen>>

\* current_clk = get_clk()
ReadClk(p) ==
  /\ Running(p, "read")
  /\ seen' = [seen EXCEPT ![p] = clk]
  /\ Goto(p, "tick")
  /\ UNCHANGED <<job, clk, semid, msgq, sync_sem, shm, stopped, usr1, usr2>>

NoWait(p) == TRUE

TickPassed(p) == clk # seen[p]

(***************************************************************************)
(* The clock has moved on: one unit of work is done.  With a runtime of    *)
(* zero the loop ends as well, and the progress bar that follows divides   *)
(* by the runtime: the process is killed by SIGFPE and notifies nobody.    *)
(***************************************************************************)
Work(p) ==
  /\ Running(p, "tick")
  /\ TickPassed(p)
  /\ shm' = [shm EXCEPT ![p] = @ - 1]
  /\ seen' = [seen EXCEPT ![p] = None]
  /\ \/ shm'[p] > 0 /\ Goto(p, "spin")
     \/ shm'[p] <= 0 /\ job[p].exec > 0 /\ Goto(p, "notify")
     \/ shm'[p] <= 0 /\ job[p].exec = 0 /\ Goto(p, "crashed")
  /\ UNCHANGED <<job, clk, semid, msgq, sync_sem, stopped, usr1, usr2>>

KeepQuiet == UNCHANGED usr2

\* kill(scheduler_pid, SIGUSR2)
Announce == usr2' = TRUE

\* up() ends the process with exit(1), before the completion is announced, if
\* the semaphore has been removed.
Notify(p) ==
  /\ Running(p, "notify")
  /\ shm' = [shm EXCEPT ![p] = 0]
  /\ IF up_succeeds(sync_sem[p])
     THEN /\ sync_sem' = [sync_sem EXCEPT ![p] = up(@)]
          /\ Announce
          /\ Goto(p, "exit")
     ELSE Goto(p, "zombie") /\ UNCHANGED <<sync_sem, usr2>>
  /\ UNCHANGED <<job, clk, semid, msgq, stopped, usr1, seen>>

Exit(p) ==
  /\ Running(p, "exit")
  /\ Goto(p, "zombie")
  /\ UNCHANGED <<job, clk, semid, msgq, sync_sem, shm, stopped, usr1, usr2, seen>>

ProcessStep(p) ==
  Acquire(p) \/ ReadClk(p) \/ Work(p) \/ Notify(p) \/ Exit(p)

\* The process has nothing to do in this tick any more.
ProcessSettled(p) ==
  \/ p \in stopped
  \/ life[p] \in {"unborn", "reaped", "crashed"}
  \/ life[p] = "spin" /\ ~down_nb_succeeds(sync_sem[p])
  \/ life[p] = "tick" /\ clk = seen[p]
================================================================================
