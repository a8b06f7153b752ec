----------------------------- MODULE CpuScheduling -----------------------------
(***************************************************************************)
(* What a scheduler promises, whatever its policy: one CPU, given to one   *)
(* ready task at a time; a task works only while it has the CPU, and is    *)
(* retired only when it has done all of its work.                          *)
(***************************************************************************)
EXTENDS Naturals

CONSTANTS
  Task,
  Preemptive   \* the CPU may be taken from a task that has work left

VARIABLES
  state,       \* "new", "ready", "running" or "done"
  left         \* the work each task has left

vars == <<state, left>>

Init ==
  /\ state = [t \in Task |-> "new"]
  /\ left \in [Task -> Nat]

Move(t, from, to) ==
  /\ state[t] = from
  /\ state' = [state EXCEPT ![t] = to]
  /\ UNCHANGED left

Free == \A t \in Task : state[t] # "running"

Arrive(t) == Move(t, "new", "ready")
Dispatch(t) == Free /\ Move(t, "ready", "running")
Preempt(t) == Preemptive /\ Move(t, "running", "ready")
Retire(t) == left[t] = 0 /\ Move(t, "running", "done")

\* The CPU goes from a retired task to the next in one step.
Replace(t, u) ==
  /\ left[t] = 0 /\ state[t] = "running"
  /\ state[u] = "ready"
  /\ state' = [state EXCEPT ![t] = "done", ![u] = "running"]
  /\ UNCHANGED left

Work(t) ==
  /\ state[t] = "running"
  /\ left[t] > 0
  /\ left' = [left EXCEPT ![t] = @ - 1]
  /\ UNCHANGED state

Next ==
  \/ \E t \in Task : Arrive(t) \/ Dispatch(t) \/ Preempt(t) \/ Retire(t) \/ Work(t)
  \/ \E t, u \in Task : Replace(t, u)

Spec == Init /\ [][Next]_vars

TypeOK ==
  /\ state \in [Task -> {"new", "ready", "running", "done"}]
  /\ left \in [Task -> Nat]

\* One CPU: two tasks never run at once.
OneRuns == \A t, u \in Task : state[t] = "running" /\ state[u] = "running" => t = u

\* A retired task has no work left.
DoneIsDone == \A t \in Task : state[t] = "done" => left[t] = 0
================================================================================
