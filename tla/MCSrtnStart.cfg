\* SRTN; a process starts in the tick before it arrived.
\* The simulation ends, so a state without successors is no error.
CONSTANTS
  p1 = p1
  p2 = p2
  p3 = p3
  Proc = {p1, p2, p3}
  Workloads <- FittingWorkloads
  Algorithm = "SRTN"
  Quantum = 1
  MaxClk = 12
  PromptSignals = TRUE
  Timely = TRUE
  None = None
  Depth = 2
  Sizes = {1, 2}
SPECIFICATION Spec
CHECK_DEADLOCK FALSE
INVARIANTS
  StartsAfterArrival
