\* HPF; the completion handler runs between the test and the use.
\* The simulation ends, so a state without successors is no error.
CONSTANTS
  p1 = p1
  p2 = p2
  p3 = p3
  Proc = {p1, p2}
  Workloads <- LateWorkloads
  Algorithm = "HPF"
  Quantum = 1
  MaxClk = 6
  PromptSignals = FALSE
  Timely = TRUE
  None = None
  Depth = 1
  Sizes = {1, 2}
SPECIFICATION Spec
CHECK_DEADLOCK FALSE
INVARIANTS
  NeverFaults
