\* HPF with signals and ticks at any moment, two processes.
\* The simulation ends, so a state without successors is no error.
CONSTANTS
  p1 = p1
  p2 = p2
  p3 = p3
  Proc = {p1, p2}
  Workloads <- PairWorkloads
  Algorithm = "HPF"
  Quantum = 1
  MaxClk = 4
  PromptSignals = FALSE
  Timely = FALSE
  None = None
  Depth = 1
  Sizes = {1, 2}
SPECIFICATION Spec
CHECK_DEADLOCK FALSE
INVARIANTS
  TypeOK
  NotifiedIsRetired
PROPERTIES
  ImplementsCpuScheduling
