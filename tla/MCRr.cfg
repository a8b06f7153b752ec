\* RR with a quantum of one tick and three processes.
\* The simulation ends, so a state without successors is no error.
CONSTANTS
  p1 = p1
  p2 = p2
  p3 = p3
  Proc = {p1, p2, p3}
  Workloads <- LongWorkloads
  Algorithm = "RR"
  Quantum = 1
  MaxClk = 12
  PromptSignals = TRUE
  Timely = TRUE
  None = None
  Depth = 2
  Sizes = {1, 2}
SPECIFICATION FairSpec
CHECK_DEADLOCK FALSE
INVARIANTS
  NotifiedIsRetired
  WaitingIsExact
  WorkFitsInTime
  TimesInOrder
  BoundedWait
PROPERTIES
  ImplementsCpuScheduling
  Terminates
