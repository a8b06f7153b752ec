\* SRTN with three processes, two of them shorter than the first.
\* The simulation ends, so a state without successors is no error.
CONSTANTS
  p1 = p1
  p2 = p2
  p3 = p3
  Proc = {p1, p2, p3}
  Workloads <- FittingWorkloads
  Algorithm = "SRTN"
  Quantum = 1
  MaxClk = 12
  PromptSignals = TRUE
  Timely = TRUE
  None = None
  Depth = 2
  Sizes = {1, 2}
SPECIFICATION FairSpec
CHECK_DEADLOCK FALSE
INVARIANTS
  NotifiedIsRetired
  WorkFitsInTime
  TimesInOrder
  ShortestRuns
  UtilisationAtMostFull
PROPERTIES
  ImplementsCpuScheduling
  Terminates
