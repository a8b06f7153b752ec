\* HPF, signals handled late but within their tick; memory for two small or
\* one large process, so that processes wait for memory.
\* The simulation ends, so a state without successors is no error.
CONSTANTS
  p1 = p1
  p2 = p2
  p3 = p3
  Proc = {p1, p2, p3}
  Workloads <- TrioWorkloads
  Algorithm = "HPF"
  Quantum = 1
  MaxClk = 12
  PromptSignals = FALSE
  Timely = TRUE
  None = None
  Depth = 1
  Sizes = {1, 2}
SPECIFICATION FairSpec
CHECK_DEADLOCK FALSE
INVARIANTS
  WaitingIsExact
  StartsAfterArrival
  WorkFitsInTime
PROPERTIES
  ImplementsBuddyMemory
  LogIsChronological
  Terminates
