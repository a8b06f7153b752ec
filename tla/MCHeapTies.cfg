\* Ties between processes of equal priority.
CONSTANTS
  Processes = 6
  Proc <- ProcIds
  Keys <- KeyValues
  Capacity = 5
  None = None
SPECIFICATION HeapSpec
INVARIANT
  TiesByLowerId
