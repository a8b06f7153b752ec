\* Five processes with three keys.  The heap has four places, so that it gets
\* full; the array of the arrivals starts with two and grows twice, a ring starts
\* with two and grows once, for four processes.  The memory has eight bytes, for
\* three processes whose requests are empty, one byte, half of it, and too large;
\* they are alike, and no property names one of them.  The input file ends, so that
\* a state without successors is no error.
CONSTANTS
  p1 = p1
  p2 = p2
  p3 = p3
  p4 = p4
  p5 = p5
  Client = {p1, p2, p3}
  Proc <- HeapIds
  Entry <- HeapIds
  Item <- ItemIds
  Keys <- KeyValues
  Times <- KeyValues
  Capacity = 4
  InitialCapacity = 2
  PqCapacity = 2
  Depth = 3
  Sizes = {0, 1, 4, 9}
  None = None
  Nothing = Nothing
  Blank = Blank
CHECK_DEADLOCK FALSE
SPECIFICATION StructuresSpec
SYMMETRY Symmetry
INVARIANTS
  HeapTypeOK
  RingsTypeOK
  ArrivalsTypeOK
  HeapOrdered
  MemoryIsKept
PROPERTIES
  ImplementsReadyHeap
  ImplementsWaitingLine
  ArrivalsImplementReadyHeap
