\* Two processes, and Ctrl-C twice at any moment.  The programs end, so that a state
\* without successors is no error.
CONSTANTS
  p1 = p1
  p2 = p2
  Proc = {p1, p2}
  MaxInterrupts = 2
SPECIFICATION FairSpec
CHECK_DEADLOCK FALSE
INVARIANTS
  TypeOK
  SharedReleased
  NaturalEndIsClean
PROPERTY
  EverythingEnds
