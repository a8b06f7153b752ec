CONSTANTS
  Depth = 3
  p1 = p1
  p2 = p2
  p3 = p3
  p4 = p4
  p5 = p5
  Proc = {p1, p2, p3, p4, p5}
  Sizes = {1, 2}
  None = None
SPECIFICATION Spec
SYMMETRY Symmetry
INVARIANTS
  TypeOK
  NoOverlap
  HolderHasItsBlock
  BlocksHaveOwners
  FreeBlockIsFound
