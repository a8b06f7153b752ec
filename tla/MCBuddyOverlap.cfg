\* One-byte blocks and half of the memory: 64, 64 and 256 of 1024 behave the same.
CONSTANTS
  Depth = 3
  p1 = p1
  p2 = p2
  p3 = p3
  p4 = p4
  p5 = p5
  Proc = {p1, p2, p3}
  Sizes = {1, 4}
  None = None
SPECIFICATION Spec

INVARIANT
  NoOverlap
