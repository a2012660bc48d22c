SPECIFICATION Spec
CONSTANTS
  Threads = {t1, t2}
  Size = 13
  HeaderSize = 3
  BlockSizes = {3, 4, 5}
  Overlapping = FALSE
SYMMETRY ThreadSymmetry
INVARIANT NoOvercommit
PROPERTY ImplementsAllocator
CHECK_DEADLOCK FALSE
