SPECIFICATION Spec
CONSTANTS
  Threads = {t1, t2}
  Size = 8
  HeaderSize = 3
  BlockSizes = {4, 5}
  Overlapping = TRUE
INVARIANT NoOvercommit
CHECK_DEADLOCK FALSE
