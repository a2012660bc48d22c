SPECIFICATION Spec
CONSTANTS
  Threads = {t1, t2, t3}
  Size = 7
  HeaderSize = 2
  BlockSizes = {2, 3}
  Overlapping = TRUE
SYMMETRY ThreadSymmetry
INVARIANT TypeOK
INVARIANT HeadersTile
INVARIANT AddressesAreBlocks
INVARIANT OvercommitBounded
CHECK_DEADLOCK FALSE
