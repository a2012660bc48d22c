SPECIFICATION FairSpec
CONSTANTS
  Main = main
  WordBits = 16
  Threads = {main, g1, g2}
  Programs <- GoroutinePrograms
  HeapSize = 48
  CallStackSize = 8
  OperandStackSize = 6
INVARIANT TypeOK
INVARIANT AccessesInsideBlocks
INVARIANT OutcomeAsWritten
INVARIANT CallsFit
PROPERTY Completes
CHECK_DEADLOCK FALSE
