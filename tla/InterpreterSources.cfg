SPECIFICATION Spec
CONSTANTS
  Main = main
  WordBits = 16
  IntBits = 16
  Threads = {main}
  Programs <- SequentialPrograms
  HeapSize = 120
  CallStackSize = 64
  OperandStackSize = 8
INVARIANT OutcomeAsWritten
INVARIANT AccessesInsideBlocks
INVARIANT LeavesNothing
INVARIANT BalancedCode
INVARIANT CallsFit
INVARIANT OperandsAsPlanned
CHECK_DEADLOCK FALSE
