SPECIFICATION Spec
CONSTANTS
  Main = main
  WordBits = 16
  Threads = {main}
  Programs <- FunctionPrograms
  HeapSize = 42
  CallStackSize = 40
  OperandStackSize = 6
INVARIANT CallChain
INVARIANT OutcomeAsWritten
PROPERTY CallersKeepLocals
CHECK_DEADLOCK FALSE
