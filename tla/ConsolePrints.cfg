SPECIFICATION FairSpec
CONSTANTS
  t1 = t1
  t2 = t2
  t3 = t3
  Threads <- MCThreads
  Prints <- MCPrints
  EndOfLine <- MCEndOfLine
  Nobody = Nobody
INVARIANT PrintedInOrder
INVARIANT LinesMixBounded
PROPERTY EverythingIsPrinted
CHECK_DEADLOCK FALSE
