SPECIFICATION Spec
CONSTANTS
  t1 = t1
  t2 = t2
  t3 = t3
  Threads <- MCThreads
  Prints <- MCPrints
  EndOfLine <- MCEndOfLine
  Nobody = Nobody
INVARIANT LinesWhole
CHECK_DEADLOCK FALSE
