------------------------------ MODULE MCConsole ------------------------------
(* examples/interleaving.goat with three goroutines that count two steps.   *)
EXTENDS Console

CONSTANTS t1, t2, t3

MCThreads == {t1, t2, t3}
MCPrints == [t \in MCThreads |->
  CASE t = t1 -> <<0, 1>> [] t = t2 -> <<10, 11>> [] t = t3 -> <<20>>]
MCEndOfLine == 99
=============================================================================
