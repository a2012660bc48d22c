SPECIFICATION FairSpec
CONSTANTS
  Threads = {t1, t2, t3}
  Items = {a, b}
  Capacity = 2
  NoItem = NoItem
INVARIANT TypeOK
INVARIANT CapacityRespected
INVARIANT NoLostWakeup
PROPERTY ImplementsChannel
PROPERTY ReceiverNotStranded
PROPERTY SenderNotStranded
