SPECIFICATION MCSpec
CONSTANTS
  Sender = {p1, p2}
  Sock = {s1}
  MaxList = 2
  PipeSize = 1
  MaxTid = 2
  MaxData = 1
  Thread = {t1, t2, t3, t4}
INVARIANTS
  TypeOK
  NoLostWakeup
  ReadinessAgrees
  ReadNeverBlocks
  NoLostSignal
  CountersAgree
  NoneStranded
PROPERTIES
  MessagesServed
  SocketsServed
  CallReturns
  WritersGetIn
  ImplementsLock
CHECK_DEADLOCK FALSE
