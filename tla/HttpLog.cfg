SPECIFICATION FairSpec
CONSTANTS
  q1 = q1
  q2 = q2
  q3 = q3
  q4 = q4
  Requests = {q1, q2, q3, q4}
  QueueSizeArg = 0
  QueueSizeEnv = 2
  MaxCrashes = 1
INVARIANTS
  TypeOK
  InOrder
  Bounded
  SingleConsumer
  ShutdownFlushes
  ShutdownCanGoOn
PROPERTIES
  IsChannel
  AcceptedIsDelivered
  ShutdownEnds
CHECK_DEADLOCK FALSE
