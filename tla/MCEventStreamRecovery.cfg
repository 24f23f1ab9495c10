CONSTANTS
  Clients = {c1}
  NoOwner = NoOwner
  LiveOnly = LiveOnly
  RingCapacity = 2
  Durable = TRUE
  DiskMayFail = TRUE
  MaxSeq = 4
  MaxQueue = 3
  MaxRecoveries = 2
SPECIFICATION Spec
CONSTRAINT NotForgotten
INVARIANT LogInOrder
PROPERTY ImplementsDelivery
CHECK_DEADLOCK FALSE
