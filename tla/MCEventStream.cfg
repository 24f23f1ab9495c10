CONSTANTS
  Clients = {c1, c2}
  NoOwner = NoOwner
  LiveOnly = LiveOnly
  RingCapacity = 2
  Durable = FALSE
  DiskMayFail = FALSE
  MaxSeq = 4
  MaxQueue = 3
  MaxRecoveries = 0
SPECIFICATION Spec
INVARIANTS
  TypeOK
  RingIsNewest
  AccountedFor
PROPERTY ImplementsDelivery
SYMMETRY Symmetry
CHECK_DEADLOCK FALSE
