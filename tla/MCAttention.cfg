CONSTANTS
  NoConn = NoConn
  Conns = {c1, c2}
  Requests = {r1, r2}
  Events = {e1}
  Policies <- SomePolicies
  Armings <- SomeArmings
  Offers <- SomeOffers
  MaxObjects = 1
SPECIFICATION Spec
INVARIANTS TypeOK AttendedIsCalm AttentionIsNotified WaitingIsPending
PROPERTY DenyHolds
SYMMETRY Symmetry
CHECK_DEADLOCK FALSE
